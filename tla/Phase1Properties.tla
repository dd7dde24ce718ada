-------------------------- MODULE Phase1Properties --------------------------
(* What phase 1 promises, stated over the steps of Phase1. *)
EXTENDS Phase1

Places ==
    {"load", "ask", "scan", "save", "stamp", "walk", "merge", "open", "dump", "done"}

(* The variables keep their types; what phase1 keeps twice has one length. *)
TypeOK ==
    /\ pc \in Places
    /\ {cdb, read} \subseteq DOMAIN project.dbs
    /\ {pch, stamp, pch_path} \subseteq DOMAIN project.dbs \cup {NoPch}
    /\ scanned \cup unscanned \cup accounted \subseteq ToSet(FileOrder)
    /\ walked \subseteq accounted
    /\ manifest \in {"none", "torn", "whole"}
    /\ \A s \in Sections :
        /\ Len(combined[s]) = Len(richness_cache[s])
        /\ seen_index[s] \in [DOMAIN seen_index[s] -> DOMAIN combined[s]]

(* Of the records that have arrived, by their number: those of a section   *)
(* that have the key k, and the first of them, and the first of the best;  *)
(* and how many keys have come up to k.                                    *)
OfferKey(log, i) == Key(log[i].section, log[i].record)
OfferScore(log, i) == Score(log[i].section, log[i].record)
Offers(log, s) == {i \in DOMAIN log : log[i].section = s}
OffersOf(log, s, k) == {i \in Offers(log, s) : OfferKey(log, i) = k}
FirstOffer(log, s, k) == First(OffersOf(log, s, k))
OfferedKeys(log, s) == {OfferKey(log, i) : i \in Offers(log, s)}
KeyPlace(log, s, k) ==
    Cardinality({l \in OfferedKeys(log, s) : FirstOffer(log, s, l) <= FirstOffer(log, s, k)})

Outdoes(log, i, j) ==
    \/ OfferScore(log, i) > OfferScore(log, j)
    \/ OfferScore(log, i) = OfferScore(log, j) /\ i <= j
BestOffer(log, s, k) ==
    CHOOSE i \in OffersOf(log, s, k) : \A j \in OffersOf(log, s, k) : Outdoes(log, i, j)

(* Records of one key come from several TUs in any order (extract.py:188). *)
(* What is kept is the first of those with the best score, at the place    *)
(* where the key first appeared, and the cached scores are those of what   *)
(* is kept.                                                                *)
KeptIsBest ==
    \A s \in Sections :
        /\ Len(combined[s]) = Cardinality(OfferedKeys(arrived, s))
        /\ \A k \in OfferedKeys(arrived, s) :
            LET place == KeyPlace(arrived, s, k)
                best == BestOffer(arrived, s, k)
            IN  /\ combined[s][place] = arrived[best].record
                /\ richness_cache[s][place] = OfferScore(arrived, best)
                /\ seen_index[s][k] = place

KeyOf(c) ==
    CASE c.kind \in RecordKinds   -> c.name
      [] c.kind \in FunctionKinds -> c.usr
      [] c.kind = "enum"          -> EnumName(c)
      [] OTHER                    -> c.name

HiddenEnum(tu, i) ==
    tu[i].kind = "enum" /\ \E j \in 1 .. i - 1 :
        tu[j].kind = "enum" /\ Passes(tu[j]) /\ tu[j].name = tu[i].name

(* What may be recorded, and what must be: what has a name, too.           *)
Defined(c) ==
    /\ ~c.foreign /\ Section(c) # "none"
    /\ c.kind \in RecordKinds \cup {"enum"} => c.def
    /\ c.kind \in FunctionKinds => Flat(c) \notin Hidden
Named(c) == c.name # None /\ (c.kind \in FunctionKinds => c.usr # None)

(* Whatever dies or fails, a manifest that is written accounts for every   *)
(* TU of the flag map, and every definition of a TU that was walked is in  *)
(* it under its key (visit, walker.py:222, to json.dump, extract.py:234);  *)
(* of enums with one short name in one TU, only the first.                 *)
NothingDropped ==
    pc \in {"open", "dump", "done"} =>
        /\ accounted = ToSet(Items)
        /\ \A f \in walked : LET tu == project.tus[f] IN
            \A i \in DOMAIN tu : Defined(tu[i]) /\ Named(tu[i]) /\ ~HiddenEnum(tu, i) =>
                \E r \in ToSet(combined[Section(tu[i])]) :
                    Key(Section(tu[i]), r) = KeyOf(tu[i])

(* Only what is defined is recorded: a forward declaration or a foreign    *)
(* cursor never stands in for a definition (walker.py:354).                *)
NothingInvented ==
    \A s \in Sections : \A r \in ToSet(combined[s]) :
        \E f \in walked : \E c \in ToSet(project.tus[f]) :
            Defined(c) /\ Section(c) = s /\ KeyOf(c) = Key(s, r)

(* The fields of c are those of its hierarchy, each name once.             *)
FieldsFollow(c) ==
    LET fields == StructFields(c)
        laid == HierarchyFields(c)
        at(i) == {l \in laid : l.name = fields[i].name}
    IN  /\ {fields[i].name : i \in DOMAIN fields} = {l.name : l \in laid} \ {None}
        /\ Len(fields) = Cardinality({fields[i].name : i \in DOMAIN fields})
        /\ \A i \in DOMAIN fields :
            /\ Plain[Cardinality(Classes)][c] => \E l \in at(i) : l.offset = fields[i].offset
            /\ (\E l \in at(i) : l.depth = 0) =>
                \E l \in at(i) : l.depth = 0 /\ l.offset = fields[i].offset

(* The fields of a record are those of its class hierarchy, each name once *)
(* and that of a field of the class's own at the class's own offset; where *)
(* every base starts at 0, all with the offsets they have                  *)
(* (_collect_struct_fields, walker.py:328).  A base that starts elsewhere  *)
(* is the case the function gets wrong: it keeps the offset in the base.   *)
FieldsMatchHierarchy ==
    pc = "open" =>
        \A f \in walked : \A c \in ToSet(project.tus[f]) :
            c.kind \in RecordKinds /\ Passes(c) => FieldsFollow(c.usr)

(* A command line that can be read: no word is empty, and an option that   *)
(* takes an argument and has none joined to it is followed by a word.      *)
IsToken(t) == t = [opt |-> t.opt, arg |-> t.arg] /\ (IsWord(t) => t.arg # "")
Readable(tokens, options) ==
    /\ IsList(tokens)
    /\ \A i \in DOMAIN tokens :
        /\ IsToken(tokens[i])
        /\ IsBare(tokens[i], options) => WordFollows(tokens, i)

(* The commands are those that the build runs; none gives an option an     *)
(* argument that begins with a dash, as -Xclang does.                      *)
ASSUME CommandsRun == \A db \in Databases : \A e \in ToSet(db) : Readable(e.argv, TakesArg)

(* The forms in which the loop of walk (walker.py:152) knows the options   *)
(* about headers: those of KeptApart with their argument in a word of its  *)
(* own, a few joined to it.  Any other is lost, or loses its argument; and *)
(* a word of no option that begins like one of MSVC becomes an option.     *)
KeptJoined == {"-I", "-D", "-isystem", "-include"}
WalkKnows(tokens) ==
    \A i \in DOMAIN tokens :
        LET t == tokens[i] IN
        /\ t.opt \in SearchOptions => t.opt \in (IF t.arg = "" THEN KeptApart ELSE KeptJoined)
        /\ IsWord(t) /\ t.arg \in DOMAIN SlashWords =>
            i > 1 /\ IsBare(tokens[i - 1], KeptApart)

(* Where the flags of a TU have these forms, libclang searches the         *)
(* directories, includes the files and sees the macros of the command      *)
(* (compile_db.py:172, compile_db.py:14 and walker.py:152): every other    *)
(* option may stand between them.                                          *)
KeptFlagsMeanTheSame ==
    pc = "walk" => \A f \in DOMAIN FlagMap :
        WalkKnows(FlagMap[f]) => Searched(ParseFlags(FlagMap[f])) = Searched(EntryOf(f).argv)

(* If no process of the pool dies, phase 1 ends, however often the user    *)
(* interrupts it and starts it again (extract.py:190).  If one dies, its   *)
(* chunk never comes back and the loop over results waits for ever.        *)
Phase1Ends == <>[](pc = "done" \/ deaths > 0)

=============================================================================
