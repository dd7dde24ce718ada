-------------------------------- MODULE Merge -------------------------------
(***************************************************************************)
(* merge.py: the functions that the headers declare are joined with the    *)
(* addresses that the binary has for its symbols, and what no header       *)
(* explains becomes an opaque stub.                                        *)
(*                                                                         *)
(* A symbol is a name in the binary or a mangled name in the headers.      *)
(* What the code finds in its text is given by Symbol, a record            *)
(*   mangled  it looks mangled            cold    it is a ".cold." block   *)
(*   scoped   it has a "::" before its end   c    it has "_c" or "::"      *)
(*   raw      its own normal form         norm    that of what it demangles*)
(*   flat     its demangled, cleaned name, or plain if no demangler works  *)
(*   text     its name as merge.py reads it, without leading underscores   *)
(*   params   what its mangling spells of each parameter, as a reader of   *)
(*            the whole Itanium grammar tells them apart                   *)
(* Both are made of lexemes: a letter, or a number with as many characters *)
(* as it says, counted.  Only a text that begins with Z is written down.   *)
(* rvas, the rva_map, is a sequence of [name, rva]; sigs, the PDB          *)
(* signatures, a sequence of [name, rva, sig], names once in each.  A      *)
(* return type is [text, of], of being the class its text names, or None.  *)
(***************************************************************************)
EXTENDS Names

CONSTANTS
    Symbol,     \* what the code reads in a symbol
    Excluded,   \* flat names that the --exclude options match
    BadViews    \* _BAD_PTR_VIEWS

ASSUME SymbolsAreNames ==
    /\ None \notin DOMAIN Symbol /\ DOMAIN Symbol \subseteq DOMAIN Rank
    /\ \A k \in DOMAIN Symbol : {Symbol[k].flat, Symbol[k].plain} \subseteq DOMAIN Rank
    /\ \A k \in DOMAIN Symbol :
        /\ Symbol[k].text \in Seq([counted : BOOLEAN, of : STRING])
        /\ Symbol[k].params \in Seq(Seq([counted : BOOLEAN, of : STRING]))

(* _demangle_batch: both demanglers may be missing or fail. *)
Norm(works, k) == IF works THEN Symbol[k].norm ELSE Symbol[k].raw
FlatName(works, k) == IF works THEN Symbol[k].flat ELSE Symbol[k].plain

Entry(rvas, name) == SelectInSeq(rvas, LAMBDA e : e.name = name)

(* mangled_rva_lookup *)
MangledAt(rvas, rva) ==
    LET i == SelectInSeq(rvas, LAMBDA e : e.rva = rva /\ Symbol[e.name].mangled)
    IN  IF i = 0 THEN None ELSE rvas[i].name

(* clean_rva_lookup: the first entry with this normal form, raw or         *)
(* demangled.                                                              *)
CleanEntry(works, rvas, clean) ==
    SelectInSeq(rvas, LAMBDA e : Symbol[e.name].raw = clean \/ Norm(works, e.name) = clean)

(* A slip: the guess by normal form goes first. *)
MatchByNormFirst(works, rvas, fn) ==
    LET clean == CleanEntry(works, rvas, Norm(works, fn.mangled))
    IN  IF clean # 0 THEN clean ELSE Entry(rvas, fn.mangled)

(* The exact name, or else an entry that reads the same when arguments,    *)
(* scopes and underscores are left out.                                    *)
MatchOf(works, rvas, fn) ==
    LET exact == Entry(rvas, fn.mangled)
    IN  IF exact # 0 THEN exact ELSE CleanEntry(works, rvas, Norm(works, fn.mangled))

(* A free function prefix_method(ptr, ...) may be prefix_c::method.        *)
SelfEntry(works, rvas, fn) ==
    IF ~fn.member /\ fn.args # <<>> /\ Head(fn.args).kind = "ptr" /\ fn.self_norm # None
    THEN CleanEntry(works, rvas, fn.self_norm)
    ELSE 0

(* signature_for: by name, else the last signature with the address. *)
SignatureFor(sigs, name, rva) ==
    LET i == SelectInSeq(sigs, LAMBDA s : s.name = name)
        j == SelectLastInSeq(sigs, LAMBDA s : s.rva = rva)
    IN  CASE i # 0 -> sigs[i].sig
          [] i = 0 /\ j # 0 -> sigs[j].sig
          [] OTHER -> None

(* A slip: the types of the headers give way to those of the PDB. *)
ApplySignatureOver(r, sig, preserve_ast) ==
    IF sig = None THEN r
    ELSE [r EXCEPT !.ret = sig.ret, !.args = sig.args,
                   !.self_view = sig.self_view, !.member = sig.member]

(* _apply_pdb_signature *)
ApplySignature(r, sig, preserve_ast) ==
    IF sig = None THEN r
    ELSE [r EXCEPT
        !.ret = IF @.text = "ptr" /\ sig.ret.text # "ptr" THEN sig.ret ELSE @,
        !.args = IF @ = <<>> THEN sig.args ELSE @,
        !.self_view = IF preserve_ast
                      THEN IF r.member /\ @ = None THEN sig.self_view ELSE @
                      ELSE sig.self_view,
        !.member = IF preserve_ast THEN @ ELSE sig.member]

Letter(c) == [counted |-> FALSE, of |-> c]
Counted(name) == [counted |-> TRUE, of |-> name]

(* The text after the name of a function; none if it is nested. *)
AfterName(text) ==
    LET at == IF Len(text) > 1 /\ text[2] \in {Letter("L"), Letter("G"), Letter("K")} THEN 3 ELSE 2
    IN  IF Len(text) >= at /\ text[1] = Letter("Z") /\ text[at].counted
        THEN SubSeq(text, at + 1, Len(text))
        ELSE <<>>

(* Where the name is that follows a P, if only r and V are between them. *)
Pointers(rest) == {i \in DOMAIN rest : rest[i] = Letter("P")}
NameAfter(rest, i) ==
    {j \in DOMAIN rest :
        /\ i < j /\ rest[j].counted
        /\ \A k \in i + 1 .. j - 1 : rest[k] \in {Letter("r"), Letter("V")}}

(* _itanium_param_ptr_views: the names after P, wherever it is, up to the  *)
(* first P without one, where the reading stops.                           *)
PtrViews(text) ==
    LET rest == AfterName(text)
        read == {i \in Pointers(rest) :
            \A j \in Pointers(rest) : j <= i => NameAfter(rest, j) # {}}
        names == [i \in DOMAIN rest |-> rest[First(NameAfter(rest, i))].of]
    IN  Selection(names, read)
NameViews == [k \in DOMAIN Symbol |-> PtrViews(Symbol[k].text)]

(* A slip: views are counted over all arguments. *)
FixArgViewsByPlace(r) ==
    LET views == NameViews[r.mangled]
    IN  [r EXCEPT !.args = [i \in DOMAIN @ |->
            IF @[i].kind = "ptr" /\ i \in DOMAIN views /\ @[i].view \in BadViews \cup {None}
            THEN [@[i] EXCEPT !.view = views[i]]
            ELSE @[i]]]

(* _fix_arg_views_from_mangled: the i-th argument of kind ptr takes the    *)
(* i-th view if it has none of its own.                                    *)
FixArgViews(r) ==
    LET views == NameViews[r.mangled]
        place(i) == Cardinality({j \in 1 .. i : r.args[j].kind = "ptr"})
    IN  [r EXCEPT !.args = [i \in DOMAIN @ |->
            IF /\ @[i].kind = "ptr" /\ place(i) \in DOMAIN views
               /\ @[i].view \in BadViews \cup {None}
            THEN [@[i] EXCEPT !.view = views[place(i)]]
            ELSE @[i]]]

(* What the loop over ast_fns makes of one function: the record, and the   *)
(* address it has used, or None.                                           *)
MergeOne(works, rvas, sigs, fn) ==
    LET match == MatchOf(works, rvas, fn)
        self == SelfEntry(works, rvas, fn)
        used == IF match = 0 THEN self ELSE match
        rva == IF used = 0 THEN None ELSE rvas[used].rva
        r == [flat |-> fn.flat, mangled |-> fn.mangled, rva |-> rva, loc |-> fn.loc,
              ret |-> fn.ret,
              member |-> fn.member \/ self # 0,
              self_view |-> IF self # 0 THEN fn.self_class ELSE fn.self_view,
              args |-> IF self # 0 THEN Tail(fn.args) ELSE fn.args]
        signed == ApplySignature(r,
            SignatureFor(sigs, IF used = 0 THEN fn.mangled ELSE rvas[used].name, rva), TRUE)
        name == CASE used = 0 -> fn.mangled
                  [] used # 0 /\ Symbol[rvas[used].name].mangled -> rvas[used].name
                  [] used # 0 /\ ~Symbol[rvas[used].name].mangled
                        /\ MangledAt(rvas, rva) # None -> MangledAt(rvas, rva)
                  [] OTHER -> fn.mangled
    IN  [record |-> FixArgViews([signed EXCEPT !.mangled = name]), rva |-> rva]

(* Which of the names of an address a stub takes. *)
StubName(rvas, rva) ==
    LET warm == {i \in DOMAIN rvas : rvas[i].rva = rva /\ ~Symbol[rvas[i].name].cold}
        scoped == {i \in warm : Symbol[rvas[i].name].scoped}
        classy == {i \in warm : Symbol[rvas[i].name].c}
        best == IF scoped # {} THEN scoped ELSE IF classy # {} THEN classy ELSE warm
    IN  IF warm = {} THEN None ELSE rvas[First(best)].name

(* _opaque_stub with the signature of its symbol. *)
StubRecord(sigs, name, rva) ==
    ApplySignature([flat |-> name, mangled |-> name, rva |-> rva, loc |-> None,
                    ret |-> [text |-> "ptr", of |-> None], member |-> FALSE, self_view |-> None, args |-> <<>>],
                   SignatureFor(sigs, name, rva), FALSE)

(* A slip: a stub for every name that no function has used. *)
StubsPerName(rvas, sigs, consumed) ==
    LET left == Selection(rvas, {i \in DOMAIN rvas :
            rvas[i].rva \notin consumed /\ ~Symbol[rvas[i].name].cold})
    IN  [i \in DOMAIN left |-> StubRecord(sigs, left[i].name, left[i].rva)]

(* The loop over rva_to_keys: addresses in the order they first appear. *)
RvasOf(rvas) == [i \in DOMAIN rvas |-> rvas[i].rva]
Stubs(rvas, sigs, consumed) ==
    LET left == Selection(rvas, {i \in Firsts(RvasOf(rvas)) :
            rvas[i].rva \notin consumed /\ StubName(rvas, rvas[i].rva) # None})
    IN  [i \in DOMAIN left |-> StubRecord(sigs, StubName(rvas, left[i].rva), left[i].rva)]

(* _merge_functions *)
Mergeable(fns) ==
    Selection(fns, {i \in DOMAIN fns : ~fns[i].generated /\ ~Symbol[fns[i].mangled].cold})

MergeFunctions(works, fns, rvas, sigs) ==
    LET kept == Mergeable(fns)
        merged == [i \in DOMAIN kept |-> MergeOne(works, rvas, sigs, kept[i])]
    IN  [i \in DOMAIN merged |-> merged[i].record]
            \o Stubs(rvas, sigs, {merged[i].rva : i \in DOMAIN merged})

(* _apply_flat_names: a record's flat name is that of its mangled name. *)
ApplyFlatNames(works, records) ==
    LET named == [i \in DOMAIN records |->
            [records[i] EXCEPT !.flat = FlatName(works, records[i].mangled)]]
    IN  Selection(named, {i \in DOMAIN named : named[i].flat \notin Excluded})

(* A stable sort by flat name, then by mangled name. *)
Precedes(r, s) ==
    \/ Rank[r.flat] < Rank[s.flat]
    \/ Rank[r.flat] = Rank[s.flat] /\ Rank[r.mangled] < Rank[s.mangled]
FlatOrder(records) ==
    {ij \in (DOMAIN records) \X (DOMAIN records) :
        \/ Precedes(records[ij[1]], records[ij[2]])
        \/ ~Precedes(records[ij[2]], records[ij[1]]) /\ ij[1] < ij[2]}
SortRecords(records) == Listing(records, DOMAIN records, FlatOrder(records))

(* merge *)
MergedFunctions(works, fns, rvas, sigs) ==
    SortRecords(ApplyFlatNames(works, MergeFunctions(works, fns, rvas, sigs)))

=============================================================================
