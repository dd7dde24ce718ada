--------------------------------- MODULE Pdb --------------------------------
(***************************************************************************)
(* The PDB backend, pdb.py: what it makes of the output of llvm-pdbutil,   *)
(* which is external.                                                      *)
(*                                                                         *)
(* Type ids are pairs: <<"simple", name>>, <<"pointer", name>> (a pointer  *)
(* mode of a simple type) and <<"record", n>>.  The TPI and IPI streams    *)
(* number their records independently.  A stream is a sequence of records, *)
(* each with an id, a kind and what its kind has: name, fwdref, fieldlist  *)
(* and size; members, bases and cont; to (the type a pointer, modifier,    *)
(* alias or enum refers to); ret, arglist, class and this; args; function. *)
(***************************************************************************)
EXTENDS Names

CONSTANTS
    ArgNames,   \* the names arg0, arg1, ... of the arguments of a signature
    Simple      \* _SIMPLE_TYPE_RE: [names of simple types -> kinds]

ProcKinds ==
    {"S_GPROC32", "S_LPROC32", "S_GPROC32_ID", "S_LPROC32_ID",
     "S_GPROC32_DPC", "S_LPROC32_DPC", "S_GPROC32_DPC_ID", "S_LPROC32_DPC_ID"}
ClassKinds == {"CLASS", "STRUCTURE", "UNION"}

(* The last record of an id, None if there is none. *)
Record(stream, id) ==
    LET i == SelectLastInSeq(stream, LAMBDA r : r.id = id)
    IN  IF i = 0 THEN None ELSE stream[i]

KindIn(record, kinds) == record # None /\ record.kind \in kinds

(* _resolve_fieldlist: the chain of LF_INDEX continuations, a name from    *)
(* the first list that has it.                                             *)
Follow(types, acc) ==
    LET r == Record(types, acc.next) IN
    IF KindIn(r, {"FIELDLIST"}) /\ acc.next \notin acc.seen
    THEN [lists |-> Append(acc.lists, r), next |-> r.cont, seen |-> acc.seen \cup {acc.next}]
    ELSE [acc EXCEPT !.next = None]

ChainOf(types, fid) ==
    LET follow[i \in 0 .. Len(types)] ==
            IF i = 0 THEN [lists |-> <<>>, next |-> fid, seen |-> {}]
            ELSE Follow(types, follow[i - 1])
    IN  follow[Len(types)].lists

MembersIn(lists) == FlattenSeq([i \in DOMAIN lists |-> lists[i].members])
BasesIn(lists) == FlattenSeq([i \in DOMAIN lists |-> lists[i].bases])
MembersOf(types, fid) == OncePerName(MembersIn(ChainOf(types, fid)))
BasesOf(types, fid) == BasesIn(ChainOf(types, fid))

(* chosen: of the definitions of a name the first with the most members    *)
(* and bases.                                                              *)
Definitions(types, name) ==
    Selection(types, {i \in DOMAIN types :
        /\ types[i].kind \in ClassKinds /\ types[i].name = name
        /\ ~types[i].fwdref /\ types[i].fieldlist # None})

Weight(types, c) == Len(MembersOf(types, c.fieldlist)) + Len(BasesOf(types, c.fieldlist))

FirstOfHighest(numbers) ==
    CHOOSE i \in DOMAIN numbers : \A j \in DOMAIN numbers :
        \/ numbers[i] > numbers[j]
        \/ numbers[i] = numbers[j] /\ i <= j

Chosen(types, name) ==
    LET defs == Definitions(types, name)
    IN  defs[FirstOfHighest([i \in DOMAIN defs |-> Weight(types, defs[i])])]

ClassNames(types) ==
    {types[i].name : i \in {j \in DOMAIN types : types[j].kind \in ClassKinds}} \ {None}
Defined(types) == {n \in ClassNames(types) : Definitions(types, n) # <<>>}

(* A slip: members of a base keep the offset that they have in it. *)
MovedToZero(members, offset) == members

Moved(members, offset) ==
    [i \in DOMAIN members |->
        [name |-> members[i].name, offset |-> members[i].offset + offset]]

BaseName(types, id) ==
    LET r == Record(types, id) IN IF KindIn(r, ClassKinds) THEN r.name ELSE None

(* flatten: a class's own members, then those of its bases with the offset *)
(* of the base added, by the name of the base; below is what flatten gives *)
(* for the bases.  Classes that are being visited are left out, so that a  *)
(* hierarchy is no deeper than there are classes.  memo saves work only: a *)
(* class is not its own base.                                              *)
MembersBelow(types, visited, base, below) ==
    LET name == BaseName(types, base.id)
    IN  IF name \in Defined(types) \ visited
        THEN Moved(below[visited][name], base.offset) ELSE <<>>
WithBases(types, visited, fid, below) ==
    LET bases == BasesOf(types, fid)
    IN  OncePerName(MembersOf(types, fid) \o
            FlattenSeq([i \in DOMAIN bases |-> MembersBelow(types, visited, bases[i], below)]))

Flatten(types, name) ==
    LET depth == Cardinality(Defined(types))
        flat[k \in 0 .. depth] ==
            [visiting \in SUBSET Defined(types) |-> [n \in Defined(types) |->
                IF k = 0 THEN <<>>
                ELSE WithBases(types, visiting \cup {n}, Chosen(types, n).fieldlist, flat[k - 1])]]
    IN  flat[depth][{}][name]

LayoutFrom(size, flat) ==
    [size |-> size,
     fields |-> [i \in DOMAIN flat |-> [name |-> flat[i].name, offset |-> flat[i].offset,
                                        kind |-> None, view |-> None]]]
PdbLayouts(types) ==
    [n \in {d \in Defined(types) :
                Flatten(types, d) # <<>> \/ Chosen(types, d).size \notin {0, None}} |->
        LayoutFrom(Chosen(types, n).size, Flatten(types, n))]

-----------------------------------------------------------------------------
(* _parse_pdbutil_int of a printed number: its form decides the base. *)
ParsePdbutilInt(s) == IF s.form \in {"0x", "letters", "padded"} THEN s.hex ELSE s.dec

(* _resolve_rva; sections is [indices -> addresses]. *)
ResolveRva(sym, sections) ==
    LET seg == ParsePdbutilInt(sym.seg)
        rva == sections[seg] + ParsePdbutilInt(sym.off)
    IN  IF seg = 0 \/ seg \notin DOMAIN sections THEN None
        ELSE IF rva = 0 THEN None ELSE rva

Procedures(symbols) ==
    Selection(symbols, {i \in DOMAIN symbols :
        symbols[i].kind \in ProcKinds /\ symbols[i].name # None})

Namesakes(entries, i) == {j \in DOMAIN entries : entries[j].name = entries[i].name}

(* A slip: the last record wins. *)
KeepLast(entries) ==
    Selection([i \in DOMAIN entries |-> entries[Max(Namesakes(entries, i))]],
              Firsts(NamesOf(entries)))

(* A dict in which an entry is replaced if its address is lower: a name    *)
(* has the place of its first record and the highest address.              *)
Highest(entries, i) ==
    CHOOSE j \in Namesakes(entries, i) : \A k \in Namesakes(entries, i) :
        \/ entries[j].rva > entries[k].rva
        \/ entries[j].rva = entries[k].rva /\ j <= k
KeepHighest(entries) ==
    Selection([i \in DOMAIN entries |-> entries[Highest(entries, i)]], Firsts(NamesOf(entries)))

(* _parse_function_rvas *)
Located(symbols, sections) ==
    LET procs == Procedures(symbols)
    IN  Selection(procs, {i \in DOMAIN procs : ResolveRva(procs[i], sections) # None})
PdbRvas(symbols, sections) ==
    LET procs == Located(symbols, sections)
    IN  KeepHighest([i \in DOMAIN procs |->
            [name |-> procs[i].name, rva |-> ResolveRva(procs[i], sections)]])

(* _resolve_codeview_type; a type met twice on the way is a cycle. *)
Unresolved == [kind |-> "ptr", name |-> None, view |-> None]
PointerTo(name) ==
    [kind |-> "ptr", name |-> name, view |-> IF name = "void" THEN None ELSE name]

CodeviewType(types, id) ==
    LET resolve[seen \in SUBSET {types[i].id : i \in DOMAIN types},
                t \in {id} \cup {types[i].to : i \in DOMAIN types}] ==
        LET r == Record(types, t) IN
        CASE t[1] = "pointer" /\ t[2] \in DOMAIN Simple -> PointerTo(t[2])
          [] t[1] = "simple" /\ t[2] \in DOMAIN Simple ->
                [kind |-> Simple[t[2]], name |-> t[2], view |-> None]
          [] r # None /\ t \notin seen /\ KindIn(r, ClassKinds) /\ r.name # None ->
                [kind |-> "struct:" \o r.name, name |-> r.name, view |-> r.name]
          [] r # None /\ t \notin seen /\ KindIn(r, {"POINTER"}) /\ r.to # None ->
                PointerTo(resolve[seen \cup {t}, r.to].name)
          [] r # None /\ t \notin seen /\ KindIn(r, {"MODIFIER", "ALIAS", "ENUM"})
                /\ r.to # None -> resolve[seen \cup {t}, r.to]
          [] OTHER -> Unresolved
    IN  resolve[{}, id]

(* The loop of _resolve_procedure: from the id of a symbol, which may name *)
(* an id record, to a procedure type.  A number is looked up among the     *)
(* types first.                                                            *)
FunctionChain(types, ids, start) ==
    FoldLeft(LAMBDA acc, i :
        LET fn == Record(types, acc.id)
            idr == Record(ids, acc.id)
        IN  CASE acc.done -> acc
              [] ~acc.done /\ KindIn(fn, {"PROCEDURE", "MFUNCTION"}) ->
                    [acc EXCEPT !.done = TRUE, !.fn = fn]
              [] ~acc.done /\ ~KindIn(fn, {"PROCEDURE", "MFUNCTION"})
                    /\ KindIn(idr, {"FUNC_ID", "MFUNC_ID"}) /\ acc.id \notin acc.seen ->
                    [acc EXCEPT !.id = idr.function, !.seen = @ \cup {acc.id},
                                !.member = @ \/ idr.kind = "MFUNC_ID",
                                !.class = IF idr.kind = "MFUNC_ID" THEN idr.class ELSE @]
              [] OTHER -> [acc EXCEPT !.done = TRUE],
        [id |-> start, fn |-> None, member |-> FALSE, class |-> None,
         seen |-> {}, done |-> FALSE],
        [i \in 1 .. Len(ids) + 2 |-> i])

ClassName(types, id) == IF id = None THEN None ELSE CodeviewType(types, id).name

(* Whether a function is a member of a class: an id record of a member     *)
(* function settles it, a type must have a pointer to the class as this.   *)
IsMember(types, chain, class) ==
    /\ chain.fn.kind = "MFUNCTION" \/ chain.member
    /\ class # None
    /\ \/ chain.member
       \/ chain.fn.this # None /\ CodeviewType(types, chain.fn.this).name = class

(* _resolve_procedure *)
ReturnOf(t) ==
    [text |-> IF t.kind = "ptr" /\ t.name # None THEN t.name \o "*" ELSE t.kind,
     of   |-> IF t.kind = "ptr" THEN t.name ELSE t.view]
ArgumentOf(name, t) == [name |-> name, kind |-> t.kind, view |-> t.view]
ArgumentsOf(types, list) ==
    IF KindIn(list, {"ARGLIST"})
    THEN [i \in DOMAIN list.args |-> ArgumentOf(ArgNames[i], CodeviewType(types, list.args[i]))]
    ELSE <<>>

SignatureOf(types, chain, class) ==
    IF chain.fn = None \/ chain.fn.ret = None THEN None
    ELSE [ret       |-> ReturnOf(CodeviewType(types, chain.fn.ret)),
          args      |-> ArgumentsOf(types, Record(types, chain.fn.arglist)),
          member    |-> IsMember(types, chain, class),
          self_view |-> IF IsMember(types, chain, class) THEN class ELSE None]

ResolveProcedure(types, ids, id) ==
    LET chain == FunctionChain(types, ids, id)
    IN  SignatureOf(types, chain,
            ClassName(types, IF chain.class # None THEN chain.class ELSE chain.fn.class))

(* _parse_function_signatures: of the records of a name whose address and  *)
(* type can be resolved, the one with the highest address.                 *)
TypeOf(types, ids, s) == IF s.type = None THEN None ELSE ResolveProcedure(types, ids, s.type)
PdbSignatures(symbols, sections, types, ids) ==
    LET procs == Located(symbols, sections)
        signed == [i \in DOMAIN procs |->
            [name |-> procs[i].name, rva |-> ResolveRva(procs[i], sections),
             sig |-> TypeOf(types, ids, procs[i])]]
    IN  KeepHighest(Selection(signed, {i \in DOMAIN signed : signed[i].sig # None}))

=============================================================================
