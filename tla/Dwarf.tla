-------------------------------- MODULE Dwarf -------------------------------
(***************************************************************************)
(* The DWARF backend, dwarf.py: what it makes of the output of             *)
(* llvm-dwarfdump and of nm.  Both tools are external; a dump is the       *)
(* sequence of its DIEs as they are printed, without their nesting.        *)
(*                                                                         *)
(* A DIE is a record [at, tag, name, linkage, size, location, type,        *)
(* low_pc, decl, spec], with None for an attribute that is absent (or an   *)
(* address that is zero).  An rva_map is an ordered dict: a sequence of    *)
(* [name, rva] with no name twice.                                         *)
(***************************************************************************)
EXTENDS Names

CONSTANTS
    Primitives,    \* _DWTYPE_TO_KIND: [names of types -> kinds]
    Unnamed        \* names that _is_anonymous_type rejects

CompoundTags == {"class_type", "structure_type", "union_type"}
EndTags ==
    {"compile_unit", "subprogram", "namespace", "base_type", "typedef",
     "enumeration_type", "pointer_type", "const_type", "volatile_type",
     "array_type", "subroutine_type"}

Put(dict, key, value) ==
    [k \in DOMAIN dict \cup {key} |-> IF k = key THEN value ELSE dict[k]]

(* _dwarf_type_kind of a printed type [base, suffix].  The stars are cut   *)
(* off before the table is searched.                                       *)
DwarfTypeKind(t) ==
    CASE t = None -> [kind |-> "i32", view |-> None]
      [] t # None /\ t.suffix = "[]" -> [kind |-> "array", view |-> None]
      [] t # None /\ t.suffix # "[]" /\ t.base \in DOMAIN Primitives ->
            [kind |-> Primitives[t.base], view |-> None]
      [] OTHER -> [kind |-> "ptr", view |-> t.base]

(* _parse_dwarf_types_stream *)
NoMember == [name |-> None, location |-> None, type |-> None]

NoType ==
    [state |-> "none", name |-> None, size |-> None, header |-> FALSE, fields |-> <<>>,
     member |-> NoMember, layouts |-> <<>>]

(* fields, a dict: a name that comes again keeps its place. *)
PutField(fields, f) ==
    LET i == SelectInSeq(fields, LAMBDA g : g.name = f.name)
    IN  IF i = 0 THEN Append(fields, f) ELSE [fields EXCEPT ![i] = f]

FlushMember(s) ==
    [s EXCEPT
        !.fields = IF s.member.name # None /\ s.member.location # None
                   THEN PutField(@, [name |-> s.member.name, offset |-> s.member.location,
                                     kind |-> DwarfTypeKind(s.member.type).kind,
                                     view |-> DwarfTypeKind(s.member.type).view])
                   ELSE @,
        !.member = NoMember,
        !.state = IF @ = "member" THEN "compound" ELSE @]

(* A slip: the first definition of a name counts. *)
FirstNamed(s) ==
    s.name # None /\ s.name \notin Unnamed /\ s.fields # <<>> /\ s.name \notin DOMAIN s.layouts

Richer(s) ==
    /\ s.name # None /\ s.name \notin Unnamed /\ s.fields # <<>>
    /\ s.name \in DOMAIN s.layouts =>
        Len(s.fields) > Len(s.layouts[s.name].fields)

FlushCompound(s0) ==
    LET s == FlushMember(s0) IN
    [NoType EXCEPT !.layouts =
        IF Richer(s)
        THEN Put(s.layouts, s.name,
                 [size |-> IF s.size = None THEN 0 ELSE s.size, fields |-> s.fields])
        ELSE s.layouts]

(* The header attributes of a DIE, taken while compound_header is set. *)
TakeHeader(s, die) ==
    IF s.state = "compound" /\ s.header
    THEN [s EXCEPT !.name = IF die.name = None THEN @ ELSE die.name,
                   !.size = IF die.size = None THEN @ ELSE die.size]
    ELSE s

InCompound(s) == s.state \in {"compound", "member"}

ReadTypeDie(s, die) ==
    CASE die.tag \in CompoundTags ->
            TakeHeader([FlushCompound(s) EXCEPT !.state = "compound", !.header = TRUE], die)
      [] die.tag = "member" /\ InCompound(s) ->
            [FlushMember(s) EXCEPT
                !.header = FALSE, !.state = "member",
                !.member = [name |-> die.name, location |-> die.location, type |-> die.type]]
      [] die.tag \in EndTags -> FlushCompound(s)
      [] die.tag \notin EndTags \cup CompoundTags /\ InCompound(s) /\ die.tag # "member" ->
            TakeHeader(FlushMember(s), die)
      [] OTHER -> s

DwarfLayouts(dump) ==
    LET read[i \in 0 .. Len(dump)] ==
            IF i = 0 THEN NoType ELSE ReadTypeDie(read[i - 1], dump[i])
    IN  FlushCompound(read[Len(dump)]).layouts

-----------------------------------------------------------------------------
(* extract_rvas: each subprogram is flushed when the next DIE is printed.  *)
Mangled(die) == IF die.linkage # None THEN die.linkage ELSE die.name

Defines(die) ==
    /\ die.low_pc # None
    /\ die.spec # None \/ (~die.decl /\ Mangled(die) # None)
Declares(die) ==
    /\ die.decl /\ Mangled(die) # None
    /\ die.spec = None \/ die.low_pc = None

(* decl_mangles.get(spec) when n subprograms have been flushed. *)
DeclName(subs, spec, n) ==
    LET decls == {j \in 1 .. n : Declares(subs[j]) /\ subs[j].at = spec}
    IN  IF decls = {} THEN None ELSE Mangled(subs[Max(decls)])

(* The name that a definition has when it is flushed. *)
NameNow(subs, i) ==
    IF subs[i].spec = None THEN Mangled(subs[i]) ELSE DeclName(subs, subs[i].spec, i - 1)

(* A slip: a definition whose declaration has not been printed is dropped. *)
NothingPending(subs) == {}

(* What refers to a declaration that has not been printed yet, or to one   *)
(* whose name is taken, is left for the end.                               *)
Pending(subs) ==
    {i \in DOMAIN subs :
        /\ Defines(subs[i]) /\ subs[i].spec # None
        /\ \/ NameNow(subs, i) = None
           \/ \E j \in 1 .. i - 1 : Defines(subs[j]) /\ NameNow(subs, j) = NameNow(subs, i)}

(* The addresses of the subprograms of K that have one of the names. *)
Addresses(subs, K, names) ==
    LET known == [i \in DOMAIN subs |-> [name |-> names[i], rva |-> subs[i].low_pc]]
    IN  Selection(known, {i \in K : names[i] # None})

SubprogramRvas(subs) ==
    OncePerName(
        Addresses(subs, {i \in DOMAIN subs : Defines(subs[i])},
                  [i \in DOMAIN subs |-> NameNow(subs, i)])
        \o Addresses(subs, Pending(subs),
                     [i \in DOMAIN subs |-> DeclName(subs, subs[i].spec, Len(subs))]))

(* _extract_rvas_nm *)
NmRvas(symbols) ==
    LET code == Selection(symbols, {i \in DOMAIN symbols : symbols[i].kind \in {"T", "t", "D", "d"}})
    IN  OncePerName([i \in DOMAIN code |-> [name |-> code[i].name, rva |-> code[i].addr]])

DwarfRvas(dump, symbols) ==
    LET rvas == SubprogramRvas(
            Selection(dump, {i \in DOMAIN dump : dump[i].tag = "subprogram"}))
    IN  IF rvas = <<>> THEN NmRvas(symbols) ELSE rvas

=============================================================================
