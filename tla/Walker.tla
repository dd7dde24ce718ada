------------------------------- MODULE Walker -------------------------------
(***************************************************************************)
(* walker.walk after libclang has parsed a translation unit: which records *)
(* its cursors become.  The parser is external; a TU is the sequence of    *)
(* its cursors in the order of visit, which enters the children of every   *)
(* cursor whether or not it has recorded the cursor itself.                *)
(*                                                                         *)
(* A cursor is a record [kind, name, usr, scopes, foreign, def, loc, type, *)
(* args, values].  name is cursor.spelling, None for an anonymous one      *)
(* (cursor without a spelling, or with one of the markers); usr is the     *)
(* spelling of its type or its mangled name; scopes are the [kind, name]   *)
(* of what encloses it, innermost first; foreign says that it lies in no   *)
(* file, a system header, outside the project root or in an excluded one.  *)
(***************************************************************************)
EXTENDS Listings, SequencesExt

CONSTANTS
    None,         \* no class, no view, an anonymous name
    Classes,      \* record types, by the spelling of the type
    Fields,       \* [Classes -> sequence of [name, offset, type]]
    Bases,        \* [Classes -> sequence of [class, offset]]
    SizeOf,       \* [Classes -> Nat], 0 where libclang gives no size
    Hidden        \* names that set_exclusions excludes

FunctionKinds == {"function", "method", "constructor", "destructor"}
RecordKinds == {"struct", "class", "union"}

(* _type_kind of a canonical type [tag, to]. *)
TypeKind(t) ==
    CASE t.tag = "ptr"    -> [kind |-> "ptr", view |-> IF t.to = "void" THEN None ELSE t.to]
      [] t.tag = "prim"   -> [kind |-> t.to, view |-> None]
      [] t.tag = "chars"  -> [kind |-> "str", view |-> None]
      [] t.tag = "array"  -> [kind |-> "array", view |-> None]
      [] t.tag = "record" -> [kind |-> "struct:" \o t.to, view |-> t.to]
      [] OTHER            -> [kind |-> "ptr", view |-> None]

(* What a field of a class adds to the list: libclang finds its offset by  *)
(* name in the derived type only if the field is the type's own; else the  *)
(* offset is the one in the base that declares it.                         *)
FieldRecord(derived, f) ==
    LET own == SelectInSeq(Fields[derived], LAMBDA g : g.name = f.name) IN
    [name   |-> f.name,
     offset |-> IF own # 0 THEN Fields[derived][own].offset ELSE f.offset,
     kind   |-> TypeKind(f.type).kind]

(* What C++ gives: a class is complete before it is a base, so that among  *)
(* any classes there is one that is a base of none of them.                *)
DirectBases(c) == {Bases[c][i].class : i \in DOMAIN Bases[c]}
ASSUME HierarchiesHaveTops ==
    /\ IsFiniteSet(Classes)
    /\ \A c \in Classes :
        /\ IsList(Fields[c]) /\ \A i \in DOMAIN Fields[c] : Fields[c][i].offset \in Int
        /\ IsList(Bases[c])
        /\ \A i \in DOMAIN Bases[c] : Bases[c][i].class \in Classes /\ Bases[c][i].offset \in Int
    /\ \A S \in SUBSET Classes : S # {} => \E c \in S : \A d \in S : c \notin DirectBases(d)

(* A slip: the names of the derived class do not hide those of its bases. *)
NewFieldsUnhidden(derived, c, names) ==
    LET named == SelectSeq(Fields[c], LAMBDA f : f.name # None)
    IN  [i \in DOMAIN named |-> FieldRecord(derived, named[i])]

NewFields(derived, c, names) ==
    LET declared == [i \in DOMAIN Fields[c] |-> Fields[c][i].name]
        fresh == Selection(Fields[c], {i \in Firsts(declared) : declared[i] \notin names \cup {None}})
    IN  [i \in DOMAIN fresh |-> FieldRecord(derived, fresh[i])]

NewBases(c, bases) ==
    LET classes == [i \in DOMAIN Bases[c] |-> Bases[c][i].class]
    IN  Selection(classes, {i \in Firsts(classes) : classes[i] \notin bases})

(* _collect_struct_fields, its recursion as a stack of bases to visit. *)
VisitClass(derived, s) ==
    LET c == Head(s.stack)
        fields == NewFields(derived, c, s.names)
        fresh == NewBases(c, s.bases)
    IN  [stack  |-> fresh \o Tail(s.stack),
         fields |-> s.fields \o fields,
         names  |-> s.names \cup {fields[i].name : i \in DOMAIN fields},
         bases  |-> s.bases \cup ToSet(fresh)]

VisitNext(derived, s) == IF s.stack = <<>> THEN s ELSE VisitClass(derived, s)

StructFields(c) ==
    LET visits[k \in 0 .. Cardinality(Classes)] ==
            IF k = 0 THEN [stack |-> <<c>>, fields |-> <<>>, names |-> {}, bases |-> {}]
            ELSE VisitNext(c, visits[k - 1])
    IN  visits[Cardinality(Classes)].fields

(* A size is a number. *)
ASSUME StructsAreMeasured == \A c \in Classes : SizeOf[c] \in Nat

(* _find_class_parent: the nearest class, past namespaces and unions. *)
FindClassParent(c) ==
    LET i == SelectInSeq(c.scopes, LAMBDA s : s.kind \in {"class", "struct", "template"})
    IN  IF i = 0 THEN None ELSE c.scopes[i].name

(* The name of the scope right around a cursor, if it is of these kinds. *)
ScopeName(c, kinds) ==
    IF c.scopes # <<>> /\ Head(c.scopes).kind \in kinds THEN Head(c.scopes).name ELSE None

(* _flat *)
Flat(c) == <<ScopeName(c, {"class", "struct", "namespace"}), c.name>>

StructRecord(c) == [name |-> c.name, size |-> SizeOf[c.usr], fields |-> StructFields(c.usr)]

FunctionRecord(c) ==
    [flat      |-> Flat(c),
     mangled   |-> c.usr,
     member    |-> c.kind # "function",
     self_view |-> IF c.kind = "function" THEN None ELSE FindClassParent(c),
     loc       |-> c.loc,
     ret       |-> TypeKind(c.type).kind,
     args      |-> [i \in DOMAIN c.args |-> TypeKind(c.args[i])]]

(* The name of a nested enum carries its class. *)
EnumOwner(c) == ScopeName(c, {"class", "struct"})
EnumName(c) == <<EnumOwner(c), c.name>>
EnumRecord(c) == [name |-> EnumName(c), owner |-> EnumOwner(c), values |-> c.values]

TypedefRecord(c) == [alias |-> c.name, kind |-> TypeKind(c.type).kind]

Section(c) ==
    CASE c.kind \in RecordKinds   -> "structs"
      [] c.kind \in FunctionKinds -> "functions"
      [] c.kind = "enum"          -> "enums"
      [] c.kind = "typedef"       -> "typedefs"
      [] OTHER                    -> "none"

(* A slip: a declaration without a body counts as the type's definition. *)
PassesDeclarations(c) ==
    ~c.foreign /\ (c.kind \in FunctionKinds => Flat(c) \notin Hidden) /\ c.name # None

(* The conditions under which the four _visit_ functions return at once. *)
Passes(c) ==
    /\ ~c.foreign
    /\ c.kind \in RecordKinds \cup {"enum"} => c.def
    /\ c.kind \in FunctionKinds => Flat(c) \notin Hidden /\ c.usr # None
    /\ c.kind \notin FunctionKinds => c.name # None

(* What the seen sets hold: a record by its type, a function by its        *)
(* mangled name, an enum by its name without the class, a typedef by its   *)
(* alias.                                                                  *)
Seen(c) == IF c.kind \in RecordKinds \cup FunctionKinds THEN c.usr ELSE c.name

RecordOf(c) ==
    CASE Section(c) = "structs"   -> StructRecord(c)
      [] Section(c) = "functions" -> FunctionRecord(c)
      [] Section(c) = "enums"     -> EnumRecord(c)
      [] Section(c) = "typedefs"  -> TypedefRecord(c)

(* One section of what walk returns for a TU. *)
Walked(tu, section) ==
    LET visited == {i \in DOMAIN tu : Section(tu[i]) = section /\ Passes(tu[i])}
        fresh == {i \in visited : \A j \in visited : j < i => Seen(tu[j]) # Seen(tu[i])}
        cursors == Selection(tu, fresh)
    IN  [k \in DOMAIN cursors |-> RecordOf(cursors[k])]

-----------------------------------------------------------------------------
(* Where a field of the hierarchy of a class is, counting the offsets of   *)
(* the bases on the way: the set of [name, offset, depth].                 *)
DeclaredIn(c) ==
    {[name |-> Fields[c][i].name, offset |-> Fields[c][i].offset, depth |-> 0]
        : i \in DOMAIN Fields[c]}
Inherited(f, base) ==
    [name |-> f.name, offset |-> f.offset + base.offset, depth |-> f.depth + 1]
Laid[n \in 0 .. Cardinality(Classes)] ==
    [c \in Classes |-> DeclaredIn(c) \cup
        (IF n = 0 THEN {}
         ELSE UNION {{Inherited(f, Bases[c][i]) : f \in Laid[n - 1][Bases[c][i].class]}
                        : i \in DOMAIN Bases[c]})]

HierarchyFields(c) == Laid[Cardinality(Classes)][c]

(* A class is plain when every base it has, at any depth, starts at 0. *)
Plain[n \in 0 .. Cardinality(Classes)] ==
    [c \in Classes |-> \A i \in DOMAIN Bases[c] :
        Bases[c][i].offset = 0 /\ (n > 0 => Plain[n - 1][Bases[c][i].class])]

=============================================================================
