------------------------------- MODULE Layouts ------------------------------
(***************************************************************************)
(* The struct layouts of the binary, applied to the structs of the headers *)
(* (extract.py, _apply_struct_layouts to _inject_missing_structs).         *)
(*                                                                         *)
(* layouts maps names to [size, fields], fields being a sequence of [name, *)
(* offset, kind, view].  The PDB backend gives an offset alone; its kind   *)
(* and view are None here.                                                 *)
(***************************************************************************)
EXTENDS Names

(* The entry of a field, if _layout_field_offset accepts it, or 0. *)
FieldEntry(lay, name) == SelectInSeq(lay.fields, LAMBDA e : e.name = name /\ e.offset >= 0)

(* _layout_field_kind *)
EntryKind(e) == IF e.kind = None THEN "i32" ELSE e.kind

Unknown(offset) == offset = None \/ offset < 0

(* A slip: only what is unknown is taken from the binary. *)
FillField(f, e) == IF Unknown(f.offset) THEN [f EXCEPT !.offset = e.offset] ELSE f

(* An unknown offset is filled and may bring the kind; a different one is  *)
(* overridden.                                                             *)
ApplyEntry(f, e) ==
    IF Unknown(f.offset)
    THEN [f EXCEPT !.offset = e.offset, !.kind = IF @ = "ptr" THEN EntryKind(e) ELSE @]
    ELSE [f EXCEPT !.offset = e.offset]
ApplyToField(f, lay) ==
    LET i == FieldEntry(lay, f.name) IN IF i = 0 THEN f ELSE ApplyEntry(f, lay.fields[i])

(* _apply_struct_layouts: a struct by the name it has. *)
ApplyToStruct(s, layouts) ==
    IF s.name \notin DOMAIN layouts THEN s
    ELSE LET lay == layouts[s.name] IN
         [s EXCEPT !.fields = [i \in DOMAIN @ |-> ApplyToField(@[i], lay)],
                   !.size = IF lay.size # None /\ lay.size > 0 THEN lay.size ELSE @]

ApplyStructLayouts(structs, layouts) ==
    [i \in DOMAIN structs |-> ApplyToStruct(structs[i], layouts)]

(* _collect_struct_views: the class, the return type and the pointees of a *)
(* function.                                                               *)
ViewsOf(fn) ==
    ({fn.self_view, fn.ret.of} \cup {fn.args[i].view : i \in DOMAIN fn.args}) \ {None}
StructViews(functions) == UNION {ViewsOf(functions[i]) : i \in DOMAIN functions}

(* _inject_missing_structs: what functions mention and headers do not      *)
(* define comes from the binary, in the order of the names.                *)
Injectable(structs, layouts, views) ==
    {n \in views \cap DOMAIN layouts :
        /\ \A i \in DOMAIN structs : structs[i].name # n
        /\ \E i \in DOMAIN layouts[n].fields : layouts[n].fields[i].offset >= 0}

InjectedStruct(name, lay) ==
    LET fields == Selection(lay.fields, {i \in DOMAIN lay.fields : lay.fields[i].offset >= 0})
    IN  [name |-> name,
         size |-> IF lay.size = None THEN 0 ELSE lay.size,
         fields |-> [i \in DOMAIN fields |->
            [name |-> fields[i].name, offset |-> fields[i].offset,
             kind |-> EntryKind(fields[i]), len |-> -1, view |-> fields[i].view]]]

(* A slip: what the headers define is injected again. *)
InjectAll(structs, layouts, views) ==
    LET names == Alphabetical(views \cap DOMAIN layouts)
    IN  structs \o [i \in DOMAIN names |-> InjectedStruct(names[i], layouts[names[i]])]

InjectMissing(structs, layouts, views) ==
    LET names == Alphabetical(Injectable(structs, layouts, views))
    IN  structs \o [i \in DOMAIN names |-> InjectedStruct(names[i], layouts[names[i]])]

=============================================================================
