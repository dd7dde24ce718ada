-------------------------- MODULE Phase2Properties --------------------------
(* What phase 2 promises, stated over the steps of Phase2. *)
EXTENDS Phase2

Places ==
    {"load", "signatures", "rvas", "merge", "layouts", "apply", "identity",
     "openjson", "json", "openbin", "bin", "done", "failed"}
Files == [state : {"none", "torn"}, content : {<<>>}] \cup
    {f \in {json, bin} : f.state = "whole"}

RvaNames == {rva_map[i].name : i \in DOMAIN rva_map}
RvaOf(name) == rva_map[CHOOSE i \in DOMAIN rva_map : rva_map[i].name = name].rva

(* The variables keep their types; a name has one address, one signature   *)
(* and one layout; functions are sorted.                                   *)
TypeOK ==
    /\ pc \in Places /\ whole \in BOOLEAN /\ {json, bin} \subseteq Files
    /\ Cardinality(RvaNames) = Len(rva_map)
    /\ IsInjective([i \in DOMAIN signatures |-> signatures[i].name])
    /\ \A n \in DOMAIN struct_layouts :
        IsInjective([i \in DOMAIN struct_layouts[n].fields |-> struct_layouts[n].fields[i].name])
    /\ \A i \in 1 .. Len(functions) - 1 : ~Precedes(functions[i + 1], functions[i])

-----------------------------------------------------------------------------
(* Addresses from DWARF                                                    *)

(* Which subprograms a dump defines: a definition gives its own name, or   *)
(* refers to the declaration that does, wherever that is printed.          *)
SubprogramsIn(dump) == {d \in ToSet(dump) : d.tag = "subprogram"}
Subprograms == SubprogramsIn(Dump)

(* Only one subprogram is printed for a place, a declaration has no code,  *)
(* and names are those of symbols.                                         *)
ASSUME DumpsAreSound ==
    \A in \in Inputs : LET subs == SubprogramsIn(DumpOf(in.units)) IN
        /\ \A c, d \in subs : c.at = d.at => c = d
        /\ \A d \in subs : d.decl => d.low_pc = None
        /\ \A d \in subs : Mangled(d) \in DOMAIN Symbol \cup {None}

DeclaredAt(d, at) == d.at = at /\ d.decl /\ Mangled(d) # None
NamersOf(subs, d) ==
    IF d.spec # None THEN {c \in subs : DeclaredAt(c, d.spec)}
    ELSE {c \in {d} : ~c.decl /\ Mangled(c) # None}
DefinedBy(subs) ==
    UNION {{[name |-> Mangled(c), rva |-> d.low_pc] : c \in NamersOf(subs, d)} :
            d \in {e \in subs : e.low_pc # None}}
DefinedAt == DefinedBy(Subprograms)

(* Every address read from DWARF is one at which the dump defines the      *)
(* name, however early the tool dies, and no defined name is missed if it  *)
(* does not (_flush and pending, dwarf.py:246); the table of nm stands in  *)
(* only for a dump that defines nothing.  A name is what the code takes as *)
(* one, DW_AT_name where there is no DW_AT_linkage_name, and of several    *)
(* definitions of a name any may count: what the tests say of both is in   *)
(* the next property.                                                      *)
RvasAreDefinitions ==
    pc = "merge" /\ input.format = "dwarf" =>
        \/ /\ ToSet(rva_map) \subseteq DefinedAt
           /\ whole => RvaNames = {d.name : d \in DefinedAt}
        \/ (whole => DefinedAt = {}) /\ rva_map = NmRvas(input.symbols)

(* What test_dwarf.py says of a dump that was printed to its end and       *)
(* defines something: "Subprograms without DW_AT_linkage_name are          *)
(* excluded" (line 15), and "Duplicate DIEs for the same mangled name:     *)
(* highest RVA wins" (line 16).                                            *)
RvasAreAsTested ==
    pc = "merge" /\ input.format = "dwarf" /\ whole /\ DefinedAt # {} =>
        \A e \in ToSet(rva_map) :
            /\ \E d \in Subprograms : d.linkage = e.name
            /\ \A d \in DefinedAt : d.name = e.name => d.rva <= e.rva

(* Fields from DWARF *)
Children(unit) == [i \in DOMAIN unit.children |-> unit.children[i].die]
UnitsIn(units) ==
    {u \in ToSet(units) \cup UNION {ToSet(t.children) : t \in ToSet(units)} :
        u.die.tag \in CompoundTags}
Units == UnitsIn(input.units)

(* Members come before other children, and a base before both. *)
Orderly(unit) ==
    \A i, j \in DOMAIN unit.children : i < j /\ Children(unit)[j].tag = "member" =>
        Children(unit)[i].tag \in {"member", "inheritance"}

(* Only classes have members, and nothing is in a member or a base, which  *)
(* has no name.                                                            *)
Nested(unit) ==
    \A d \in ToSet(Children(unit)) : d.tag = "member" => unit.die.tag \in CompoundTags
ASSUME MembersAreOfClasses ==
    \A in \in Inputs : \A u \in ToSet(in.units) :
        /\ u.die.tag # "member" /\ Nested(u)
        /\ \A c \in ToSet(u.children) :
            /\ Nested(c)
            /\ c.die.tag \in {"member", "inheritance"} => c.children = <<>>
            /\ \A d \in ToSet(Children(c)) \cup {c.die} : d.tag = "inheritance" => d.name = None

HasPlace(die) == die.tag = "member" /\ die.name # None /\ die.location # None
MemberFields(unit) ==
    {[name |-> d.name, offset |-> d.location] : d \in {e \in ToSet(Children(unit)) : HasPlace(e)}}
NamesIn(fields) == {f.name : f \in fields}
LayoutFields(name) ==
    {[name |-> f.name, offset |-> f.offset] : f \in ToSet(struct_layouts[name].fields)}
DefinitionsOf(name) == {u \in Units : u.die.name = name}

(* Nesting is inferred from the order of the tags (dwarf.py:131).  That is *)
(* enough when the members of a class come before its other children: each *)
(* class has its own members at their offsets, those of the richest        *)
(* definition where a name has several.                                    *)
DwarfFieldsRight ==
    pc = "apply" /\ input.format = "dwarf" /\ whole /\ (\A u \in Units : Orderly(u)) =>
        /\ \A n \in DOMAIN struct_layouts : \E u \in DefinitionsOf(n) :
            /\ LayoutFields(n) \subseteq MemberFields(u)
            /\ \A v \in DefinitionsOf(n) :
                Cardinality(NamesIn(MemberFields(v))) <= Len(struct_layouts[n].fields)
        /\ \A u \in Units :
            u.die.name \notin Unnamed \cup {None} /\ MemberFields(u) # {}
                => u.die.name \in DOMAIN struct_layouts

-----------------------------------------------------------------------------
(* Fields and signatures from a PDB                                        *)

(* The places of the members of a class, along bases no further than there *)
(* are classes: its own, and those of its bases moved by where the base is. *)
OwnPlaces(types, c) ==
    {[name |-> m.name, offset |-> m.offset] :
        m \in ToSet(MembersOf(types, Chosen(types, c).fieldlist))}
KnownBases(types, c) ==
    {b \in ToSet(BasesOf(types, Chosen(types, c).fieldlist)) :
        BaseName(types, b.id) \in Defined(types)}
MovedBy(offset, fields) == {[f EXCEPT !.offset = @ + offset] : f \in fields}
PlacesOver(types, c, below) ==
    OwnPlaces(types, c) \cup
    UNION {MovedBy(b.offset, below[BaseName(types, b.id)]) : b \in KnownBases(types, c)}
MemberPlaces(types) ==
    LET depth == Cardinality(Defined(types))
        places[k \in 0 .. depth] == [c \in Defined(types) |->
            IF k = 0 THEN {} ELSE PlacesOver(types, c, places[k - 1])]
    IN  places[depth]

(* The layout of a class has each member of its hierarchy once, the        *)
(* class's own before one of a base, at a place that the member really has *)
(* (flatten, pdb.py:136), and is that of a definition no other exceeds; no *)
(* class with a member is without a layout.                                *)
PdbFieldsRight ==
    pc = "apply" /\ input.format = "pdb" /\ whole =>
        LET types == input.types
            places == MemberPlaces(types)
        IN  /\ DOMAIN struct_layouts \subseteq Defined(types)
            /\ \A n \in Defined(types) : places[n] # {} => n \in DOMAIN struct_layouts
            /\ \A n \in DOMAIN struct_layouts :
                /\ OwnPlaces(types, n) \subseteq LayoutFields(n)
                /\ LayoutFields(n) \subseteq places[n]
                /\ NamesIn(LayoutFields(n)) = NamesIn(places[n])
            /\ \A n \in Defined(types) : \A i \in DOMAIN Definitions(types, n) :
                Weight(types, Definitions(types, n)[i]) <= Weight(types, Chosen(types, n))

(* Two passes over the same symbols choose among records of one name: the  *)
(* addresses (pdb.py:288) and the signatures (pdb.py:517).  They agree: a  *)
(* signature has the address of its name, unless the record there has no   *)
(* type that can be resolved, and then a lower one.                        *)
SignaturesFollowAddresses ==
    pc = "merge" => \A i \in DOMAIN signatures : LET s == signatures[i] IN
        /\ s.name \in RvaNames /\ s.rva <= RvaOf(s.name)
        /\ s.rva = RvaOf(s.name) \/ \A p \in ToSet(Procedures(input.procs)) :
            p.name = s.name /\ TypeOf(input.types, input.ids, p) # None
                => ResolveRva(p, input.sections) # RvaOf(s.name)

-----------------------------------------------------------------------------
(* The merge                                                               *)
Merged == pc = "layouts"
Kept == Mergeable(input.functions)
IsExcluded(n) == FlatName(input.demangler, n) \in Excluded
ByLoc(fn) == {i \in DOMAIN functions : functions[i].loc = fn.loc}

(* A function whose mangled name the binary has gets that address and      *)
(* keeps that name, whatever else reads the same without arguments and     *)
(* underscores (merge.py:287), unless the name it goes by is excluded: its *)
(* own if that is mangled, or one of the same address.                     *)
GoesBy(name) ==
    IF Symbol[name].mangled THEN {name} ELSE {n \in RvaNames : RvaOf(n) = RvaOf(name)}
ExactNameWins ==
    Merged => \A i \in DOMAIN Kept : LET fn == Kept[i] IN
        fn.mangled \in RvaNames /\ (\A n \in GoesBy(fn.mangled) : ~IsExcluded(n)) =>
            \E j \in ByLoc(fn) :
                functions[j].rva = RvaOf(fn.mangled)
                    /\ (Symbol[fn.mangled].mangled => functions[j].mangled = fn.mangled)

(* Names alone do not drop a function of the headers, and what they say of *)
(* its types stands against the PDB (merge.py:392): a signature fills what *)
(* is empty.  Only a receiver that the binary's name reveals is removed.   *)
SameArgs(args, from) ==
    /\ Len(args) = Len(from)
    /\ \A k \in DOMAIN args : args[k].name = from[k].name /\ args[k].kind = from[k].kind
Stands(fn, r) ==
    /\ fn.ret.text # "ptr" => r.ret = fn.ret
    /\ fn.self_view # None => r.self_view = fn.self_view
    /\ fn.member => r.member
    /\ \/ fn.args = <<>> \/ SameArgs(r.args, fn.args)
       \/ ~fn.member /\ r.self_view = fn.self_class
            /\ (Len(fn.args) = 1 \/ SameArgs(r.args, Tail(fn.args)))
Alone(i) == \A k \in DOMAIN Kept : Kept[k].loc = Kept[i].loc => k = i
HeadersStand ==
    Merged => \A i \in DOMAIN Kept : LET fn == Kept[i] IN
        \/ \E j \in ByLoc(fn) : Stands(fn, functions[j])
        \/ /\ \E n \in RvaNames \cup {fn.mangled} : IsExcluded(n)
           /\ ByLoc(fn) = {} \/ ~Alone(i)

(* Every address of the binary has a record, unless the name it goes by is *)
(* excluded or all its names are cold blocks; what no header explains has  *)
(* one stub, and no stub stands at the address of a function of the        *)
(* headers (consumed_rva_values, merge.py:357).                            *)
Warm(rva) == {n \in RvaNames : RvaOf(n) = rva /\ ~Symbol[n].cold}
At(rva) == {i \in DOMAIN functions : functions[i].rva = rva}
AddressesNamedOnce ==
    Merged => \A n \in RvaNames : LET rva == RvaOf(n) IN
        /\ Warm(rva) # {} /\ At(rva) = {} =>
            \/ \E m \in RvaNames : RvaOf(m) = rva /\ IsExcluded(m)
            \/ \E i \in DOMAIN Kept : IsExcluded(Kept[i].mangled)
        /\ \A i, j \in At(rva) : functions[i].loc = None => i = j

(* A view taken from a mangled name is that of the argument it is given to *)
(* (merge.py:70), if no argument has become the receiver, the mangled name *)
(* is the function's own, and it spells one by one parameters of which     *)
(* those of kind ptr are pointers and no others are (a reference is of     *)
(* kind ptr too), with a name at the end if at all and no pointer inside   *)
(* one that is none itself: not the arguments of a template, whose         *)
(* pointers are read as parameters, and not a nested name.                 *)
Params(fn) == Symbol[fn.mangled].params
ClassOf(p) == IF Last(p).counted THEN Last(p).of ELSE None
SpellsOne(p) ==
    /\ p # <<>>
    /\ \A k \in DOMAIN p :
        /\ p[k].counted => k = Len(p)
        /\ p[k] = Letter("P") => p[1] = Letter("P")
    /\ Last(p) \notin {Letter("P"), Letter("r"), Letter("V")}
SpelledBy(fn) ==
    /\ AfterName(Symbol[fn.mangled].text) = FlattenSeq(Params(fn))
    /\ Len(fn.args) = Len(Params(fn))
    /\ \A k \in DOMAIN Params(fn) :
        /\ SpellsOne(Params(fn)[k])
        /\ fn.args[k].kind = "ptr" <=> Params(fn)[k][1] = Letter("P")
TakesOwnViews(fn, r) ==
    SpelledBy(fn) /\ r.mangled = fn.mangled /\ r.member = fn.member =>
        \A k \in DOMAIN Params(fn) : r.args[k].view \in {fn.args[k].view, ClassOf(Params(fn)[k])}
ViewsFit ==
    Merged => \A i \in DOMAIN Kept : Alone(i) =>
        \A j \in ByLoc(Kept[i]) : TakesOwnViews(Kept[i], functions[j])

(* What test_merge.py says of a name that headers and binary share: it     *)
(* "must not appear twice" (test_merge.py:140).                            *)
MangledOnce ==
    Merged => \A i, j \in DOMAIN functions :
        functions[i].mangled = functions[j].mangled /\ functions[i].mangled \in RvaNames => i = j

-----------------------------------------------------------------------------
(* Layouts and outputs                                                     *)
StructNamed(name) == {i \in DOMAIN structs : structs[i].name = name}
Offered(n, f) ==
    {e \in (IF n \in DOMAIN struct_layouts THEN ToSet(struct_layouts[n].fields) ELSE {}) :
        e.name = f.name /\ e.offset >= 0}

(* Where headers and binary disagree on a field the binary is right        *)
(* (_apply_struct_layouts, extract.py:255); a field it does not know, and  *)
(* the kind of a field whose offset was known, stay as the headers have    *)
(* them.                                                                   *)
BinaryOffsetsWin ==
    pc = "identity" => \A s \in ToSet(input.structs) : \E i \in StructNamed(s.name) :
        \A k \in DOMAIN s.fields :
            LET before == s.fields[k]
                after == structs[i].fields[k]
            IN  /\ after.name = before.name
                /\ IF Offered(s.name, before) = {} THEN after = before
                   ELSE \E e \in Offered(s.name, before) : after.offset = e.offset
                /\ after.kind # before.kind => before.offset < 0 /\ before.kind = "ptr"

(* Every class that a function mentions and the binary lays out has one    *)
(* struct, and only those are added (_inject_missing_structs,              *)
(* extract.py:329).                                                        *)
MentionedStructsExist ==
    pc = "identity" =>
        /\ \A n \in StructViews(functions) \cap DOMAIN struct_layouts :
            (\E e \in ToSet(struct_layouts[n].fields) : e.offset >= 0) => StructNamed(n) # {}
        /\ \A i, j \in DOMAIN structs : structs[i].name = structs[j].name => i = j
        /\ \A i \in DOMAIN structs :
            \/ structs[i].name \in {s.name : s \in ToSet(input.structs)}
            \/ structs[i].name \in StructViews(functions)

(* The reader finds in the packed file, by binary search, the records of   *)
(* every name of the JSON file and no others, in their order and with all  *)
(* their words (pack.py:68 against pack.py:125); only the sign of an enum  *)
(* value is lost.                                                          *)
RoundTrip ==
    pc = "done" => \A section \in SectionNames :
        \A name \in DOMAIN Rank :
            LET records == json.content[section]
                packed == Selection(records,
                    {i \in DOMAIN records : NameOf(section, records[i]) = name})
                found == Lookup(bin.content, section, name)
            IN  found = [k \in DOMAIN packed |-> ValuesOf(section, packed[k])]
=============================================================================
