------------------------------- MODULE Phase2 -------------------------------
(***************************************************************************)
(* phase2 of extract.py: read the manifest that phase 1 has written, ask a *)
(* backend (modules Dwarf, Pdb) for signatures, addresses and layouts,     *)
(* merge (modules Merge, Layouts) and write the two outputs (module Pack). *)
(*                                                                         *)
(* The binary and the manifest of phase 1 are chosen at the start; they    *)
(* are all that is known of the world.  The tools of LLVM are external.  A *)
(* tool that is flaky may die: dwarf.py and the reader of PDB types do not *)
(* look at its exit status and take what it has printed for the whole, cut *)
(* here between two records; the other readers of pdb.py raise.            *)
(***************************************************************************)
EXTENDS Dwarf, Pdb, Merge, Layouts, Pack

CONSTANT Inputs        \* what phase 2 may be run on

(* Lists are lists; a printed number, and where a section is, is one.      *)
ASSUME InputsAreRead ==
    \A in \in Inputs :
        /\ in.format \in {"dwarf", "pdb"}
        /\ IsList(in.functions) /\ IsList(in.structs)
        /\ IsList(in.symbols) /\ IsList(in.units)
        /\ \A u \in ToSet(in.units) :
            IsList(u.children) /\ \A c \in ToSet(u.children) : IsList(c.children)
        /\ IsList(in.types)
        /\ \A r \in ToSet(in.types) :
            /\ IsList(r.members) /\ \A m \in ToSet(r.members) : m.offset \in Int
            /\ IsList(r.bases) /\ \A b \in ToSet(r.bases) : b.offset \in Int
            /\ IsList(r.args)
        /\ IsList(in.procs)
        /\ \A p \in ToSet(in.procs) : ParsePdbutilInt(p.off) \in Int
        /\ \A s \in DOMAIN in.sections : in.sections[s] \in Int

(* Phase 1 writes where it has found a function, and a receiver only for   *)
(* a method.                                                               *)
ASSUME FunctionsAreFound ==
    \A in \in Inputs : \A fn \in ToSet(in.functions) :
        /\ fn.loc # None /\ fn.mangled \in DOMAIN Symbol
        /\ IsList(fn.args)
        /\ \A a \in ToSet(fn.args) : a = [name |-> a.name, kind |-> a.kind, view |-> a.view]
        /\ fn.self_view # None => fn.member
        /\ fn.self_norm # None => fn.self_class # None

(* It keeps one struct of each name, every field of it with an offset.     *)
ASSUME StructsAreFound ==
    \A in \in Inputs :
        /\ \A i, j \in DOMAIN in.structs : in.structs[i].name = in.structs[j].name => i = j
        /\ \A s \in ToSet(in.structs) :
            /\ s = [name |-> s.name, size |-> s.size, fields |-> s.fields]
            /\ s.name \in DOMAIN Rank /\ IsList(s.fields)
            /\ \A k \in DOMAIN s.fields : LET f == s.fields[k] IN
                /\ f = [name |-> f.name, offset |-> f.offset, kind |-> f.kind,
                         len |-> f.len, view |-> f.view]
                /\ f.offset \in Int

(* Every enum and typedef has a name.                                      *)
ASSUME EnumsAreFound ==
    \A in \in Inputs :
        /\ IsList(in.enums)
        /\ \A e \in ToSet(in.enums) : e.name \in DOMAIN Rank /\ IsList(e.values)
        /\ IsList(in.typedefs) /\ \A t \in ToSet(in.typedefs) : t.alias \in DOMAIN Rank

(* The globals that say which PDB it was.                                  *)
IdentityNames == <<"__augment_pdb_guid_lo", "__augment_pdb_guid_hi", "__augment_pdb_age">>
ASSUME IdentityIsText == ToSet(IdentityNames) \subseteq DOMAIN Rank

(* How llvm-dwarfdump prints a unit: a DIE, its children, their children. *)
Printed(unit) ==
    <<unit.die>> \o FlattenSeq([i \in DOMAIN unit.children |->
        <<unit.children[i].die>> \o
        [j \in DOMAIN unit.children[i].children |-> unit.children[i].children[j].die]])
DumpOf(units) == FlattenSeq([i \in DOMAIN units |-> Printed(units[i])])

(* What is known of the names that a binary has.                           *)
ASSUME NamesAreSymbols ==
    \A in \in Inputs :
        /\ \A s \in ToSet(in.symbols) : s.name \in DOMAIN Symbol
        /\ \A p \in ToSet(in.procs) : p.name \in DOMAIN Symbol \cup {None}
        /\ \A r \in ToSet(in.types) : r.name \in DOMAIN Rank \cup {None}
        /\ \A d \in ToSet(DumpOf(in.units)) : d.name \in DOMAIN Rank \cup {None}

VARIABLES
    input,        \* the options and what there is to read (below)
    pc,           \* the step of phase2 that comes next
    signatures, rva_map, functions, structs, struct_layouts, globals,
    whole,        \* history: the tools of this run have printed everything
    json, bin,    \* the output files: state "none", "torn" or "whole", content
    runs

runVars == <<signatures, rva_map, functions, structs, struct_layouts, globals, whole>>
vars == <<input, pc, signatures, rva_map, functions, structs, struct_layouts, globals, whole,
          json, bin, runs>>

(* An input has the options format, sigs (--pdb-signatures) and demangler  *)
(* (one is installed); tool says that the LLVM tool is there, flaky that   *)
(* it may die; runs bounds the runs, those after a crash included.  ast is *)
(* the state of the manifest of phase 1; functions, structs, enums and     *)
(* typedefs are its sections.  Of the binary, units are the DIE trees      *)
(* [die, children] and symbols what nm prints; procs, sections, types, ids *)
(* and identity are what llvm-pdbutil prints.                              *)

(* What llvm-dwarfdump prints of the binary. *)
Dump == DumpOf(input.units)

(* What a reader gets that does not ask whether the tool has died. *)
OutputOf(printed) ==
    {SubSeq(printed, 1, n) : n \in (IF input.flaky THEN 0 ELSE Len(printed)) .. Len(printed)}

EmptyFile == [state |-> "none", content |-> <<>>]
Torn == [state |-> "torn", content |-> <<>>]
Whole(content) == [state |-> "whole", content |-> content]

Fresh ==
    /\ signatures' = <<>> /\ rva_map' = <<>> /\ functions' = <<>> /\ structs' = <<>>
    /\ struct_layouts' = <<>> /\ globals' = <<>> /\ whole' = TRUE

Init ==
    /\ input \in Inputs /\ pc = "load"
    /\ signatures = <<>> /\ rva_map = <<>> /\ functions = <<>> /\ structs = <<>>
    /\ struct_layouts = <<>> /\ globals = <<>> /\ whole = TRUE
    /\ json = EmptyFile /\ bin = EmptyFile /\ runs = 1

Fail ==
    /\ pc' = "failed"
    /\ UNCHANGED <<input, runVars, json, bin, runs>>

(* open and json.load; a torn file is no JSON. *)
LoadAst ==
    /\ pc = "load" /\ input.ast = "whole"
    /\ pc' = "signatures"
    /\ UNCHANGED <<input, runVars, json, bin, runs>>
AstUnreadable == pc = "load" /\ input.ast # "whole" /\ Fail

(* The guard of --pdb-signatures, and extract_function_signatures. *)
ReadSignatures ==
    /\ pc = "signatures"
    /\ input.sigs => input.format = "pdb" /\ input.tool
    /\ signatures' = IF input.sigs
                     THEN PdbSignatures(input.procs, input.sections, input.types, input.ids)
                     ELSE <<>>
    /\ pc' = "rvas"
    /\ UNCHANGED <<input, rva_map, functions, structs, struct_layouts, globals, whole,
                   json, bin, runs>>
NoSignatures ==
    /\ pc = "signatures" /\ input.sigs
    /\ input.format # "pdb" \/ ~input.tool \/ input.flaky
    /\ Fail

(* extract_rvas of either backend. *)
ReadDwarfRvas ==
    /\ pc = "rvas" /\ input.format = "dwarf" /\ input.tool
    /\ \E printed \in OutputOf(Dump) :
        /\ rva_map' = DwarfRvas(printed, input.symbols)
        /\ whole' = (whole /\ printed = Dump)
    /\ pc' = "merge"
    /\ UNCHANGED <<input, signatures, functions, structs, struct_layouts, globals,
                   json, bin, runs>>
ReadPdbRvas ==
    /\ pc = "rvas" /\ input.format = "pdb" /\ input.tool
    /\ rva_map' = PdbRvas(input.procs, input.sections)
    /\ pc' = "merge"
    /\ UNCHANGED <<input, signatures, functions, structs, struct_layouts, globals, whole,
                   json, bin, runs>>
NoRvas ==
    /\ pc = "rvas"
    /\ ~input.tool \/ (input.format = "pdb" /\ input.flaky)
    /\ Fail

(* merge: functions and structs; enums and typedefs are only sorted. *)
MergeAst ==
    /\ pc = "merge"
    /\ functions' = MergedFunctions(input.demangler, input.functions, rva_map, signatures)
    /\ structs' = SortByName(input.structs)
    /\ pc' = "layouts"
    /\ UNCHANGED <<input, signatures, rva_map, struct_layouts, globals, whole, json, bin, runs>>

(* extract_struct_layouts, and what phase2 does with its result. *)
ReadLayouts ==
    /\ pc = "layouts"
    /\ \E printed \in OutputOf(IF input.format = "pdb" THEN input.types ELSE Dump) :
        /\ struct_layouts' = IF input.format = "pdb"
                             THEN PdbLayouts(printed) ELSE DwarfLayouts(printed)
        /\ whole' = (whole /\ printed = IF input.format = "pdb" THEN input.types ELSE Dump)
    /\ pc' = "apply"
    /\ UNCHANGED <<input, signatures, rva_map, functions, structs, globals, json, bin, runs>>

ApplyLayouts ==
    /\ pc = "apply"
    /\ structs' = IF DOMAIN struct_layouts = {} THEN structs
                  ELSE InjectMissing(ApplyStructLayouts(structs, struct_layouts),
                                             struct_layouts, StructViews(functions))
    /\ pc' = "identity"
    /\ UNCHANGED <<input, signatures, rva_map, functions, struct_layouts, globals, whole,
                   json, bin, runs>>

(* image_identity: only a PDB has one, and its absence is no error. *)
Identity(id) ==
    [i \in 1 .. 3 |->
        [name |-> IdentityNames[i], kind |-> "augment_identity", addr |-> id[i]]]
StampIdentity ==
    /\ pc = "identity"
    /\ \/ input.format = "pdb" /\ input.identity # None /\ globals' = Identity(input.identity)
       \/ (input.format # "pdb" \/ input.identity = None \/ input.flaky)
          /\ UNCHANGED globals
    /\ pc' = "openjson"
    /\ UNCHANGED <<input, signatures, rva_map, functions, structs, struct_layouts, whole,
                   json, bin, runs>>

Manifest ==
    [functions |-> functions, structs |-> structs, globals |-> globals,
     enums |-> SortByName(input.enums),
     typedefs |-> SortByAlias(input.typedefs)]

(* open(..., "w") empties a file before it is written. *)
OpenJson ==
    /\ pc = "openjson" /\ json' = Torn /\ pc' = "json"
    /\ UNCHANGED <<input, runVars, bin, runs>>
DumpJson ==
    /\ pc = "json" /\ json' = Whole(Manifest) /\ pc' = "openbin"
    /\ UNCHANGED <<input, runVars, bin, runs>>
OpenBin ==
    /\ pc = "openbin" /\ bin' = Torn /\ pc' = "bin"
    /\ UNCHANGED <<input, runVars, json, runs>>
WriteBin ==
    /\ pc = "bin" /\ bin' = Whole(PackManifest(Manifest)) /\ pc' = "done"
    /\ UNCHANGED <<input, runVars, json, runs>>

(* Another run, after one that has ended or died at any step. *)
Restart ==
    /\ runs < input.runs /\ runs' = runs + 1 /\ pc' = "load"
    /\ Fresh
    /\ UNCHANGED <<input, json, bin>>

Next ==
    \/ LoadAst \/ AstUnreadable \/ ReadSignatures \/ NoSignatures
    \/ ReadDwarfRvas \/ ReadPdbRvas \/ NoRvas \/ MergeAst \/ ReadLayouts \/ ApplyLayouts
    \/ StampIdentity \/ OpenJson \/ DumpJson \/ OpenBin \/ WriteBin \/ Restart

Spec == Init /\ [][Next]_vars
=============================================================================
