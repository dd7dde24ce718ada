---------------------------- MODULE Phase2Proofs ----------------------------
(***************************************************************************)
(* Theorems about Phase2, for any binary, headers and options.             *)
(***************************************************************************)
EXTENDS Phase2Properties, PackProofs

-----------------------------------------------------------------------------
(* Choices from a list                                                     *)

(* Of the records of a name, the one with the highest address is kept.     *)
LEMMA HighestIsHighest ==
    ASSUME NEW S, NEW e \in Seq(S), \A i \in DOMAIN e : e[i].rva \in Int, NEW i \in DOMAIN e
    PROVE  /\ Highest(e, i) \in Namesakes(e, i)
           /\ \A k \in Namesakes(e, i) : e[k].rva <= e[Highest(e, i)].rva
<1> DEFINE K == Namesakes(e, i)
           rva(k) == e[k].rva
           R == {ij \in K \X K : rva(ij[1]) > rva(ij[2]) \/ (rva(ij[1]) = rva(ij[2]) /\ ij[1] < ij[2])}
           Over(j, k) == rva(j) > rva(k) \/ (rva(j) = rva(k) /\ j <= k)
<1>1. K \in SUBSET DOMAIN e /\ i \in K /\ \A k \in K : k \in Int
  BY DEF Namesakes
<1>2. IsFiniteSet(K)
  BY <1>1, IndicesAreFinite
<1>3. \A k \in K : rva(k) \in Int
  BY <1>1
<1> HIDE DEF K, rva
<1>4. StrictTotalOrder(R, K)
  BY <1>1, <1>3 DEF StrictTotalOrder
<1>5. \A j, k \in K : j = k \/ <<j, k>> \in R => Over(j, k)
  BY <1>1, <1>3
<1> HIDE DEF R
<1>6. \E j \in K : \A k \in K : j = k \/ <<j, k>> \in R
  BY <1>1, <1>2, <1>4, LeastExists
<1>7. \E j \in K : \A k \in K : Over(j, k)
  BY <1>5, <1>6
<1>8. Highest(e, i) = CHOOSE j \in K : \A k \in K : Over(j, k)
  BY DEF Highest, K, rva
<1> HIDE DEF Over
<1>9. Highest(e, i) \in K /\ \A k \in K : Over(Highest(e, i), k)
  BY <1>7, <1>8
<1>10. QED
  BY <1>1, <1>3, <1>9 DEF Over, K, rva

LEMMA KeepHighestKeeps ==
    ASSUME NEW S, NEW e \in Seq(S), \A i \in DOMAIN e : e[i].rva \in Int
    PROVE  /\ KeepHighest(e) \in Seq(S)
           /\ \A i \in DOMAIN e : \E k \in DOMAIN KeepHighest(e) :
                 KeepHighest(e)[k].name = e[i].name
           /\ \A k \in DOMAIN KeepHighest(e) : \E j \in DOMAIN e :
                 /\ KeepHighest(e)[k] = e[j]
                 /\ \A i \in Namesakes(e, j) : e[i].rva <= e[j].rva
           /\ \A k, l \in DOMAIN KeepHighest(e) :
                 KeepHighest(e)[k].name = KeepHighest(e)[l].name => k = l
<1> DEFINE T == KeepHighest(e)
           h == [i \in DOMAIN e |-> e[Highest(e, i)]]
           names == NamesOf(e)
           F == Firsts(names)
<1>1. /\ \A i \in DOMAIN e : Highest(e, i) \in Namesakes(e, i)
      /\ \A i \in DOMAIN e : \A k \in Namesakes(e, i) : e[k].rva <= e[Highest(e, i)].rva
  BY HighestIsHighest
<1>2. h \in Seq(S) /\ DOMAIN h = DOMAIN e
  BY <1>1 DEF Namesakes
<1>3. names \in Seq({e[i].name : i \in DOMAIN e}) /\ DOMAIN names = DOMAIN e
      /\ \A i \in DOMAIN e : names[i] = e[i].name
  BY DEF NamesOf
<1>4. /\ \A i \in DOMAIN e : h[i] = e[Highest(e, i)] /\ h[i].name = names[i]
  BY <1>1, <1>3 DEF Namesakes
<1>5. T = Selection(h, F)
  BY DEF KeepHighest
<1> HIDE DEF names, h, T
<1>6. /\ F \in SUBSET DOMAIN e
      /\ \A i \in DOMAIN e : \E j \in F : names[j] = names[i]
      /\ \A i, j \in F : names[i] = names[j] => i = j
  BY <1>3, FirstsCoverAll
<1> HIDE DEF F
<1>7. T \in Seq(S) /\ DOMAIN T = 1 .. Cardinality(F)
  BY <1>2, <1>5, <1>6, SelectionSelects
<1>8. PICK pick : GoesThrough(pick, h, F)
  BY <1>2, <1>6, SelectionFollows
<1>9. \A k \in DOMAIN T : pick[k] \in F /\ T[k] = h[pick[k]]
  BY <1>5, <1>7, <1>8 DEF GoesThrough
<1>10. \A i \in F : \E k \in DOMAIN T : pick[k] = i
  BY <1>7, <1>8 DEF GoesThrough
<1>11. \A i \in DOMAIN e : \E k \in DOMAIN T : T[k].name = e[i].name
  <2> TAKE i \in DOMAIN e
  <2>1. PICK j \in F : names[j] = names[i]
    BY <1>6
  <2>2. PICK k \in DOMAIN T : pick[k] = j
    BY <1>10
  <2>3. T[k].name = names[j]
    BY <1>4, <1>6, <1>9, <2>2
  <2>4. QED
    BY <1>3, <2>1, <2>3
<1>12. ASSUME NEW k \in DOMAIN T
       PROVE  \E j \in DOMAIN e : T[k] = e[j] /\ \A i \in Namesakes(e, j) : e[i].rva <= e[j].rva
  <2> DEFINE i == pick[k]
             j == Highest(e, i)
  <2>1. i \in DOMAIN e /\ T[k] = e[j]
    BY <1>4, <1>6, <1>9
  <2>2. j \in Namesakes(e, i) /\ \A l \in Namesakes(e, i) : e[l].rva <= e[j].rva
    BY <1>1, <2>1
  <2> HIDE DEF i, j
  <2>3. j \in DOMAIN e /\ Namesakes(e, j) = Namesakes(e, i)
    BY <2>2 DEF Namesakes
  <2>4. QED
    BY <2>1, <2>2, <2>3
<1>13. ASSUME NEW k \in DOMAIN T, NEW l \in DOMAIN T, T[k].name = T[l].name
       PROVE  k = l
  <2>1. pick[k] = pick[l]
    BY <1>4, <1>6, <1>9, <1>13
  <2>2. k \in Int /\ l \in Int
    BY <1>7
  <2>3. ~(k < l) /\ ~(l < k)
    <3>1. \A i \in F : i \in Int
      BY <1>6
    <3>2. QED
      BY <1>7, <1>8, <1>9, <2>1, <3>1 DEF GoesThrough
  <2>4. QED
    BY <2>2, <2>3
<1>14. QED
  BY <1>7, <1>11, <1>12, <1>13 DEF T

-----------------------------------------------------------------------------
(* What each step leaves for the next                                      *)

Reading == {"load", "signatures", "rvas"}
Writing == {"openjson", "json", "openbin", "bin", "done"}

SignaturesRead ==
    /\ input.sigs => input.format = "pdb"
    /\ signatures = IF input.sigs
                    THEN PdbSignatures(input.procs, input.sections, input.types, input.ids)
                    ELSE <<>>
RvasRead ==
    /\ input.format = "dwarf" =>
        \E printed \in OutputOf(Dump) :
            /\ rva_map = DwarfRvas(printed, input.symbols)
            /\ whole => printed = Dump
    /\ input.format = "pdb" => rva_map = PdbRvas(input.procs, input.sections)
FunctionsMerged ==
    functions = MergedFunctions(input.demangler, input.functions, rva_map, signatures)
LayoutsRead ==
    \E printed \in OutputOf(IF input.format = "pdb" THEN input.types ELSE Dump) :
        /\ struct_layouts = IF input.format = "pdb" THEN PdbLayouts(printed)
                            ELSE DwarfLayouts(printed)
        /\ whole => printed = IF input.format = "pdb" THEN input.types ELSE Dump
LayoutsApplied ==
    structs = IF DOMAIN struct_layouts = {} THEN SortByName(input.structs)
              ELSE InjectMissing(ApplyStructLayouts(SortByName(input.structs), struct_layouts),
                                 struct_layouts, StructViews(functions))

FlowInv ==
    /\ input \in Inputs /\ pc \in Places
    /\ pc \in Reading => whole = TRUE /\ rva_map = <<>>
    /\ pc \in {"load", "signatures"} => signatures = <<>>
    /\ pc \in Reading \cup {"merge"} => functions = <<>>
    /\ pc \in Reading \cup {"merge", "layouts"} => struct_layouts = <<>>
    /\ pc \notin {"load", "signatures", "failed"} => SignaturesRead
    /\ pc \notin Reading \cup {"failed"} => RvasRead
    /\ pc \notin Reading \cup {"merge", "failed"} => FunctionsMerged
    /\ pc \in {"layouts", "apply"} => structs = SortByName(input.structs)
    /\ pc \notin Reading \cup {"merge", "layouts", "failed"} => LayoutsRead
    /\ pc \in {"identity"} \cup Writing => LayoutsApplied

LEMMA FlowInvStep == FlowInv /\ [Next]_vars => FlowInv'
<1> SUFFICES ASSUME FlowInv, [Next]_vars PROVE FlowInv'
  OBVIOUS
<1> USE DEF FlowInv, Places, Reading, Writing, runVars
<1>1. CASE LoadAst
  BY <1>1 DEF LoadAst
<1>2. CASE AstUnreadable \/ NoSignatures \/ NoRvas
  BY <1>2 DEF AstUnreadable, NoSignatures, NoRvas, Fail
<1>3. CASE ReadSignatures
  BY <1>3 DEF ReadSignatures, SignaturesRead
<1>4. CASE ReadDwarfRvas
  BY <1>4 DEF ReadDwarfRvas, RvasRead, SignaturesRead, OutputOf, Dump
<1>5. CASE ReadPdbRvas
  BY <1>5 DEF ReadPdbRvas, RvasRead, SignaturesRead
<1>6. CASE MergeAst
  BY <1>6 DEF MergeAst, SignaturesRead, RvasRead, FunctionsMerged, OutputOf, Dump
<1>7. CASE ReadLayouts
  BY <1>7 DEF ReadLayouts, SignaturesRead, RvasRead, FunctionsMerged, LayoutsRead, OutputOf, Dump
<1>8. CASE ApplyLayouts
  BY <1>8 DEF ApplyLayouts, SignaturesRead, RvasRead, FunctionsMerged, LayoutsRead,
              LayoutsApplied, OutputOf, Dump
<1>9. CASE StampIdentity
  BY <1>9 DEF StampIdentity, SignaturesRead, RvasRead, FunctionsMerged, LayoutsRead,
              LayoutsApplied, OutputOf, Dump
<1>10. CASE OpenJson \/ DumpJson \/ OpenBin \/ WriteBin
  <2>1. /\ UNCHANGED <<input, runVars>>
        /\ pc \in {"openjson", "json", "openbin", "bin"} /\ pc' \in {"json", "openbin", "bin", "done"}
    BY <1>10 DEF OpenJson, DumpJson, OpenBin, WriteBin
  <2>2. QED
    BY <2>1 DEF SignaturesRead, RvasRead, FunctionsMerged, LayoutsRead, LayoutsApplied,
                OutputOf, Dump
<1>11. CASE Restart
  BY <1>11 DEF Restart, Fresh
<1>12. CASE UNCHANGED vars
  BY <1>12 DEF vars, SignaturesRead, RvasRead, FunctionsMerged, LayoutsRead,
               LayoutsApplied, OutputOf, Dump
<1>13. QED
  BY <1>1, <1>2, <1>3, <1>4, <1>5, <1>6, <1>7, <1>8, <1>9, <1>10, <1>11, <1>12 DEF Next

LEMMA FlowInvHolds == Spec => []FlowInv
<1>1. Init => FlowInv
  BY DEF Init, FlowInv, Places, Reading, Writing
<1>2. QED
  BY <1>1, FlowInvStep, PTL DEF Spec

-----------------------------------------------------------------------------
(* Addresses and signatures from a PDB                                     *)

(* Both passes go through the same records.                                *)
LEMMA LocatedAreProcedures ==
    ASSUME NEW S, NEW symbols \in Seq(S), NEW sections,
           \A s \in ToSet(symbols) : ParsePdbutilInt(s.off) \in Int,
           \A g \in DOMAIN sections : sections[g] \in Int
    PROVE  /\ Procedures(symbols) \in Seq(S) /\ Located(symbols, sections) \in Seq(S)
           /\ \A i \in DOMAIN Located(symbols, sections) :
                 ResolveRva(Located(symbols, sections)[i], sections) \in Int \ {None}
           /\ \A p \in ToSet(Procedures(symbols)) : ResolveRva(p, sections) # None =>
                 \E i \in DOMAIN Located(symbols, sections) : Located(symbols, sections)[i] = p
<1> DEFINE K == {i \in DOMAIN symbols :
                    symbols[i].kind \in ProcKinds /\ symbols[i].name # None}
           procs == Procedures(symbols)
           L == {i \in DOMAIN procs : ResolveRva(procs[i], sections) # None}
           T == Located(symbols, sections)
<1>1. procs = Selection(symbols, K) /\ T = Selection(procs, L)
  BY DEF Procedures, Located
<1>2. K \in SUBSET DOMAIN symbols
  OBVIOUS
<1> HIDE DEF K, procs
<1>3. procs \in Seq(S)
  BY <1>1, <1>2, SelectionSelects
<1>4. \A k \in DOMAIN procs : \E i \in DOMAIN symbols : procs[k] = symbols[i]
  BY <1>1, <1>2, SelectionElements
<1>5. L \in SUBSET DOMAIN procs /\ \A i \in L : ResolveRva(procs[i], sections) # None
  OBVIOUS
<1>6. ASSUME NEW p \in ToSet(procs), ResolveRva(p, sections) # None
      PROVE  \E i \in L : procs[i] = p
  BY <1>6 DEF ToSet
<1> HIDE DEF L, T
<1>7. T \in Seq(S)
  BY <1>1, <1>3, <1>5, SelectionSelects
<1>8. /\ \A k \in DOMAIN T : \E i \in L : T[k] = procs[i]
      /\ \A i \in L : \E k \in DOMAIN T : T[k] = procs[i]
  BY <1>1, <1>3, <1>5, SelectionElements
<1>9. ASSUME NEW k \in DOMAIN T PROVE ResolveRva(T[k], sections) \in Int \ {None}
  <2>1. PICK i \in L : T[k] = procs[i]
    BY <1>8
  <2>2. PICK j \in DOMAIN symbols : procs[i] = symbols[j]
    BY <1>4, <1>5
  <2>3. ParsePdbutilInt(T[k].off) \in Int /\ ResolveRva(T[k], sections) # None
    BY <1>5, <2>1, <2>2 DEF ToSet
  <2>4. QED
    BY <2>3 DEF ResolveRva
<1>10. ASSUME NEW p \in ToSet(procs), ResolveRva(p, sections) # None
       PROVE  \E i \in DOMAIN T : T[i] = p
  BY <1>6, <1>8, <1>10
<1>11. QED
  BY <1>3, <1>7, <1>9, <1>10 DEF procs, T

(* A procedure has a name.                                                 *)
LEMMA LocatedAreNamed ==
    ASSUME NEW S, NEW symbols \in Seq(S), NEW sections, NEW N,
           \A s \in ToSet(symbols) : s.name \in N \cup {None}
    PROVE  \A i \in DOMAIN Located(symbols, sections) : Located(symbols, sections)[i].name \in N
<1> DEFINE K == {i \in DOMAIN symbols :
                    symbols[i].kind \in ProcKinds /\ symbols[i].name # None}
           procs == Procedures(symbols)
           L == {i \in DOMAIN procs : ResolveRva(procs[i], sections) # None}
           T == Located(symbols, sections)
<1>1. procs = Selection(symbols, K) /\ T = Selection(procs, L)
  BY DEF Procedures, Located
<1>2. K \in SUBSET DOMAIN symbols /\ \A i \in K : symbols[i].name \in N
  BY DEF ToSet
<1> HIDE DEF K, procs
<1>3. procs \in Seq(S) /\ \A k \in DOMAIN procs : \E i \in K : procs[k] = symbols[i]
  BY <1>1, <1>2, SelectionSelects, SelectionElements
<1>4. L \in SUBSET DOMAIN procs
  OBVIOUS
<1> HIDE DEF L, T
<1>5. \A k \in DOMAIN T : \E i \in L : T[k] = procs[i]
  BY <1>1, <1>3, <1>4, SelectionElements
<1>6. QED
  BY <1>2, <1>3, <1>4, <1>5 DEF T

(* An address is looked up under its name where names are told apart.      *)
LEMMA RvaOfName ==
    ASSUME \A i, j \in DOMAIN rva_map : rva_map[i].name = rva_map[j].name => i = j,
           NEW i \in DOMAIN rva_map
    PROVE  RvaOf(rva_map[i].name) = rva_map[i].rva /\ rva_map[i].name \in RvaNames
<1> DEFINE j == CHOOSE k \in DOMAIN rva_map : rva_map[k].name = rva_map[i].name
<1>1. j \in DOMAIN rva_map /\ rva_map[j].name = rva_map[i].name
  OBVIOUS
<1>2. j = i
  BY <1>1
<1>3. QED
  BY <1>2 DEF RvaOf, RvaNames

LEMMA SignaturesAgree ==
    ASSUME FlowInv
    PROVE  SignaturesFollowAddresses
<1> SUFFICES ASSUME pc = "merge", NEW i \in DOMAIN signatures
             PROVE  LET s == signatures[i] IN
                    /\ s.name \in RvaNames /\ s.rva <= RvaOf(s.name)
                    /\ s.rva = RvaOf(s.name) \/ \A p \in ToSet(Procedures(input.procs)) :
                        p.name = s.name /\ TypeOf(input.types, input.ids, p) # None
                            => ResolveRva(p, input.sections) # RvaOf(s.name)
  BY Zenon DEF SignaturesFollowAddresses
<1> DEFINE s == signatures[i]
           procs == Located(input.procs, input.sections)
           rva(p) == ResolveRva(p, input.sections)
           sig(p) == TypeOf(input.types, input.ids, p)
           known == [k \in DOMAIN procs |-> [name |-> procs[k].name, rva |-> rva(procs[k])]]
           signed == [k \in DOMAIN procs |->
                [name |-> procs[k].name, rva |-> rva(procs[k]), sig |-> sig(procs[k])]]
           K == {k \in DOMAIN signed : signed[k].sig # None}
           chosen == Selection(signed, K)
<1>1. /\ input \in Inputs
      /\ rva_map = KeepHighest(known) /\ signatures = KeepHighest(chosen)
  <2>1. SignaturesRead /\ RvasRead /\ input \in Inputs
    BY DEF FlowInv, Reading
  <2>2. input.sigs /\ input.format = "pdb"
    BY <2>1 DEF SignaturesRead
  <2>3. QED
    BY <2>1, <2>2 DEF SignaturesRead, RvasRead, PdbSignatures, PdbRvas
<1>2. /\ procs \in Seq({input.procs[k] : k \in DOMAIN input.procs})
      /\ \A k \in DOMAIN procs : rva(procs[k]) \in Int \ {None}
      /\ \A p \in ToSet(Procedures(input.procs)) : rva(p) # None =>
            \E k \in DOMAIN procs : procs[k] = p
  <2>1. /\ input.procs \in Seq({input.procs[k] : k \in DOMAIN input.procs})
        /\ \A p \in ToSet(input.procs) : ParsePdbutilInt(p.off) \in Int
        /\ \A g \in DOMAIN input.sections : input.sections[g] \in Int
    BY <1>1, InputsAreRead DEF IsList
  <2>2. QED
    BY <2>1, LocatedAreProcedures
<1> HIDE DEF procs, rva, sig
<1>3. known \in Seq({known[k] : k \in DOMAIN procs}) /\ DOMAIN known = DOMAIN procs
  BY <1>2
<1>4. signed \in Seq({signed[k] : k \in DOMAIN procs}) /\ DOMAIN signed = DOMAIN procs
  BY <1>2
<1>5. /\ DOMAIN known = DOMAIN procs
      /\ \A k \in DOMAIN procs : /\ known[k].name = procs[k].name
                                 /\ known[k].rva = rva(procs[k])
                                 /\ signed[k].name = procs[k].name
                                 /\ signed[k].rva = rva(procs[k])
                                 /\ signed[k].sig = sig(procs[k])
  OBVIOUS
<1>6. K \in SUBSET DOMAIN procs /\ K = {k \in DOMAIN procs : sig(procs[k]) # None}
  OBVIOUS
<1> DEFINE V == {signed[k] : k \in DOMAIN procs}
<1> HIDE DEF known, signed, K, V
<1>7. signed \in Seq(V) /\ K \in SUBSET DOMAIN signed
  BY <1>4, <1>6 DEF V
<1>8. chosen \in Seq(V)
  BY <1>7, SelectionSelects
<1>9. /\ \A l \in DOMAIN chosen : \E k \in K : chosen[l] = signed[k]
      /\ \A k \in K : \E l \in DOMAIN chosen : chosen[l] = signed[k]
  BY <1>7, SelectionElements
<1> HIDE DEF chosen
<1>10. \A k \in DOMAIN known : known[k].rva \in Int
  BY <1>2, <1>5
<1>11. \A l \in DOMAIN chosen : chosen[l].rva \in Int
  BY <1>2, <1>5, <1>6, <1>9
<1>12. /\ \A k \in DOMAIN known : \E l \in DOMAIN rva_map : rva_map[l].name = known[k].name
       /\ \A l \in DOMAIN rva_map : \E j \in DOMAIN known :
             rva_map[l] = known[j] /\ \A k \in Namesakes(known, j) : known[k].rva <= known[j].rva
       /\ \A k, l \in DOMAIN rva_map : rva_map[k].name = rva_map[l].name => k = l
  BY <1>1, <1>3, <1>10, KeepHighestKeeps
<1>13. PICK j \in DOMAIN chosen :
          s = chosen[j] /\ \A k \in Namesakes(chosen, j) : chosen[k].rva <= chosen[j].rva
  BY <1>1, <1>8, <1>11, KeepHighestKeeps
<1>14. PICK q \in K : chosen[j] = signed[q]
  BY <1>9
<1>15. q \in DOMAIN procs /\ s.name = known[q].name /\ s.rva = known[q].rva
  BY <1>5, <1>6, <1>13, <1>14
<1>16. PICK l \in DOMAIN rva_map : rva_map[l].name = s.name
  BY <1>5, <1>12, <1>15
<1>17. PICK m \in DOMAIN known :
          rva_map[l] = known[m] /\ \A k \in Namesakes(known, m) : known[k].rva <= known[m].rva
  BY <1>12
<1>18. RvaOf(s.name) = known[m].rva /\ s.name \in RvaNames
  BY <1>12, <1>16, <1>17, RvaOfName
<1>19. s.rva <= known[m].rva
  <2>1. q \in Namesakes(known, m)
    BY <1>5, <1>15, <1>16, <1>17 DEF Namesakes
  <2>2. QED
    BY <1>15, <1>17, <2>1
<1>20. ASSUME NEW p \in ToSet(Procedures(input.procs)), p.name = s.name, sig(p) # None,
              rva(p) = known[m].rva
       PROVE  s.rva = known[m].rva
  <2>1. rva(p) # None
    BY <1>2, <1>5, <1>17, <1>20
  <2>2. PICK k \in DOMAIN procs : procs[k] = p
    BY <1>2, <2>1
  <2>3. k \in K
    BY <1>6, <1>20, <2>2
  <2>4. PICK n \in DOMAIN chosen : chosen[n] = signed[k]
    BY <1>9, <2>3
  <2>5. n \in Namesakes(chosen, j) /\ chosen[n].rva = known[m].rva
    BY <1>5, <1>13, <1>20, <2>2, <2>4 DEF Namesakes
  <2>6. known[m].rva <= s.rva
    BY <1>13, <2>5
  <2>7. QED
    BY <1>10, <1>11, <1>13, <1>19, <2>6
<1>21. QED
  BY <1>18, <1>19, <1>20 DEF rva, sig, s

-----------------------------------------------------------------------------
(* Dicts that take a name once                                             *)
EachNameOnce(e) == \A k, l \in DOMAIN e : e[k].name = e[l].name => k = l

LEMMA OnceTakesAll ==
    ASSUME NEW S, NEW e \in Seq(S)
    PROVE  /\ OncePerName(e) \in Seq(S)
           /\ \A i \in DOMAIN e : \E k \in DOMAIN OncePerName(e) :
                 OncePerName(e)[k].name = e[i].name
           /\ \A k \in DOMAIN OncePerName(e) : \E j \in DOMAIN e : OncePerName(e)[k] = e[j]
           /\ EachNameOnce(OncePerName(e))
<1> DEFINE T == OncePerName(e)
           names == NamesOf(e)
           F == Firsts(names)
<1>1. names \in Seq({e[i].name : i \in DOMAIN e}) /\ DOMAIN names = DOMAIN e
      /\ \A i \in DOMAIN e : names[i] = e[i].name
  BY DEF NamesOf
<1>2. T = Selection(e, F)
  BY DEF OncePerName
<1> HIDE DEF names, T
<1>3. /\ F \in SUBSET DOMAIN e
      /\ \A i \in DOMAIN e : \E j \in F : names[j] = names[i]
      /\ \A i, j \in F : names[i] = names[j] => i = j
  BY <1>1, FirstsCoverAll
<1> HIDE DEF F
<1>4. T \in Seq(S) /\ DOMAIN T = 1 .. Cardinality(F)
  BY <1>2, <1>3, SelectionSelects
<1>5. PICK pick : GoesThrough(pick, e, F)
  BY <1>3, SelectionFollows
<1>6. \A k \in DOMAIN T :
         pick[k] \in F /\ pick[k] \in DOMAIN e /\ T[k] = e[pick[k]] /\ T[k].name = names[pick[k]]
  <2>1. \A k \in DOMAIN T : pick[k] \in F /\ T[k] = e[pick[k]]
    BY <1>2, <1>4, <1>5 DEF GoesThrough
  <2>2. \A k \in DOMAIN T : pick[k] \in DOMAIN e
    BY <1>3, <2>1
  <2>3. QED
    BY <1>1, <2>1, <2>2
<1>7. \A i \in F : \E k \in DOMAIN T : pick[k] = i
  BY <1>4, <1>5 DEF GoesThrough
<1>8. \A i \in DOMAIN e : \E k \in DOMAIN T : T[k].name = e[i].name
  <2> TAKE i \in DOMAIN e
  <2>1. PICK j \in F : names[j] = names[i]
    BY <1>3
  <2>2. PICK k \in DOMAIN T : pick[k] = j
    BY <1>7
  <2>3. QED
    BY <1>1, <1>6, <2>1, <2>2
<1>9. ASSUME NEW k \in DOMAIN T, NEW l \in DOMAIN T, T[k].name = T[l].name
      PROVE  k = l
  <2>1. pick[k] = pick[l]
    BY <1>3, <1>6, <1>9
  <2>2. k \in Int /\ l \in Int /\ \A i \in F : i \in Int
    BY <1>3, <1>4
  <2>3. ~(k < l) /\ ~(l < k)
    BY <1>4, <1>5, <1>6, <2>1, <2>2 DEF GoesThrough
  <2>4. QED
    BY <2>2, <2>3
<1>10. QED
  BY <1>3, <1>4, <1>6, <1>8, <1>9 DEF T, EachNameOnce

-----------------------------------------------------------------------------
(* Addresses from DWARF                                                    *)

(* The last of some places.                                                *)
LEMMA MaxIsLast ==
    ASSUME NEW S, NEW s \in Seq(S), NEW K \in SUBSET DOMAIN s, K # {}
    PROVE  Max(K) \in K /\ \A k \in K : k <= Max(K)
<1> DEFINE R == {ij \in K \X K : ij[1] > ij[2]}
<1>1. \A k \in K : k \in Int
  OBVIOUS
<1>2. IsFiniteSet(K)
  BY IndicesAreFinite
<1>3. StrictTotalOrder(R, K)
  BY <1>1 DEF StrictTotalOrder
<1>4. \A i, j \in K : i = j \/ <<i, j>> \in R => i >= j
  BY <1>1
<1> HIDE DEF R
<1>5. \E i \in K : \A j \in K : i >= j
  BY <1>2, <1>3, <1>4, LeastExists
<1>6. Max(K) \in K /\ \A j \in K : Max(K) >= j
  BY <1>5 DEF Max
<1>7. QED
  BY <1>1, <1>6

(* The name of a declaration is that of a subprogram which declares it.    *)
LEMMA DeclNameDeclares ==
    ASSUME NEW S, NEW subs \in Seq(S), NEW at, NEW n \in 0 .. Len(subs)
    PROVE  /\ DeclName(subs, at, n) # None => \E j \in 1 .. n :
                 Declares(subs[j]) /\ subs[j].at = at /\ DeclName(subs, at, n) = Mangled(subs[j])
           /\ \A j \in 1 .. n : Declares(subs[j]) /\ subs[j].at = at => DeclName(subs, at, n) # None
<1> DEFINE K == {j \in 1 .. n : Declares(subs[j]) /\ subs[j].at = at}
<1>1. K \in SUBSET DOMAIN subs
  OBVIOUS
<1>2. DeclName(subs, at, n) = IF K = {} THEN None ELSE Mangled(subs[Max(K)])
  BY DEF DeclName
<1>3. \A j \in K : j \in 1 .. n /\ Declares(subs[j]) /\ subs[j].at = at
  OBVIOUS
<1>4. \A j \in 1 .. n : Declares(subs[j]) /\ subs[j].at = at => K # {}
  OBVIOUS
<1>5. K # {} => Max(K) \in K
  <2> HIDE DEF K
  <2>1. QED
    BY <1>1, MaxIsLast
<1> HIDE DEF K
<1>6. \A j \in K : Mangled(subs[j]) # None
  BY <1>3 DEF Declares
<1>7. QED
  BY <1>2, <1>3, <1>4, <1>5, <1>6

(* What Addresses gives are the subprograms of K under their names.        *)
Lists(T, subs, K, names) ==
    /\ \A k \in DOMAIN T : \E i \in K :
          names[i] # None /\ T[k] = [name |-> names[i], rva |-> subs[i].low_pc]
    /\ \A i \in K : names[i] # None => \E k \in DOMAIN T : T[k].name = names[i]

LEMMA AddressesGive ==
    ASSUME NEW S, NEW subs \in Seq(S), NEW K \in SUBSET DOMAIN subs, NEW names,
           NEW V, \A i \in DOMAIN subs : [name |-> names[i], rva |-> subs[i].low_pc] \in V
    PROVE  /\ Addresses(subs, K, names) \in Seq(V)
           /\ Lists(Addresses(subs, K, names), subs, K, names)
<1> DEFINE known == [i \in DOMAIN subs |-> [name |-> names[i], rva |-> subs[i].low_pc]]
           J == {i \in K : names[i] # None}
           T == Addresses(subs, K, names)
<1>1. T = Selection(known, J)
  BY DEF Addresses
<1>2. /\ DOMAIN known = DOMAIN subs
      /\ \A i \in DOMAIN subs : known[i] = [name |-> names[i], rva |-> subs[i].low_pc]
      /\ \A i \in DOMAIN subs : known[i] \in V
  OBVIOUS
<1>3. known \in Seq(V)
  <2>1. DOMAIN subs = 1 .. Len(subs) /\ Len(subs) \in Nat
    OBVIOUS
  <2>2. known = [i \in DOMAIN subs |-> known[i]]
    OBVIOUS
  <2> HIDE DEF known
  <2>3. QED
    BY <1>2, <2>1, <2>2
<1> HIDE DEF known, T
<1>4. J \in SUBSET DOMAIN known
  BY <1>2
<1>5. T \in Seq(V)
  BY <1>1, <1>3, <1>4, SelectionSelects
<1>6. /\ \A k \in DOMAIN T : \E i \in J : T[k] = known[i]
      /\ \A i \in J : \E k \in DOMAIN T : T[k] = known[i]
  BY <1>1, <1>3, <1>4, SelectionElements
<1>7. \A k \in DOMAIN T : \E i \in K :
         names[i] # None /\ T[k] = [name |-> names[i], rva |-> subs[i].low_pc]
  BY <1>2, <1>6
<1>8. ASSUME NEW i \in K, names[i] # None
      PROVE  \E k \in DOMAIN T : T[k].name = names[i]
  <2>1. PICK k \in DOMAIN T : T[k] = known[i]
    BY <1>6, <1>8
  <2>2. QED
    BY <1>2, <2>1
<1>9. QED
  BY <1>5, <1>7, <1>8 DEF T, Lists

(* What is recorded of a list of subprograms is defined, and nothing that  *)
(* is defined is left out if all of them are there.                        *)
LEMMA SubprogramsFound ==
    ASSUME NEW D, NEW subs \in Seq(D),
           \A c, d \in D : c.at = d.at => c = d,
           \A d \in D : d.decl => d.low_pc = None
    PROVE  /\ IsList(SubprogramRvas(subs)) /\ EachNameOnce(SubprogramRvas(subs))
           /\ \A k \in DOMAIN SubprogramRvas(subs) : SubprogramRvas(subs)[k] \in DefinedBy(D)
           /\ (\A d \in D : \E i \in DOMAIN subs : subs[i] = d) =>
                \A d \in DefinedBy(D) : \E k \in DOMAIN SubprogramRvas(subs) :
                    SubprogramRvas(subs)[k].name = d.name
<1> DEFINE I == {i \in DOMAIN subs : Defines(subs[i])}
           J == Pending(subs)
           now == [i \in DOMAIN subs |-> NameNow(subs, i)]
           last == [i \in DOMAIN subs |-> DeclName(subs, subs[i].spec, Len(subs))]
           A == Addresses(subs, I, now)
           B == Addresses(subs, J, last)
           rvas == {subs[i].low_pc : i \in DOMAIN subs}
           V == [name : {now[i] : i \in DOMAIN subs} \cup {last[i] : i \in DOMAIN subs}, rva : rvas]
           T == SubprogramRvas(subs)
<1>1. T = OncePerName(A \o B)
  BY DEF SubprogramRvas
<1>2. /\ DOMAIN subs = 1 .. Len(subs) /\ Len(subs) \in Nat /\ \A i \in DOMAIN subs : subs[i] \in D
      /\ \A i \in DOMAIN subs : i - 1 \in 0 .. Len(subs) /\ 1 .. i - 1 \in SUBSET DOMAIN subs
  OBVIOUS
<1>3. /\ I \in SUBSET DOMAIN subs /\ J \in SUBSET DOMAIN subs
      /\ DOMAIN now = DOMAIN subs /\ DOMAIN last = DOMAIN subs
      /\ \A i \in DOMAIN subs : now[i] = NameNow(subs, i)
      /\ \A i \in DOMAIN subs : last[i] = DeclName(subs, subs[i].spec, Len(subs))
      /\ \A i \in I : Defines(subs[i])
      /\ \A i \in J : Defines(subs[i]) /\ subs[i].spec # None
      /\ \A i \in DOMAIN subs : Defines(subs[i]) => i \in I
      /\ \A i \in I : subs[i].spec # None /\ NameNow(subs, i) = None => i \in J
  BY DEF Pending
<1> HIDE DEF I, J, now, last
<1>4. A \in Seq(V) /\ Lists(A, subs, I, now)
  <2>1. \A i \in DOMAIN subs : [name |-> now[i], rva |-> subs[i].low_pc] \in V
    OBVIOUS
  <2> HIDE DEF V
  <2>2. QED
    BY <1>3, <2>1, AddressesGive
<1>5. B \in Seq(V) /\ Lists(B, subs, J, last)
  <2>1. \A i \in DOMAIN subs : [name |-> last[i], rva |-> subs[i].low_pc] \in V
    OBVIOUS
  <2> HIDE DEF V
  <2>2. QED
    BY <1>3, <2>1, AddressesGive
<1> HIDE DEF A, B, V, T
<1> DEFINE C == A \o B
<1>6. /\ C \in Seq(V)
      /\ \A k \in DOMAIN C : (\E i \in DOMAIN A : C[k] = A[i]) \/ (\E i \in DOMAIN B : C[k] = B[i])
      /\ \A i \in DOMAIN A : \E k \in DOMAIN C : C[k] = A[i]
      /\ \A i \in DOMAIN B : \E k \in DOMAIN C : C[k] = B[i]
  <2>1. C \in Seq(V) /\ Len(C) = Len(A) + Len(B)
    BY <1>4, <1>5
  <2>2. \A k \in DOMAIN C : (\E i \in DOMAIN A : C[k] = A[i]) \/ (\E i \in DOMAIN B : C[k] = B[i])
    <3> TAKE k \in DOMAIN C
    <3>1. CASE k <= Len(A)
      BY <1>4, <1>5, <3>1
    <3>2. CASE k > Len(A)
      <4>1. k - Len(A) \in DOMAIN B /\ C[k] = B[k - Len(A)]
        BY <1>4, <1>5, <3>2
      <4>2. QED
        BY <4>1
    <3>3. QED
      BY <1>4, <3>1, <3>2
  <2>3. \A i \in DOMAIN A : i \in DOMAIN C /\ C[i] = A[i]
    BY <1>4, <1>5
  <2>4. \A i \in DOMAIN B : i + Len(A) \in DOMAIN C /\ C[i + Len(A)] = B[i]
    BY <1>4, <1>5
  <2>5. QED
    BY <2>1, <2>2, <2>3, <2>4
<1> HIDE DEF C
<1>7. /\ T \in Seq(V)
      /\ \A i \in DOMAIN C : \E k \in DOMAIN T : T[k].name = C[i].name
      /\ \A k \in DOMAIN T : \E j \in DOMAIN C : T[k] = C[j]
      /\ EachNameOnce(T)
  <2>1. T = OncePerName(C)
    BY <1>1 DEF C
  <2>2. QED
    BY <1>6, <2>1, OnceTakesAll
<1>8. ASSUME NEW i \in DOMAIN subs, Defines(subs[i]), NEW name, name # None,
             (name = now[i]) \/ (name = last[i] /\ subs[i].spec # None)
      PROVE  [name |-> name, rva |-> subs[i].low_pc] \in DefinedBy(D)
  <2>1. \E c \in NamersOf(D, subs[i]) : name = Mangled(c)
    <3>1. CASE subs[i].spec = None
      BY <1>3, <1>8, <3>1 DEF NameNow, NamersOf, Defines
    <3>2. CASE subs[i].spec # None
      <4> DEFINE at == subs[i].spec
                 n == IF name = now[i] THEN i - 1 ELSE Len(subs)
      <4>1. n \in 0 .. Len(subs) /\ name = DeclName(subs, at, n)
        BY <1>2, <1>3, <1>8, <3>2 DEF NameNow
      <4> HIDE DEF n, at
      <4>2. PICK j \in 1 .. n : Declares(subs[j]) /\ subs[j].at = at /\ name = Mangled(subs[j])
        BY <1>8, <4>1, DeclNameDeclares
      <4>3. j \in DOMAIN subs /\ subs[j] \in D
        BY <1>2, <4>1
      <4>4. subs[j] \in NamersOf(D, subs[i])
        BY <3>2, <4>2, <4>3 DEF NamersOf, DeclaredAt, Declares, at
      <4>5. QED
        BY <4>2, <4>4
    <3>3. QED
      BY <3>1, <3>2
  <2>2. subs[i] \in D /\ subs[i].low_pc # None
    BY <1>2, <1>8 DEF Defines
  <2>3. QED
    BY <2>1, <2>2 DEF DefinedBy
<1>9. ASSUME NEW k \in DOMAIN T PROVE T[k] \in DefinedBy(D)
  <2>1. PICK j \in DOMAIN C : T[k] = C[j]
    BY <1>7
  <2>2. CASE \E i \in DOMAIN A : C[j] = A[i]
    <3>1. PICK i \in I : now[i] # None /\ T[k] = [name |-> now[i], rva |-> subs[i].low_pc]
      BY <1>4, <2>1, <2>2 DEF Lists
    <3>2. QED
      BY <1>3, <1>8, <3>1
  <2>3. CASE \E i \in DOMAIN B : C[j] = B[i]
    <3>1. PICK i \in J : last[i] # None /\ T[k] = [name |-> last[i], rva |-> subs[i].low_pc]
      BY <1>5, <2>1, <2>3 DEF Lists
    <3>2. QED
      BY <1>3, <1>8, <3>1
  <2>4. QED
    BY <1>6, <2>2, <2>3
<1>10. ASSUME \A d \in D : \E i \in DOMAIN subs : subs[i] = d, NEW x \in DefinedBy(D)
       PROVE  \E k \in DOMAIN T : T[k].name = x.name
  <2>1. PICK d \in D : d.low_pc # None /\ \E c \in NamersOf(D, d) : x.name = Mangled(c)
    BY DEF DefinedBy
  <2>2. PICK c \in NamersOf(D, d) : x.name = Mangled(c)
    BY <2>1
  <2>3. PICK i \in DOMAIN subs : subs[i] = d
    BY <1>10
  <2>4. x.name # None /\ i \in I
    BY <1>3, <2>1, <2>2, <2>3 DEF NamersOf, DeclaredAt, Defines
  <2>5. \/ now[i] = x.name
        \/ i \in J /\ last[i] = x.name
    <3>1. CASE d.spec = None
      BY <1>3, <2>2, <2>3, <3>1 DEF NamersOf, NameNow
    <3>2. CASE d.spec # None
      <4>1. c \in D /\ c.at = d.spec /\ Declares(c)
        BY <2>2, <3>2 DEF NamersOf, DeclaredAt, Declares
      <4>2. ASSUME NEW n \in 0 .. Len(subs), DeclName(subs, d.spec, n) # None
            PROVE  DeclName(subs, d.spec, n) = x.name
        <5>1. PICK j \in 1 .. n : subs[j].at = d.spec /\ DeclName(subs, d.spec, n) = Mangled(subs[j])
          BY <4>2, DeclNameDeclares
        <5>2. subs[j] \in D
          BY <1>2
        <5>3. subs[j] = c
          BY <4>1, <5>1, <5>2
        <5>4. QED
          BY <2>2, <5>1, <5>3
      <4>3. PICK m \in DOMAIN subs : subs[m] = c
        BY <1>10, <4>1
      <4>4. DeclName(subs, d.spec, Len(subs)) # None
        BY <1>2, <4>1, <4>3, DeclNameDeclares
      <4>5. last[i] = x.name
        BY <1>2, <1>3, <2>3, <4>2, <4>4
      <4>6. now[i] = None \/ now[i] = x.name
        BY <1>2, <1>3, <2>3, <3>2, <4>2 DEF NameNow
      <4>7. now[i] = None => i \in J
        BY <1>3, <2>3, <2>4, <3>2
      <4>8. QED
        BY <4>5, <4>6, <4>7
    <3>3. QED
      BY <3>1, <3>2
  <2>6. \E k \in DOMAIN C : C[k].name = x.name
    <3>1. CASE now[i] = x.name
      <4>1. PICK k \in DOMAIN A : A[k].name = now[i]
        BY <1>4, <2>4, <3>1 DEF Lists
      <4>2. QED
        BY <1>6, <3>1, <4>1
    <3>2. CASE i \in J /\ last[i] = x.name
      <4>1. PICK k \in DOMAIN B : B[k].name = last[i]
        BY <1>5, <2>4, <3>2 DEF Lists
      <4>2. QED
        BY <1>6, <3>2, <4>1
    <3>3. QED
      BY <2>5, <3>1, <3>2
  <2>7. QED
    BY <1>7, <2>6
<1>11. IsList(T)
  BY <1>7 DEF IsList
<1>12. QED
  BY <1>7, <1>9, <1>10, <1>11 DEF T

-----------------------------------------------------------------------------
(* What is printed of a dump                                               *)

(* What is printed for the children of a unit.                             *)
Blocks(unit) ==
    [i \in DOMAIN unit.children |-> <<unit.children[i].die>> \o Children(unit.children[i])]
DiesOf(unit) ==
    {unit.die} \cup UNION {{c.die} \cup ToSet(Children(c)) : c \in ToSet(unit.children)}

(* What is printed of a unit has its dies, block after block.              *)
LEMMA UnitPrints ==
    ASSUME NEW unit, IsList(unit.children), \A c \in ToSet(unit.children) : IsList(c.children),
           NEW S, DiesOf(unit) \subseteq S
    PROVE  /\ Printed(unit) = <<unit.die>> \o FlattenSeq(Blocks(unit))
           /\ Blocks(unit) \in Seq(Seq(S)) /\ Len(Blocks(unit)) = Len(unit.children)
           /\ Printed(unit) \in Seq(S) /\ ToSet(Printed(unit)) = DiesOf(unit)
<1> DEFINE kids == unit.children
           n == Len(kids)
           blocks == Blocks(unit)
<1>1. n \in Nat /\ DOMAIN kids = 1 .. n
  BY DEF IsList
<1>2. Printed(unit) = <<unit.die>> \o FlattenSeq(blocks)
  BY DEF Printed, Blocks, Children
<1>3. unit.die \in S /\ \A i \in 1 .. n : kids[i] \in ToSet(kids)
  BY <1>1 DEF DiesOf, ToSet
<1>4. ASSUME NEW i \in 1 .. n
      PROVE  /\ blocks[i] \in Seq(S)
             /\ ToSet(blocks[i]) = {kids[i].die} \cup ToSet(Children(kids[i]))
  <2> DEFINE c == kids[i]
             first == <<c.die>>
             rest == Children(c)
  <2>1. blocks[i] = first \o rest
    BY <1>1 DEF Blocks
  <2>2. c \in ToSet(kids) /\ IsList(c.children)
    BY <1>3
  <2> HIDE DEF c
  <2>3. {c.die} \cup ToSet(rest) \subseteq S
    BY <2>2 DEF DiesOf
  <2>4. first \in Seq(S) /\ ToSet(first) = {c.die}
    <3>1. Len(first) = 1 /\ first[1] = c.die /\ DOMAIN first = {1}
      OBVIOUS
    <3>2. first \in Seq(S)
      BY <2>3
    <3> HIDE DEF first
    <3>3. QED
      BY <3>1, <3>2 DEF ToSet
  <2>5. rest \in Seq(S)
    <3>1. DOMAIN rest = 1 .. Len(c.children) /\ Len(c.children) \in Nat
      BY <2>2 DEF IsList, Children
    <3>2. \A j \in DOMAIN rest : rest[j] \in S
      BY <2>3 DEF ToSet
    <3>3. rest = [j \in 1 .. Len(c.children) |-> rest[j]]
      BY <2>2 DEF IsList, Children
    <3> HIDE DEF rest
    <3>4. QED
      BY <3>1, <3>2, <3>3
  <2> HIDE DEF first, rest
  <2>6. first \o rest \in Seq(S) /\ ToSet(first \o rest) = ToSet(first) \cup ToSet(rest)
    BY <2>4, <2>5, ConcatElements
  <2>7. QED
    BY <2>1, <2>4, <2>6 DEF c, rest
<1>5. blocks = [i \in 1 .. n |-> blocks[i]] /\ DOMAIN blocks = 1 .. n
  BY <1>1 DEF Blocks
<1> HIDE DEF n, blocks
<1>6. blocks \in Seq(Seq(S)) /\ Len(blocks) = n
  BY <1>1, <1>4, <1>5
<1> DEFINE first == <<unit.die>>
           rest == FlattenSeq(blocks)
<1>7. first \in Seq(S) /\ ToSet(first) = {unit.die}
  <2>1. Len(first) = 1 /\ first[1] = unit.die /\ DOMAIN first = {1}
    OBVIOUS
  <2>2. first \in Seq(S)
    BY <1>3
  <2> HIDE DEF first
  <2>3. QED
    BY <2>1, <2>2 DEF ToSet
<1>8. rest \in Seq(S) /\ ToSet(rest) = UNION {ToSet(blocks[j]) : j \in 1 .. n}
  BY <1>5, <1>6, FlattenTyped, FlattenElements
<1> HIDE DEF first, rest
<1>9. first \o rest \in Seq(S) /\ ToSet(first \o rest) = ToSet(first) \cup ToSet(rest)
  BY <1>7, <1>8, ConcatElements
<1>10. DiesOf(unit) = {unit.die} \cup
         UNION {{kids[i].die} \cup ToSet(Children(kids[i])) : i \in 1 .. n}
  <2> DEFINE Of(c) == {c.die} \cup ToSet(Children(c))
  <2>1. DiesOf(unit) = {unit.die} \cup UNION {Of(c) : c \in ToSet(kids)}
    BY DEF DiesOf
  <2>2. ToSet(kids) = {kids[i] : i \in 1 .. n}
    BY <1>1 DEF ToSet
  <2> HIDE DEF Of, kids
  <2>3. UNION {Of(c) : c \in ToSet(kids)} = UNION {Of(kids[i]) : i \in 1 .. n}
    BY <2>2
  <2>4. QED
    BY <2>1, <2>3 DEF Of
<1>11. ToSet(rest) = UNION {{kids[i].die} \cup ToSet(Children(kids[i])) : i \in 1 .. n}
  BY <1>4, <1>8
<1>12. QED
  BY <1>2, <1>6, <1>7, <1>9, <1>10, <1>11 DEF first, rest, n, blocks

(* What is printed of all units has their dies, unit after unit.           *)
LEMMA DumpPrints ==
    ASSUME NEW units, IsList(units), \A u \in ToSet(units) : IsList(u.children),
           \A u \in ToSet(units) : \A c \in ToSet(u.children) : IsList(c.children)
    PROVE  LET D == UNION {DiesOf(u) : u \in ToSet(units)}
               prints == [i \in DOMAIN units |-> Printed(units[i])]
           IN  /\ prints \in Seq(Seq(D)) /\ Len(prints) = Len(units)
               /\ DumpOf(units) \in Seq(D) /\ ToSet(DumpOf(units)) = D
<1> DEFINE D == UNION {DiesOf(u) : u \in ToSet(units)}
           prints == [i \in DOMAIN units |-> Printed(units[i])]
           n == Len(units)
<1>1. n \in Nat /\ DOMAIN units = 1 .. n
  BY DEF IsList
<1>2. prints = [i \in 1 .. n |-> prints[i]] /\ DOMAIN prints = 1 .. n
      /\ \A i \in 1 .. n : prints[i] = Printed(units[i])
  BY <1>1
<1>3. \A u \in ToSet(units) : DiesOf(u) \subseteq D
  OBVIOUS
<1>4. \A i \in 1 .. n : units[i] \in ToSet(units)
  BY <1>1 DEF ToSet
<1> HIDE DEF prints, n, D
<1>5. ASSUME NEW i \in 1 .. n PROVE prints[i] \in Seq(D) /\ ToSet(prints[i]) = DiesOf(units[i])
  <2>1. units[i] \in ToSet(units) /\ DiesOf(units[i]) \subseteq D
    BY <1>3, <1>4
  <2>2. IsList(units[i].children) /\ \A c \in ToSet(units[i].children) : IsList(c.children)
    BY <2>1
  <2>3. QED
    BY <1>2, <2>1, <2>2, UnitPrints
<1>6. prints \in Seq(Seq(D)) /\ Len(prints) = n
  BY <1>1, <1>2, <1>5
<1>7. DumpOf(units) = FlattenSeq(prints)
  BY DEF DumpOf, prints
<1>8. DumpOf(units) \in Seq(D) /\ ToSet(DumpOf(units)) = UNION {ToSet(prints[j]) : j \in 1 .. n}
  BY <1>2, <1>6, <1>7, FlattenTyped, FlattenElements
<1>9. UNION {ToSet(prints[j]) : j \in 1 .. n} = D
  <2>1. D = UNION {DiesOf(units[j]) : j \in 1 .. n}
    BY <1>1 DEF D, ToSet
  <2>2. QED
    BY <1>5, <2>1
<1>10. QED
  BY <1>6, <1>8, <1>9 DEF D, prints, n

(* What the tool prints is a list, and so is the part that is read.        *)
LEMMA DumpIsList ==
    ASSUME NEW in \in Inputs
    PROVE  IsList(DumpOf(in.units))
<1>1. /\ IsList(in.units) /\ \A u \in ToSet(in.units) : IsList(u.children)
      /\ \A u \in ToSet(in.units) : \A c \in ToSet(u.children) : IsList(c.children)
  BY InputsAreRead
<1> DEFINE D == UNION {DiesOf(u) : u \in ToSet(in.units)}
           dump == DumpOf(in.units)
<1>2. dump \in Seq(D)
  BY <1>1, DumpPrints
<1> HIDE DEF D, dump
<1>3. IsList(dump)
  BY <1>2, SequencesAreLists
<1>4. QED
  BY <1>3 DEF dump

-----------------------------------------------------------------------------
(* Addresses from the part of a dump that is read                          *)

LEMMA PartIsRead ==
    ASSUME NEW S, NEW list \in Seq(S), NEW printed \in OutputOf(list)
    PROVE  printed \in Seq(S) /\ \A i \in DOMAIN printed : printed[i] \in ToSet(list)
<1>1. PICK n \in 0 .. Len(list) : printed = SubSeq(list, 1, n)
  <2>1. Len(list) \in Nat
    OBVIOUS
  <2>2. PICK n \in (IF input.flaky THEN 0 ELSE Len(list)) .. Len(list) : printed = SubSeq(list, 1, n)
    BY DEF OutputOf
  <2>3. QED
    BY <2>1, <2>2
<1>2. printed \in Seq(S) /\ Len(printed) = n /\ \A i \in 1 .. n : printed[i] = list[i]
  BY <1>1
<1>3. QED
  BY <1>2 DEF ToSet

LEMMA RvasAreRight ==
    ASSUME input \in Inputs, RvasRead, input.format = "dwarf"
    PROVE  \/ /\ ToSet(rva_map) \subseteq DefinedAt
              /\ whole => RvaNames = {d.name : d \in DefinedAt}
              /\ IsList(rva_map) /\ EachNameOnce(rva_map)
           \/ (whole => DefinedAt = {}) /\ rva_map = NmRvas(input.symbols)
<1>1. input \in Inputs /\ RvasRead
  OBVIOUS
<1>2. PICK printed \in OutputOf(Dump) :
         rva_map = DwarfRvas(printed, input.symbols) /\ (whole => printed = Dump)
  BY <1>1 DEF RvasRead
<1> DEFINE K == {i \in DOMAIN printed : printed[i].tag = "subprogram"}
           subs == Selection(printed, K)
           rvas == SubprogramRvas(subs)
           D == Subprograms
<1>3. rva_map = IF rvas = <<>> THEN NmRvas(input.symbols) ELSE rvas
  BY <1>2 DEF DwarfRvas
<1>4. /\ \A i \in DOMAIN printed : printed[i] \in ToSet(Dump)
      /\ printed \in Seq({Dump[i] : i \in DOMAIN Dump})
  BY <1>1, DumpIsList, PartIsRead DEF IsList, Dump
<1>5. K \in SUBSET DOMAIN printed /\ \A i \in K : printed[i] \in D
  BY <1>4 DEF Subprograms, SubprogramsIn
<1>6. subs \in Seq(D) /\ \A i \in K : \E k \in DOMAIN subs : subs[k] = printed[i]
  <2> HIDE DEF K
  <2>1. IsList(subs) /\ \A k \in DOMAIN subs : \E i \in K : subs[k] = printed[i]
    BY <1>4, <1>5, SelectionSelects, SelectionElements DEF IsList
  <2>2. \A k \in DOMAIN subs : subs[k] \in D
    BY <1>5, <2>1
  <2>3. \A i \in K : \E k \in DOMAIN subs : subs[k] = printed[i]
    BY <1>4, <1>5, SelectionElements
  <2> HIDE DEF subs
  <2>4. QED
    BY <2>1, <2>2, <2>3 DEF IsList
<1>7. (\A c, d \in D : c.at = d.at => c = d) /\ \A d \in D : d.decl => d.low_pc = None
  BY <1>1, DumpsAreSound DEF Subprograms, Dump
<1>8. whole => \A d \in D : \E i \in DOMAIN subs : subs[i] = d
  <2> SUFFICES ASSUME whole, NEW d \in D PROVE \E k \in DOMAIN subs : subs[k] = d
    OBVIOUS
  <2>1. PICK i \in DOMAIN printed : printed[i] = d /\ d.tag = "subprogram"
    BY <1>2 DEF Subprograms, SubprogramsIn, ToSet
  <2>2. QED
    BY <1>6, <2>1
<1> HIDE DEF K, subs, D
<1>9. /\ IsList(rvas) /\ EachNameOnce(rvas) /\ \A k \in DOMAIN rvas : rvas[k] \in DefinedBy(D)
      /\ whole => \A d \in DefinedBy(D) : \E k \in DOMAIN rvas : rvas[k].name = d.name
  BY <1>6, <1>7, <1>8, SubprogramsFound
<1>10. DefinedBy(D) = DefinedAt
  BY DEF DefinedAt, D
<1> HIDE DEF rvas
<1>11. CASE rvas = <<>>
  BY <1>3, <1>9, <1>10, <1>11
<1>12. CASE rvas # <<>>
  <2>1. \A k \in DOMAIN rvas : rvas[k].name \in {d.name : d \in DefinedAt}
    BY <1>9, <1>10
  <2>2. whole => \A d \in DefinedAt : d.name \in {rvas[k].name : k \in DOMAIN rvas}
    BY <1>9, <1>10
  <2>3. whole => RvaNames = {d.name : d \in DefinedAt}
    BY <1>3, <1>12, <2>1, <2>2 DEF RvaNames
  <2>4. ToSet(rva_map) \subseteq DefinedAt
    BY <1>3, <1>9, <1>10, <1>12 DEF ToSet
  <2>5. QED
    BY <1>3, <1>9, <1>12, <2>3, <2>4
<1>13. QED
  BY <1>11, <1>12

(* What the merge is given: the binary's names, each with one address.     *)
RvaTable(rvas) ==
    /\ IsList(rvas) /\ EachNameOnce(rvas)
    /\ \A i \in DOMAIN rvas : rvas[i].name \in DOMAIN Symbol

LEMMA RvasAreNamed ==
    ASSUME input \in Inputs, RvasRead
    PROVE  RvaTable(rva_map)
<1>1. ASSUME input.format = "dwarf", rva_map # NmRvas(input.symbols)
      PROVE  RvaTable(rva_map)
  <2>1. /\ ToSet(rva_map) \subseteq DefinedAt /\ IsList(rva_map) /\ EachNameOnce(rva_map)
    BY <1>1, RvasAreRight
  <2>2. ASSUME NEW i \in DOMAIN rva_map PROVE rva_map[i].name \in DOMAIN Symbol
    <3>1. rva_map[i] \in DefinedBy(Subprograms)
      BY <2>1 DEF ToSet, DefinedAt
    <3>2. PICK d \in Subprograms : \E c \in NamersOf(Subprograms, d) : rva_map[i].name = Mangled(c)
      BY <3>1 DEF DefinedBy
    <3>3. PICK c \in Subprograms : Mangled(c) # None /\ rva_map[i].name = Mangled(c)
      BY <3>2 DEF NamersOf, DeclaredAt
    <3>4. Mangled(c) \in DOMAIN Symbol \cup {None}
      BY DumpsAreSound DEF Subprograms, Dump
    <3>5. QED
      BY <3>3, <3>4
  <2>3. QED
    BY <2>1, <2>2 DEF RvaTable
<1>2. RvaTable(NmRvas(input.symbols))
  <2> DEFINE symbols == input.symbols
             K == {i \in DOMAIN symbols : symbols[i].kind \in {"T", "t", "D", "d"}}
             code == Selection(symbols, K)
             e == [i \in DOMAIN code |-> [name |-> code[i].name, rva |-> code[i].addr]]
             N == NmRvas(symbols)
  <2>1. /\ IsList(symbols) /\ \A i \in DOMAIN symbols : symbols[i].name \in DOMAIN Symbol
    BY InputsAreRead, NamesAreSymbols DEF ToSet
  <2>2. K \in SUBSET DOMAIN symbols
    OBVIOUS
  <2>3. N = OncePerName(e)
    BY DEF NmRvas
  <2> HIDE DEF K, N
  <2>4. IsList(code) /\ \A k \in DOMAIN code : \E i \in K : code[k] = symbols[i]
    BY <2>1, <2>2, SelectionSelects, SelectionElements DEF IsList
  <2>5. \A k \in DOMAIN code : code[k].name \in DOMAIN Symbol
    BY <2>1, <2>2, <2>4
  <2> HIDE DEF code
  <2>6. e \in Seq({e[k] : k \in DOMAIN e}) /\ \A k \in DOMAIN e : e[k].name \in DOMAIN Symbol
    BY <2>4, <2>5 DEF IsList
  <2> HIDE DEF e
  <2>7. /\ N \in Seq({e[k] : k \in DOMAIN e}) /\ EachNameOnce(N)
        /\ \A k \in DOMAIN N : \E j \in DOMAIN e : N[k] = e[j]
    BY <2>3, <2>6, OnceTakesAll
  <2>8. IsList(N) /\ \A k \in DOMAIN N : N[k].name \in DOMAIN Symbol
    BY <2>6, <2>7 DEF IsList
  <2>9. QED
    BY <2>7, <2>8 DEF RvaTable, N
<1>3. ASSUME input.format = "pdb" PROVE RvaTable(rva_map)
  <2> DEFINE procs == Located(input.procs, input.sections)
             e == [k \in DOMAIN procs |->
                    [name |-> procs[k].name, rva |-> ResolveRva(procs[k], input.sections)]]
             S == {input.procs[k] : k \in DOMAIN input.procs}
  <2>1. /\ input.procs \in Seq(S)
        /\ \A p \in ToSet(input.procs) : ParsePdbutilInt(p.off) \in Int
        /\ \A g \in DOMAIN input.sections : input.sections[g] \in Int
    BY InputsAreRead DEF IsList
  <2>2. /\ procs \in Seq(S)
        /\ \A k \in DOMAIN procs : ResolveRva(procs[k], input.sections) \in Int
    <3> HIDE DEF S
    <3>1. QED
      BY <2>1, LocatedAreProcedures
  <2>3. \A k \in DOMAIN procs : procs[k].name \in DOMAIN Symbol
    BY <2>1, LocatedAreNamed, NamesAreSymbols
  <2> HIDE DEF procs
  <2>4. /\ e \in Seq({e[k] : k \in DOMAIN e})
        /\ \A k \in DOMAIN e : e[k].rva \in Int /\ e[k].name \in DOMAIN Symbol
    BY <2>2, <2>3
  <2>5. rva_map = KeepHighest(e)
    BY <1>3 DEF RvasRead, PdbRvas, procs
  <2> DEFINE T == KeepHighest(e)
  <2> HIDE DEF e
  <2>6. /\ T \in Seq({e[k] : k \in DOMAIN e})
        /\ \A k \in DOMAIN T : \E j \in DOMAIN e : T[k] = e[j]
        /\ \A k, l \in DOMAIN T : T[k].name = T[l].name => k = l
    BY <2>4, KeepHighestKeeps
  <2> HIDE DEF T
  <2>7. IsList(T) /\ \A k \in DOMAIN T : T[k].name \in DOMAIN Symbol
    BY <2>4, <2>6 DEF IsList
  <2>8. QED
    BY <2>5, <2>6, <2>7 DEF RvaTable, EachNameOnce, T
<1>4. QED
  BY <1>1, <1>2, <1>3, InputsAreRead

-----------------------------------------------------------------------------
(* The merge of one function                                               *)

LEMMA EntryFinds ==
    ASSUME NEW rvas, IsList(rvas), NEW name
    PROVE  /\ Entry(rvas, name) # 0 =>
                 Entry(rvas, name) \in DOMAIN rvas /\ rvas[Entry(rvas, name)].name = name
           /\ \A i \in DOMAIN rvas : rvas[i].name = name => Entry(rvas, name) # 0
<1> DEFINE K == {i \in 1 .. Len(rvas) : rvas[i].name = name}
<1>1. Entry(rvas, name) = IF K # {} THEN Min(K) ELSE 0
  BY DEF Entry, SelectInSeq
<1>2. DOMAIN rvas = 1 .. Len(rvas) /\ Len(rvas) \in Nat
  BY DEF IsList
<1>3. K \in SUBSET DOMAIN rvas
  BY <1>2
<1>4. K # {} => Min(K) \in K
  <2> HIDE DEF K
  <2>1. QED
    BY <1>3, MinIsFirst DEF IsList
<1>5. /\ \A i \in K : i \in DOMAIN rvas /\ i # 0 /\ rvas[i].name = name
      /\ \A i \in DOMAIN rvas : rvas[i].name = name => i \in K
  BY <1>2
<1> HIDE DEF K
<1>6. QED
  BY <1>1, <1>4, <1>5

LEMMA CleanEntryFinds ==
    ASSUME NEW rvas, IsList(rvas), NEW works, NEW clean
    PROVE  CleanEntry(works, rvas, clean) \in DOMAIN rvas \cup {0}
<1> DEFINE K == {i \in 1 .. Len(rvas) :
                    Symbol[rvas[i].name].raw = clean \/ Norm(works, rvas[i].name) = clean}
<1>1. CleanEntry(works, rvas, clean) = IF K # {} THEN Min(K) ELSE 0
  BY DEF CleanEntry, SelectInSeq
<1>2. K \in SUBSET DOMAIN rvas
  BY DEF IsList
<1>3. K # {} => Min(K) \in K
  <2> HIDE DEF K
  <2>1. QED
    BY <1>2, MinIsFirst DEF IsList
<1>4. QED
  BY <1>1, <1>2, <1>3

LEMMA MangledAtFinds ==
    ASSUME NEW rvas, IsList(rvas), NEW rva
    PROVE  MangledAt(rvas, rva) # None => \E i \in DOMAIN rvas :
                rvas[i].rva = rva /\ MangledAt(rvas, rva) = rvas[i].name
<1> DEFINE K == {i \in 1 .. Len(rvas) : rvas[i].rva = rva /\ Symbol[rvas[i].name].mangled}
           i == IF K # {} THEN Min(K) ELSE 0
<1>1. MangledAt(rvas, rva) = IF i = 0 THEN None ELSE rvas[i].name
  BY DEF MangledAt, SelectInSeq
<1>2. K \in SUBSET DOMAIN rvas
  BY DEF IsList
<1>3. K # {} => Min(K) \in K
  <2> HIDE DEF K
  <2>1. QED
    BY <1>2, MinIsFirst DEF IsList
<1>4. QED
  BY <1>1, <1>2, <1>3

(* A function of the manifest has these fields.                            *)
IsRecord(r) ==
    r = [flat |-> r.flat, mangled |-> r.mangled, rva |-> r.rva, loc |-> r.loc, ret |-> r.ret,
         member |-> r.member, self_view |-> r.self_view, args |-> r.args]

SignatureKeeps(r, s) ==
    /\ IsRecord(s)
    /\ s.flat = r.flat /\ s.mangled = r.mangled /\ s.rva = r.rva /\ s.loc = r.loc
    /\ r.ret.text # "ptr" => s.ret = r.ret
    /\ r.args # <<>> => s.args = r.args

LEMMA ApplySignatureKeeps ==
    ASSUME NEW r, IsRecord(r), NEW sig
    PROVE  /\ SignatureKeeps(r, ApplySignature(r, sig, TRUE))
           /\ SignatureKeeps(r, ApplySignature(r, sig, FALSE))
           /\ ApplySignature(r, sig, TRUE).member = r.member
           /\ r.self_view # None => ApplySignature(r, sig, TRUE).self_view = r.self_view
<1>1. CASE sig = None
  BY <1>1 DEF ApplySignature, SignatureKeeps
<1>2. CASE sig # None
  <2> DEFINE ret == IF r.ret.text = "ptr" /\ sig.ret.text # "ptr" THEN sig.ret ELSE r.ret
             args == IF r.args = <<>> THEN sig.args ELSE r.args
             view == IF r.member /\ r.self_view = None THEN sig.self_view ELSE r.self_view
  <2>1. /\ ApplySignature(r, sig, TRUE) =
             [r EXCEPT !.ret = ret, !.args = args, !.self_view = view, !.member = r.member]
        /\ ApplySignature(r, sig, FALSE) =
             [r EXCEPT !.ret = ret, !.args = args, !.self_view = sig.self_view, !.member = sig.member]
    BY <1>2 DEF ApplySignature
  <2>2. r.ret.text # "ptr" => ret = r.ret
    OBVIOUS
  <2>3. r.args # <<>> => args = r.args
    OBVIOUS
  <2>4. r.self_view # None => view = r.self_view
    OBVIOUS
  <2> HIDE DEF ret, args, view
  <2>5. QED
    BY <2>1, <2>2, <2>3, <2>4 DEF IsRecord, SignatureKeeps
<1>3. QED
  BY <1>1, <1>2

LEMMA FixArgViewsKeeps ==
    ASSUME NEW r, IsRecord(r), NEW s, s = FixArgViews(r)
    PROVE  /\ IsRecord(s)
           /\ s.flat = r.flat /\ s.mangled = r.mangled /\ s.rva = r.rva /\ s.loc = r.loc
           /\ s.ret = r.ret /\ s.member = r.member /\ s.self_view = r.self_view
           /\ IsList(r.args) /\ (\A a \in ToSet(r.args) :
                                    a = [name |-> a.name, kind |-> a.kind, view |-> a.view])
                => SameArgs(s.args, r.args)
<1> DEFINE views == NameViews[r.mangled]
           place(i) == Cardinality({j \in 1 .. i : r.args[j].kind = "ptr"})
           args == [i \in DOMAIN r.args |->
            IF /\ r.args[i].kind = "ptr" /\ place(i) \in DOMAIN views
               /\ r.args[i].view \in BadViews \cup {None}
            THEN [r.args[i] EXCEPT !.view = views[place(i)]]
            ELSE r.args[i]]
<1>1. s = [r EXCEPT !.args = args]
  BY DEF FixArgViews
<1> HIDE DEF views, place
<1>2. ASSUME IsList(r.args),
             \A a \in ToSet(r.args) : a = [name |-> a.name, kind |-> a.kind, view |-> a.view]
      PROVE  SameArgs(args, r.args)
  <2>1. ASSUME NEW i \in DOMAIN r.args
        PROVE  args[i].name = r.args[i].name /\ args[i].kind = r.args[i].kind
    <3> DEFINE a == r.args[i]
    <3>1. a = [name |-> a.name, kind |-> a.kind, view |-> a.view]
      BY <1>2 DEF ToSet
    <3> HIDE DEF a
    <3>2. \A v : [a EXCEPT !.view = v].name = a.name /\ [a EXCEPT !.view = v].kind = a.kind
      BY <3>1
    <3>3. args[i] = a \/ args[i] = [a EXCEPT !.view = views[place(i)]]
      BY DEF a
    <3>4. QED
      BY <3>2, <3>3 DEF a
  <2>2. DOMAIN args = 1 .. Len(r.args) /\ Len(r.args) \in Nat
    BY <1>2 DEF IsList
  <2>3. Len(args) = Len(r.args) /\ DOMAIN args = DOMAIN r.args
    BY <2>2
  <2> HIDE DEF args
  <2>4. QED
    BY <2>1, <2>3 DEF SameArgs
<1> HIDE DEF args
<1>3. IsRecord(s) /\ s.args = args
      /\ s.flat = r.flat /\ s.mangled = r.mangled /\ s.rva = r.rva /\ s.loc = r.loc
      /\ s.ret = r.ret /\ s.member = r.member /\ s.self_view = r.self_view
  BY <1>1 DEF IsRecord
<1>4. QED
  BY <1>2, <1>3

(* Of places in order, head, some are chosen, and of these all up to some  *)
(* point are read: the n-th that is read is the n-th chosen.               *)
Till(K, k) == {j \in 1 .. k : j \in K}

ReadUpTo(n, K, head, R, Q) ==
    /\ n \in Nat /\ K \in SUBSET (1 .. n) /\ IsFiniteSet(R)
    /\ \A j \in 1 .. n : head[j] \in Nat
    /\ \A i, j \in 1 .. n : i < j => head[i] < head[j]
    /\ \A i \in R : \E j \in K : i = head[j]
    /\ \A j \in K : \A i \in R : head[j] <= i => head[j] \in R
    /\ \A i, j \in R : <<i, j>> \in Q <=> i < j

LEMMA ReadInOrder ==
    ASSUME NEW n, NEW K, NEW head, NEW R, NEW Q, ReadUpTo(n, K, head, R, Q), NEW k \in K,
           Cardinality(Till(K, k)) \in 1 .. Cardinality(R)
    PROVE  head[k] \in R /\ Nth(R, Q, Cardinality(Till(K, k))) = head[k]
<1> DEFINE c == Cardinality(Till(K, k))
<1>0. /\ n \in Nat /\ K \in SUBSET (1 .. n) /\ IsFiniteSet(R)
      /\ \A j \in 1 .. n : head[j] \in Nat
      /\ \A i, j \in 1 .. n : i < j => head[i] < head[j]
      /\ \A i \in R : \E j \in K : i = head[j]
      /\ \A j \in K : \A i \in R : head[j] <= i => head[j] \in R
      /\ \A i, j \in R : <<i, j>> \in Q <=> i < j
  BY DEF ReadUpTo
<1> DEFINE before == {j \in K : j < k}
           ahead == {head[j] : j \in before}
           g == [j \in before |-> head[j]]
<1>1. /\ \A i \in 1 .. n : i \in Int /\ head[i] \in Int
      /\ \A i \in R : i \in Int
      /\ before \in SUBSET K
  BY <1>0
<1>2. IsFiniteSet(K) /\ IsFiniteSet(before) /\ Cardinality(before) \in Nat
  <2>1. 1 .. n = DOMAIN [i \in 1 .. n |-> i] /\ [i \in 1 .. n |-> i] \in Seq(Nat)
    BY <1>0
  <2>2. K \in SUBSET DOMAIN [i \in 1 .. n |-> i]
    BY <1>0, <2>1
  <2>3. IsFiniteSet(K)
    BY <2>1, <2>2, IndicesAreFinite
  <2>4. IsFiniteSet(before)
    BY <1>1, <2>3, FS_Subset
  <2>5. QED
    BY <2>3, <2>4, FS_CardinalityType
<1>3. Cardinality(R) \in Nat
  BY <1>0, FS_CardinalityType
<1>4. StrictTotalOrder(Q, R)
  BY <1>0, <1>1 DEF StrictTotalOrder
<1>5. c = Cardinality(before) + 1
  <2>1. \A j \in K : j \in Int /\ 1 <= j
    BY <1>0
  <2>2. Till(K, k) = before \cup {k} /\ k \notin before
    <3> HIDE DEF before
    <3>1. \A j \in K : j \in 1 .. k <=> j < k \/ j = k
      BY <2>1
    <3>2. \A j : j \in Till(K, k) <=> j \in K /\ (j < k \/ j = k)
      BY <3>1 DEF Till
    <3>3. (\A j : j \in before <=> j \in K /\ j < k) /\ ~(k < k)
      BY <2>1 DEF before
    <3>4. QED
      BY <3>2, <3>3
  <2> HIDE DEF before
  <2>3. QED
    BY <1>2, <2>2, FS_AddElement
<1>6. IsFiniteSet(ahead) /\ Cardinality(ahead) = Cardinality(before)
  <2>1. ASSUME NEW i \in before, NEW j \in before, head[i] = head[j] PROVE i = j
    <3>1. i \in 1 .. n /\ j \in 1 .. n /\ i \in Int /\ j \in Int
      BY <1>0, <1>1
    <3>2. head[i] \in Int /\ ~(head[i] < head[j]) /\ ~(head[j] < head[i])
      BY <1>0, <1>1, <2>1, <3>1
    <3>3. ~(i < j) /\ ~(j < i)
      BY <1>0, <3>1, <3>2
    <3>4. QED
      BY <3>1, <3>3
  <2> HIDE DEF before
  <2>2. g \in Bijection(before, ahead)
    BY <2>1 DEF Bijection, Injection, Surjection, IsInjective
  <2>3. QED
    BY <1>2, <2>2, FS_Bijection DEF ExistsBijection
<1>7. ASSUME NEW i \in R, NEW j \in K, i = head[j], i < head[k]
      PROVE  i \in ahead
  <2>1. ~(k < j) /\ j # k
    <3>1. k \in 1 .. n /\ j \in 1 .. n /\ head[j] \in Int /\ head[k] \in Int
      BY <1>0, <1>1
    <3>2. ~(head[k] < head[j]) /\ head[j] # head[k]
      BY <1>7, <3>1
    <3>3. QED
      BY <1>0, <3>1, <3>2
  <2>2. j \in Int /\ k \in Int
    BY <1>0, <1>1
  <2>3. j < k
    BY <2>1, <2>2
  <2>4. QED
    BY <1>7, <2>3
<1>8. CASE head[k] \in R
  <2>1. Earlier(R, Q, head[k]) = ahead
    <3>1. ASSUME NEW i \in R, <<i, head[k]>> \in Q PROVE i \in ahead
      <4>1. i < head[k]
        BY <1>0, <1>8, <3>1
      <4>2. PICK j \in K : i = head[j]
        BY <1>0
      <4>3. QED
        BY <1>7, <4>1, <4>2
    <3>2. ASSUME NEW i \in ahead PROVE i \in R /\ <<i, head[k]>> \in Q
      <4>1. PICK j \in K : j < k /\ i = head[j]
        OBVIOUS
      <4>2. head[j] < head[k] /\ head[j] \in Int /\ head[k] \in Int
        BY <1>0, <1>1, <4>1
      <4>3. head[j] \in R
        <5>1. head[j] <= head[k] /\ j \in K
          BY <4>1, <4>2
        <5>2. QED
          BY <1>0, <1>8, <5>1
      <4>4. QED
        BY <1>0, <1>8, <4>1, <4>2, <4>3
    <3>3. QED
      BY <3>1, <3>2 DEF Earlier
  <2> HIDE DEF before, ahead
  <2>2. PICK m \in 1 .. Cardinality(R) : Nth(R, Q, m) = head[k]
    BY <1>0, <1>4, <1>8, NthIsOnto
  <2>3. Cardinality(Earlier(R, Q, head[k])) = m - 1
    BY <1>0, <1>4, <2>2, Ranks
  <2>4. m = c
    BY <1>2, <1>3, <1>5, <1>6, <2>1, <2>3
  <2>5. QED
    BY <1>8, <2>2, <2>4
<1>9. CASE head[k] \notin R
  <2>1. ASSUME NEW i \in R PROVE i \in ahead
    <3>1. PICK j \in K : i = head[j]
      BY <1>0
    <3>2. ~(head[k] <= i)
      BY <1>0, <1>9
    <3>3. i < head[k]
      BY <1>0, <1>1, <3>1, <3>2
    <3>4. QED
      BY <1>7, <3>1, <3>3
  <2> HIDE DEF before, ahead
  <2>2. Cardinality(R) <= Cardinality(before)
    BY <1>6, <2>1, FS_Subset
  <2>3. QED
    BY <1>2, <1>3, <1>5, <2>2
<1>10. QED
  BY <1>8, <1>9

(* A pointer that is read has its name at its end, and is one pointer.     *)
LEMMA NameOfPointer ==
    ASSUME NEW S, NEW rest \in Seq(S), NEW a \in Nat, NEW p \in Seq(S), SpellsOne(p),
           \A l \in 1 .. Len(p) : a + l \in DOMAIN rest /\ rest[a + l] = p[l],
           p[1] = Letter("P"), NameAfter(rest, a + 1) # {}
    PROVE  /\ NameAfter(rest, a + 1) = {a + Len(p)} /\ p[Len(p)].counted
           /\ \A l \in 2 .. Len(p) : p[l] # Letter("P")
<1> DEFINE P == Letter("P")
           Skipped == {Letter("r"), Letter("V")}
           n == Len(p)
<1>1. P \notin Skipped
  BY DEF Letter
<1>2. /\ n \in Nat /\ n # 0 /\ p[n] # P /\ p[n] \notin Skipped
      /\ \A l \in 1 .. n : p[l].counted => l = n
  <2>1. n \in Nat /\ n # 0 /\ DOMAIN p = 1 .. n /\ Last(p) = p[n]
    BY DEF SpellsOne, Last
  <2>2. QED
    BY <2>1 DEF SpellsOne
<1>3. DOMAIN rest = 1 .. Len(rest) /\ Len(rest) \in Nat
  OBVIOUS
<1> HIDE DEF P, Skipped, n
<1>4. \A l \in 1 .. n : a + l \in DOMAIN rest /\ rest[a + l] = p[l]
  BY DEF n
<1>5. ASSUME NEW m \in NameAfter(rest, a + 1)
      PROVE  m = a + n
  <2>1. /\ m \in DOMAIN rest /\ a + 1 < m /\ rest[m].counted /\ m \in Nat
        /\ \A k \in a + 2 .. m - 1 : rest[k] \in Skipped
    <3>1. (a + 1) + 1 = a + 2
      OBVIOUS
    <3>2. QED
      BY <1>3, <1>5, <3>1 DEF NameAfter, Skipped
  <2>2. CASE m < a + n
    <3>1. m - a \in 1 .. n /\ a + (m - a) = m /\ m - a # n
      BY <1>2, <2>1, <2>2
    <3>2. p[m - a].counted
      BY <1>4, <2>1, <3>1
    <3>3. QED
      BY <1>2, <3>1, <3>2
  <2>3. CASE m > a + n
    <3>1. n # 1
      BY <1>2 DEF P
    <3>2. a + n \in a + 2 .. m - 1 /\ n \in 1 .. n
      BY <1>2, <2>1, <2>3, <3>1
    <3>3. rest[a + n] \in Skipped /\ rest[a + n] = p[n]
      BY <1>4, <2>1, <3>2
    <3>4. QED
      BY <1>2, <3>3
  <2>4. m \in Nat /\ a + n \in Nat
    BY <1>2, <2>1
  <2>5. QED
    BY <2>2, <2>3, <2>4
<1>6. PICK m : m \in NameAfter(rest, a + 1)
  OBVIOUS
<1>7. m = a + n
  BY <1>5, <1>6
<1>8. NameAfter(rest, a + 1) = {a + n}
  BY <1>5, <1>6, <1>7
<1>9. p[n].counted
  <2>1. rest[a + n].counted
    BY <1>6, <1>7 DEF NameAfter
  <2>2. n \in 1 .. n
    BY <1>2
  <2>3. rest[a + n] = p[n]
    BY <1>4, <2>2
  <2>4. QED
    BY <2>1, <2>3
<1>10. ASSUME NEW l \in 2 .. n
       PROVE  p[l] # P
  <2>1. CASE l = n
    BY <1>2, <2>1
  <2>2. CASE l # n
    <3>1. l \in 1 .. n /\ a + l \in (a + 1) + 1 .. (a + n) - 1
      BY <1>2, <2>2
    <3>2. \A k \in (a + 1) + 1 .. (a + n) - 1 : rest[k] \in Skipped
      BY <1>6, <1>7 DEF NameAfter, Skipped
    <3>3. rest[a + l] \in Skipped /\ rest[a + l] = p[l]
      BY <1>4, <3>1, <3>2
    <3>4. QED
      BY <1>1, <3>3
  <2>3. QED
    BY <2>1, <2>2
<1>11. QED
  BY <1>8, <1>9, <1>10 DEF n, P

(* The n-th pointer among the parameters has the n-th view, while names    *)
(* are read.                                                               *)
PointersOf(params) == {j \in DOMAIN params : params[j][1] = Letter("P")}

LEMMA ViewsCount ==
    ASSUME NEW S, NEW params \in Seq(Seq(S)), \A j \in 1 .. Len(params) : SpellsOne(params[j]),
           NEW text, AfterName(text) = FlattenSeq(params),
           NEW k \in PointersOf(params), NEW c, c = Cardinality(Till(PointersOf(params), k)),
           c \in DOMAIN PtrViews(text)
    PROVE  PtrViews(text)[c] = ClassOf(params[k])
<1> DEFINE n == Len(params)
           rest == FlattenSeq(params)
           Ptrs == Pointers(rest)
           R == {i \in Ptrs : \A j \in Ptrs : j <= i => NameAfter(rest, j) # {}}
           names == [i \in DOMAIN rest |-> rest[First(NameAfter(rest, i))].of]
           K == PointersOf(params)
<1>1. PICK at : PutAt(at, params)
  BY FlattenPlaces
<1> DEFINE head == [j \in 1 .. n |-> at[j - 1] + 1]
<1>2. /\ n \in Nat
      /\ \A j \in 1 .. n : /\ params[j] \in Seq(S) /\ Len(params[j]) \in Nat /\ Len(params[j]) # 0
                          /\ j - 1 \in 0 .. n /\ j \in 0 .. n /\ j \in Int
  <2>1. \A j \in 1 .. n : params[j] # <<>>
    BY DEF SpellsOne
  <2>2. \A j \in 1 .. n : params[j] \in Seq(S)
    OBVIOUS
  <2>3. n \in Nat
    OBVIOUS
  <2> HIDE DEF n
  <2>4. \A j \in 1 .. n : Len(params[j]) \in Nat /\ Len(params[j]) # 0
    <3> SUFFICES ASSUME NEW j \in 1 .. n PROVE Len(params[j]) \in Nat /\ Len(params[j]) # 0
      OBVIOUS
    <3> DEFINE p == params[j]
    <3>1. p \in Seq(S) /\ p # <<>>
      BY <2>1, <2>2
    <3> HIDE DEF p
    <3>2. QED
      BY <3>1 DEF p
  <2>5. QED
    BY <2>2, <2>3, <2>4
<1>3. rest \in Seq(S)
  BY FlattenTyped
<1>4. /\ at \in [0 .. n -> Nat] /\ DOMAIN rest = 1 .. at[n]
      /\ \A j \in 1 .. n : at[j] = at[j - 1] + Len(params[j])
      /\ \A j \in 1 .. n : \A l \in 1 .. Len(params[j]) :
            at[j - 1] + l \in DOMAIN rest /\ rest[at[j - 1] + l] = params[j][l]
      /\ \A i \in DOMAIN rest : \E j \in 1 .. n : \E l \in 1 .. Len(params[j]) : i = at[j - 1] + l
  BY <1>1 DEF PutAt
<1>5. \A i, j \in 1 .. n : i < j => at[i] <= at[j - 1]
  <2> SUFFICES ASSUME NEW i \in 1 .. n, NEW j \in 1 .. n, i < j PROVE at[i] <= at[j - 1]
    OBVIOUS
  <2>1. i \in 0 .. n /\ j - 1 \in i .. n
    BY <1>2
  <2>2. QED
    BY <1>1, <2>1, PlacesGrow
<1> HIDE DEF n, rest
<1>6. ASSUME NEW j \in 1 .. n
      PROVE  /\ head[j] \in DOMAIN rest /\ rest[head[j]] = params[j][1]
             /\ head[j] = at[j - 1] + 1 /\ at[j - 1] \in Nat /\ head[j] \in Nat
  <2>1. head[j] = at[j - 1] + 1
    OBVIOUS
  <2>2. at[j - 1] \in Nat /\ 1 \in 1 .. Len(params[j])
    <3> HIDE DEF head
    <3>1. j - 1 \in 0 .. n /\ Len(params[j]) \in Nat /\ Len(params[j]) # 0
      BY <1>2
    <3>2. at[j - 1] \in Nat
      BY <1>4, <3>1
    <3>3. QED
      BY <3>1, <3>2
  <2>3. at[j - 1] + 1 \in DOMAIN rest /\ rest[at[j - 1] + 1] = params[j][1]
    BY <1>4, <2>2
  <2> HIDE DEF head
  <2>4. QED
    BY <2>1, <2>2, <2>3
<1>7. \A i, j \in 1 .. n : i < j => head[i] < head[j]
  <2> SUFFICES ASSUME NEW i \in 1 .. n, NEW j \in 1 .. n, i < j PROVE head[i] < head[j]
    OBVIOUS
  <2>1. /\ at[i] <= at[j - 1] /\ at[i] = at[i - 1] + Len(params[i])
        /\ Len(params[i]) \in Nat /\ Len(params[i]) # 0
        /\ at[i - 1] \in Nat /\ at[j - 1] \in Nat
        /\ head[i] = at[i - 1] + 1 /\ head[j] = at[j - 1] + 1
    BY <1>2, <1>4, <1>5, <1>6
  <2> HIDE DEF head
  <2>2. QED
    BY <2>1
<1>8. head \in [1 .. n -> DOMAIN rest]
  BY <1>6
<1> HIDE DEF head
<1>9. /\ K \in SUBSET (1 .. n) /\ \A j \in 1 .. n : j \in K <=> params[j][1] = Letter("P")
  <2>1. DOMAIN params = 1 .. n
    BY DEF n
  <2>2. QED
    BY <2>1 DEF PointersOf
<1> HIDE DEF K
<1>10. ASSUME NEW j \in K
      PROVE  head[j] \in Ptrs
  BY <1>6, <1>9 DEF Pointers
<1>11. ASSUME NEW j \in K, NameAfter(rest, head[j]) # {}
       PROVE  /\ NameAfter(rest, head[j]) = {at[j]} /\ params[j][Len(params[j])].counted
              /\ \A l \in 2 .. Len(params[j]) : params[j][l] # Letter("P")
  <2> DEFINE p == params[j]
             a == at[j - 1]
  <2>1. /\ p \in Seq(S) /\ a \in Nat /\ SpellsOne(p) /\ p[1] = Letter("P")
        /\ \A l \in 1 .. Len(p) : a + l \in DOMAIN rest /\ rest[a + l] = p[l]
        /\ head[j] = a + 1 /\ at[j] = a + Len(p)
    BY <1>2, <1>4, <1>6, <1>9 DEF n
  <2> HIDE DEF p, a
  <2>2. NameAfter(rest, a + 1) # {}
    BY <1>11, <2>1
  <2>3. NameAfter(rest, a + 1) = {a + Len(p)} /\ p[Len(p)].counted
        /\ \A l \in 2 .. Len(p) : p[l] # Letter("P")
    BY <1>3, <2>1, <2>2, NameOfPointer
  <2>4. QED
    BY <2>1, <2>3 DEF p
<1>12. ASSUME NEW i \in R
       PROVE  \E j \in K : i = head[j]
  <2>1. i \in Ptrs /\ i \in DOMAIN rest /\ rest[i] = Letter("P")
    BY <1>12 DEF Pointers
  <2>2. PICK j \in 1 .. n : \E l \in 1 .. Len(params[j]) : i = at[j - 1] + l
    BY <1>4, <2>1
  <2>3. PICK l \in 1 .. Len(params[j]) : i = at[j - 1] + l
    BY <2>2
  <2>4. params[j][l] = Letter("P")
    BY <1>4, <2>1, <2>3
  <2>5. params[j][1] = Letter("P")
    <3> DEFINE p == params[j]
    <3>1. SpellsOne(p) /\ p \in Seq(S) /\ l \in 1 .. Len(p) /\ p[l] = Letter("P")
      BY <1>2, <2>3, <2>4 DEF n
    <3> HIDE DEF p
    <3>2. l \in DOMAIN p
      BY <3>1
    <3>3. p[1] = Letter("P")
      BY <3>1, <3>2 DEF SpellsOne
    <3>4. QED
      BY <3>3 DEF p
  <2>6. j \in K
    BY <1>9, <2>5
  <2>7. head[j] = at[j - 1] + 1 /\ at[j - 1] \in Nat /\ Len(params[j]) \in Nat
    BY <1>2, <1>6, <1>9
  <2>8. head[j] <= i
    BY <2>3, <2>7
  <2>9. head[j] \in Ptrs
    BY <1>10, <2>6
  <2>10. NameAfter(rest, head[j]) # {}
    BY <1>12, <2>8, <2>9
  <2>11. l = 1
    <3>1. \A m \in 2 .. Len(params[j]) : params[j][m] # Letter("P")
      BY <1>11, <2>6, <2>10
    <3>2. l \notin 2 .. Len(params[j])
      BY <2>4, <3>1
    <3>3. QED
      BY <2>3, <2>7, <3>2
  <2>12. QED
    BY <2>3, <2>6, <2>7, <2>11
<1>13. \A j \in K : \A i \in R : head[j] <= i => head[j] \in R
  <2> SUFFICES ASSUME NEW j \in K, NEW i \in R, head[j] <= i PROVE head[j] \in R
    OBVIOUS
  <2>1. head[j] \in Ptrs /\ i \in Ptrs
    BY <1>10
  <2>2. \A m \in Ptrs : m \in Int
    BY <1>4 DEF Pointers
  <2>3. \A m \in Ptrs : m <= head[j] => m <= i
    BY <2>1, <2>2
  <2> HIDE DEF Ptrs
  <2>4. QED
    BY <2>1, <2>3
<1>14. PtrViews(text) = Selection(names, R)
  BY DEF PtrViews, rest
<1>15. c \in 1 .. Cardinality(R) /\ PtrViews(text)[c] = names[Nth(R, Position(names), c)]
  <2> HIDE DEF R, names
  <2>1. QED
    BY <1>14 DEF Selection, Listing
<1>16. Position(names) = Position(rest)
  BY DEF Position
<1>17. k \in K /\ k \in 1 .. n /\ c = Cardinality(Till(K, k))
  BY <1>9 DEF K
<1>18. head[k] \in R /\ Nth(R, Position(rest), c) = head[k]
  <2> DEFINE Q == Position(rest)
  <2>1. R \in SUBSET DOMAIN rest
    BY DEF Pointers
  <2>2. IsFiniteSet(R)
    BY <1>3, <2>1, IndicesAreFinite
  <2>3. \A i, j \in R : <<i, j>> \in Q <=> i < j
    BY <2>1 DEF Position
  <2> HIDE DEF Q, R
  <2>4. n \in Nat /\ c \in 1 .. Cardinality(R) /\ \A j \in 1 .. n : head[j] \in Nat
    BY <1>2, <1>6, <1>15
  <2>5. K \in SUBSET (1 .. n) /\ k \in K /\ c = Cardinality(Till(K, k))
    BY <1>9, <1>17
  <2> HIDE DEF names, Ptrs
  <2>6. ReadUpTo(n, K, head, R, Q)
    BY <1>7, <1>12, <1>13, <2>2, <2>3, <2>4, <2>5 DEF ReadUpTo
  <2>7. head[k] \in R /\ Nth(R, Q, c) = head[k]
    BY <2>4, <2>5, <2>6, ReadInOrder
  <2>8. QED
    BY <2>7 DEF Q
<1>19. head[k] \in Ptrs /\ NameAfter(rest, head[k]) # {} /\ head[k] \in Nat
  <2>1. head[k] \in Ptrs /\ head[k] \in Nat
    BY <1>6, <1>17, <1>18
  <2>2. head[k] <= head[k]
    BY <2>1
  <2>3. QED
    BY <1>18, <2>1, <2>2
<1> HIDE DEF R
<1>20. PtrViews(text)[c] = rest[First({at[k]})].of
  <2>1. NameAfter(rest, head[k]) = {at[k]} /\ head[k] \in DOMAIN rest
    BY <1>8, <1>11, <1>17, <1>19
  <2>2. names[head[k]] = rest[First({at[k]})].of
    BY <2>1
  <2> HIDE DEF names
  <2>3. QED
    BY <1>15, <1>16, <1>18, <2>2
<1>21. First({at[k]}) = at[k]
  <2>1. at[k] \in Nat /\ at[k] <= at[k]
    BY <1>2, <1>4, <1>17
  <2>2. QED
    BY <2>1 DEF First
<1> DEFINE p == params[k]
<1>22. /\ at[k] = at[k - 1] + Len(p) /\ Len(p) \in 1 .. Len(p) /\ p[Len(p)].counted
       /\ rest[at[k - 1] + Len(p)] = p[Len(p)]
  <2>1. Len(p) \in 1 .. Len(p) /\ at[k] = at[k - 1] + Len(p)
    BY <1>2, <1>4, <1>17
  <2>2. rest[at[k - 1] + Len(p)] = p[Len(p)]
    BY <1>4, <1>17, <2>1
  <2>3. p[Len(p)].counted
    BY <1>11, <1>17, <1>19
  <2>4. QED
    BY <2>1, <2>2, <2>3
<1> HIDE DEF p
<1>23. ClassOf(p) = p[Len(p)].of
  BY <1>22 DEF ClassOf, Last
<1>24. rest[at[k]] = p[Len(p)]
  BY <1>22
<1>25. QED
  BY <1>20, <1>21, <1>23, <1>24 DEF p

(* So an argument keeps its view or takes that of its own parameter.       *)
LEMMA ViewsAreOwn ==
    ASSUME NEW r, IsRecord(r), NEW fn, fn.mangled \in DOMAIN Symbol, IsList(fn.args),
           \A a \in ToSet(fn.args) : a = [name |-> a.name, kind |-> a.kind, view |-> a.view],
           SpelledBy(fn), r.args = fn.args, r.mangled = fn.mangled
    PROVE  \A k \in DOMAIN Params(fn) :
              FixArgViews(r).args[k].view \in {fn.args[k].view, ClassOf(Params(fn)[k])}
<1> DEFINE params == Params(fn)
           text == Symbol[fn.mangled].text
           views == PtrViews(text)
           place(i) == Cardinality({j \in 1 .. i : fn.args[j].kind = "ptr"})
           args == [i \in DOMAIN fn.args |->
            IF /\ fn.args[i].kind = "ptr" /\ place(i) \in DOMAIN views
               /\ fn.args[i].view \in BadViews \cup {None}
            THEN [fn.args[i] EXCEPT !.view = views[place(i)]]
            ELSE fn.args[i]]
           S == [counted : BOOLEAN, of : STRING]
<1>0. NameViews[fn.mangled] = views
  BY DEF NameViews
<1>1. FixArgViews(r) = [r EXCEPT !.args = args]
  BY <1>0 DEF FixArgViews
<1> HIDE DEF args
<1>2. FixArgViews(r).args = args
  BY <1>1 DEF IsRecord
<1>3. params \in Seq(Seq(S))
  BY SymbolsAreNames DEF Params
<1> HIDE DEF S
<1>4. /\ AfterName(text) = FlattenSeq(params) /\ Len(fn.args) = Len(params)
      /\ \A k \in DOMAIN params : SpellsOne(params[k])
      /\ \A k \in DOMAIN params : fn.args[k].kind = "ptr" <=> params[k][1] = Letter("P")
  BY DEF SpelledBy
<1> HIDE DEF params, text
<1>5. DOMAIN params = 1 .. Len(params) /\ DOMAIN fn.args = 1 .. Len(params) /\ Len(params) \in Nat
  <2>1. DOMAIN params = 1 .. Len(params) /\ Len(params) \in Nat
    BY <1>3
  <2>2. QED
    BY <1>4, <2>1 DEF IsList
<1>6. ASSUME NEW k \in DOMAIN params
      PROVE  args[k].view \in {fn.args[k].view, ClassOf(params[k])}
  <2> DEFINE a == fn.args[k]
             c == place(k)
  <2>1. a = [name |-> a.name, kind |-> a.kind, view |-> a.view]
    BY <1>5 DEF ToSet
  <2>2. \/ args[k] = a
        \/ a.kind = "ptr" /\ c \in DOMAIN views /\ args[k] = [a EXCEPT !.view = views[c]]
    BY <1>5 DEF args
  <2>3. c = Cardinality(Till(PointersOf(params), k))
    <3>1. \A j \in 1 .. k : j \in DOMAIN params
      BY <1>5
    <3>2. {j \in 1 .. k : fn.args[j].kind = "ptr"} = Till(PointersOf(params), k)
      BY <1>4, <3>1 DEF Till, PointersOf
    <3>3. QED
      BY <3>2
  <2> HIDE DEF c
  <2>4. \A j \in 1 .. Len(params) : SpellsOne(params[j])
    BY <1>4, <1>5
  <2>5. a.kind = "ptr" /\ c \in DOMAIN views => views[c] = ClassOf(params[k])
    <3>1. a.kind = "ptr" => k \in PointersOf(params)
      BY <1>4 DEF PointersOf
    <3> HIDE DEF a
    <3>2. QED
      BY <1>3, <1>4, <2>3, <2>4, <3>1, ViewsCount
  <2> HIDE DEF a, views
  <2>6. [a EXCEPT !.view = views[c]].view = views[c]
    BY <2>1
  <2>7. QED
    BY <2>2, <2>5, <2>6 DEF a
<1>7. QED
  BY <1>2, <1>6 DEF params

(* What the loop makes of a function: it has the address of the entry that *)
(* is used, the exact one where there is one, goes by the function's name  *)
(* or one of that address, and keeps what the headers say.                 *)
Declared(fn) ==
    /\ fn.loc # None /\ fn.mangled \in DOMAIN Symbol
    /\ IsList(fn.args)
    /\ \A a \in ToSet(fn.args) : a = [name |-> a.name, kind |-> a.kind, view |-> a.view]
    /\ fn.self_view # None => fn.member
    /\ fn.self_norm # None => fn.self_class # None
NamesAt(rvas, rva) == {rvas[i].name : i \in {j \in DOMAIN rvas : rvas[j].rva = rva}}
MergedWell(rvas, fn, m) ==
    /\ m.rva = m.record.rva /\ m.record.loc = fn.loc /\ IsRecord(m.record)
    /\ m.record.mangled \in {fn.mangled} \cup NamesAt(rvas, m.rva)
    /\ \A i \in DOMAIN rvas : rvas[i].name = fn.mangled =>
          m.rva = rvas[i].rva /\ (Symbol[fn.mangled].mangled => m.record.mangled = fn.mangled)
    /\ Stands(fn, m.record) /\ TakesOwnViews(fn, m.record)

LEMMA MergeOneIsRight ==
    ASSUME NEW rvas, RvaTable(rvas), NEW sigs, NEW works, NEW fn, Declared(fn)
    PROVE  MergedWell(rvas, fn, MergeOne(works, rvas, sigs, fn))
<1> DEFINE match == MatchOf(works, rvas, fn)
           self == SelfEntry(works, rvas, fn)
           used == IF match = 0 THEN self ELSE match
           rva == IF used = 0 THEN None ELSE rvas[used].rva
           r == [flat |-> fn.flat, mangled |-> fn.mangled, rva |-> rva, loc |-> fn.loc,
              ret |-> fn.ret,
              member |-> fn.member \/ self # 0,
              self_view |-> IF self # 0 THEN fn.self_class ELSE fn.self_view,
              args |-> IF self # 0 THEN Tail(fn.args) ELSE fn.args]
           sig == SignatureFor(sigs, IF used = 0 THEN fn.mangled ELSE rvas[used].name, rva)
           signed == ApplySignature(r, sig, TRUE)
           name == CASE used = 0 -> fn.mangled
                  [] used # 0 /\ Symbol[rvas[used].name].mangled -> rvas[used].name
                  [] used # 0 /\ ~Symbol[rvas[used].name].mangled
                        /\ MangledAt(rvas, rva) # None -> MangledAt(rvas, rva)
                  [] OTHER -> fn.mangled
           named == [signed EXCEPT !.mangled = name]
           m == MergeOne(works, rvas, sigs, fn)
<1>1. m = [record |-> FixArgViews(named), rva |-> rva]
  BY DEF MergeOne
<1>2. IsList(rvas) /\ \A i \in DOMAIN rvas : i # 0
  BY DEF RvaTable, IsList
<1>3. /\ match \in DOMAIN rvas \cup {0}
      /\ \A i \in DOMAIN rvas : rvas[i].name = fn.mangled => match = i
  <2> DEFINE e == Entry(rvas, fn.mangled)
  <2>1. /\ e # 0 => e \in DOMAIN rvas /\ rvas[e].name = fn.mangled
        /\ \A i \in DOMAIN rvas : rvas[i].name = fn.mangled => e # 0
    BY <1>2, EntryFinds
  <2>2. CleanEntry(works, rvas, Norm(works, fn.mangled)) \in DOMAIN rvas \cup {0}
    BY <1>2, CleanEntryFinds
  <2>3. match = IF e # 0 THEN e ELSE CleanEntry(works, rvas, Norm(works, fn.mangled))
    BY DEF MatchOf
  <2> HIDE DEF e, match
  <2>4. QED
    BY <2>1, <2>2, <2>3 DEF RvaTable, EachNameOnce
<1>4. /\ self \in DOMAIN rvas \cup {0}
      /\ self # 0 => ~fn.member /\ fn.args # <<>> /\ fn.self_norm # None
  BY <1>2, CleanEntryFinds DEF SelfEntry
<1> HIDE DEF match, self
<1>5. used \in DOMAIN rvas \cup {0} /\ (match # 0 => used = match)
  BY <1>3, <1>4
<1>6. name \in {fn.mangled} \cup NamesAt(rvas, rva)
  <2>1. MangledAt(rvas, rva) # None => MangledAt(rvas, rva) \in NamesAt(rvas, rva)
    BY <1>2, MangledAtFinds DEF NamesAt
  <2>2. used # 0 => rvas[used].name \in NamesAt(rvas, rva)
    BY <1>5 DEF NamesAt
  <2> HIDE DEF used, rva
  <2>3. QED
    BY <2>1, <2>2
<1>7. \A i \in DOMAIN rvas : rvas[i].name = fn.mangled =>
         rva = rvas[i].rva /\ (Symbol[fn.mangled].mangled => name = fn.mangled)
  BY <1>2, <1>3, <1>5
<1>8. IsRecord(r)
  BY DEF IsRecord
<1>9. /\ r.rva = rva /\ r.loc = fn.loc /\ r.ret = fn.ret /\ r.member = (fn.member \/ self # 0)
      /\ r.self_view = IF self # 0 THEN fn.self_class ELSE fn.self_view
      /\ r.args = IF self # 0 THEN Tail(fn.args) ELSE fn.args
  OBVIOUS
<1> HIDE DEF r, sig, name, rva, used
<1>10. /\ SignatureKeeps(r, signed)
       /\ signed.member = r.member /\ (r.self_view # None => signed.self_view = r.self_view)
  BY <1>8, ApplySignatureKeeps
<1> HIDE DEF signed
<1>11. /\ IsRecord(named) /\ named.mangled = name
       /\ named.rva = r.rva /\ named.loc = r.loc
       /\ named.ret = signed.ret /\ named.args = signed.args
       /\ named.member = signed.member /\ named.self_view = signed.self_view
  BY <1>10 DEF IsRecord, SignatureKeeps
<1> HIDE DEF named
<1> DEFINE f == FixArgViews(named)
<1>12. /\ IsRecord(f)
       /\ f.mangled = name /\ f.rva = rva /\ f.loc = fn.loc
       /\ f.ret = signed.ret /\ f.member = signed.member /\ f.self_view = signed.self_view
       /\ IsList(named.args) /\ (\A a \in ToSet(named.args) :
                                    a = [name |-> a.name, kind |-> a.kind, view |-> a.view])
            => SameArgs(f.args, named.args)
  BY <1>9, <1>11, FixArgViewsKeeps
<1> HIDE DEF f
<1>13. Stands(fn, f)
  <2>1. fn.ret.text # "ptr" => f.ret = fn.ret
    BY <1>9, <1>10, <1>12 DEF SignatureKeeps
  <2>2. fn.self_view # None => f.self_view = fn.self_view
    BY <1>4, <1>9, <1>10, <1>12 DEF Declared
  <2>3. fn.member => f.member
    BY <1>9, <1>10, <1>12
  <2>4. \/ fn.args = <<>> \/ SameArgs(f.args, fn.args)
        \/ ~fn.member /\ f.self_view = fn.self_class
            /\ (Len(fn.args) = 1 \/ SameArgs(f.args, Tail(fn.args)))
    <3>1. CASE self = 0
      <4>1. CASE fn.args # <<>>
        BY <1>9, <1>10, <1>11, <1>12, <3>1, <4>1 DEF Declared, SignatureKeeps
      <4>2. QED
        BY <4>1
    <3>2. CASE self # 0
      <4>1. ~fn.member /\ fn.self_class # None /\ fn.args # <<>>
        BY <1>4, <3>2 DEF Declared
      <4>2. f.self_view = fn.self_class
        BY <1>9, <1>10, <1>12, <3>2, <4>1
      <4>3. CASE Len(fn.args) # 1
        <5> DEFINE t == Tail(fn.args)
                   A == {fn.args[k] : k \in DOMAIN fn.args}
        <5>1. fn.args \in Seq(A) /\ \A a \in A : a = [name |-> a.name, kind |-> a.kind, view |-> a.view]
          BY DEF Declared, IsList, ToSet
        <5> HIDE DEF A
        <5>2. t \in Seq(A) /\ t # <<>>
          <6>1. Len(fn.args) \in Nat /\ Len(fn.args) # 0
            BY <4>1, <5>1
          <6>2. t \in Seq(A) /\ Len(t) = Len(fn.args) - 1
            BY <4>1, <5>1
          <6> HIDE DEF t
          <6>3. Len(t) # 0
            BY <4>3, <6>1, <6>2
          <6>4. t = <<>> => Len(t) = 0
            OBVIOUS
          <6>5. QED
            BY <6>2, <6>3, <6>4
        <5> HIDE DEF t
        <5>3. IsList(t) /\ \A a \in ToSet(t) : a = [name |-> a.name, kind |-> a.kind, view |-> a.view]
          BY <5>1, <5>2 DEF IsList, ToSet
        <5>4. named.args = t
          BY <1>9, <1>10, <1>11, <3>2, <5>2 DEF t, SignatureKeeps
        <5>5. SameArgs(f.args, t)
          BY <1>12, <5>3, <5>4
        <5>6. QED
          BY <4>1, <4>2, <5>5 DEF t
      <4>4. QED
        BY <4>1, <4>2, <4>3
    <3>3. QED
      BY <3>1, <3>2
  <2>5. QED
    BY <2>1, <2>2, <2>3, <2>4 DEF Stands
<1>14. m.record = f /\ m.rva = rva
  BY <1>1 DEF f
<1> HIDE DEF m
<1>15. TakesOwnViews(fn, f)
  <2> SUFFICES ASSUME SpelledBy(fn), f.mangled = fn.mangled, f.member = fn.member
               PROVE  \A k \in DOMAIN Params(fn) :
                         f.args[k].view \in {fn.args[k].view, ClassOf(Params(fn)[k])}
    BY DEF TakesOwnViews
  <2>1. self = 0
    BY <1>4, <1>9, <1>10, <1>12
  <2>2. Len(fn.args) = 0 => DOMAIN Params(fn) = {}
    <3> DEFINE params == Params(fn)
               S == [counted : BOOLEAN, of : STRING]
    <3>1. params \in Seq(Seq(S))
      BY SymbolsAreNames DEF Params, Declared
    <3> HIDE DEF S
    <3>2. Len(fn.args) = Len(params)
      BY DEF SpelledBy
    <3> HIDE DEF params
    <3>3. DOMAIN params = 1 .. Len(params)
      BY <3>1
    <3>4. QED
      BY <3>2, <3>3 DEF params
  <2>3. CASE fn.args # <<>>
    <3>1. named.args = fn.args /\ named.mangled = fn.mangled
      BY <1>9, <1>10, <1>11, <1>12, <2>1, <2>3 DEF SignatureKeeps
    <3>2. QED
      BY <1>11, <3>1, ViewsAreOwn DEF Declared, f
  <2>4. CASE fn.args = <<>>
    BY <2>2, <2>4
  <2>5. QED
    BY <2>3, <2>4
<1>16. QED
  BY <1>6, <1>7, <1>12, <1>13, <1>14, <1>15 DEF MergedWell, m

-----------------------------------------------------------------------------
(* Flat names, exclusion and the sort                                      *)

Ranked(records) ==
    /\ IsList(records)
    /\ \A i \in DOMAIN records :
          Rank[records[i].flat] \in Int /\ Rank[records[i].mangled] \in Int

LEMMA FlatOrderIsTotal ==
    ASSUME NEW records, Ranked(records)
    PROVE  /\ StrictTotalOrder(FlatOrder(records), DOMAIN records)
           /\ \A i, j \in DOMAIN records :
                 <<i, j>> \in FlatOrder(records) => ~Precedes(records[j], records[i])
<1> DEFINE a(i) == Rank[records[i].flat]
           b(i) == Rank[records[i].mangled]
           Before(i, j) == a(i) < a(j) \/ (a(i) = a(j) /\ b(i) < b(j))
           D == DOMAIN records
           R == FlatOrder(records)
<1>1. \A i \in D : a(i) \in Int /\ b(i) \in Int
  BY DEF Ranked
<1>2. \A i \in D : i \in Int
  BY DEF Ranked, IsList
<1>3. \A i, j \in D : Precedes(records[i], records[j]) <=> Before(i, j)
  BY DEF Precedes
<1>4. \A i, j \in D : <<i, j>> \in R <=> Before(i, j) \/ (~Before(j, i) /\ i < j)
  BY <1>3 DEF FlatOrder
<1> HIDE DEF a, b, D, R
<1>5. /\ \A i \in D : <<i, i>> \notin R
      /\ \A i, j \in D : i = j \/ <<i, j>> \in R \/ <<j, i>> \in R
      /\ \A i, j \in D : <<i, j>> \in R => ~Before(j, i)
  BY <1>1, <1>2, <1>4
<1>6. ASSUME NEW i \in D, NEW j \in D, NEW k \in D, <<i, j>> \in R, <<j, k>> \in R
      PROVE  <<i, k>> \in R
  <2>1. Before(i, j) \/ (~Before(j, i) /\ i < j)
    BY <1>4, <1>6
  <2>2. Before(j, k) \/ (~Before(k, j) /\ j < k)
    BY <1>4, <1>6
  <2>3. Before(i, k) \/ (~Before(k, i) /\ i < k)
    BY <1>1, <1>2, <2>1, <2>2
  <2>4. QED
    BY <1>4, <2>3
<1> HIDE DEF Before
<1>7. QED
  BY <1>3, <1>5, <1>6 DEF StrictTotalOrder, D, R

(* The list F is made of the records of M that are not excluded, each once *)
(* and under the flat name of its mangled one.                             *)
ComesFrom(works, F, M, from) ==
    /\ from \in [DOMAIN F -> DOMAIN M]
    /\ \A k \in DOMAIN F : /\ FlatName(works, M[from[k]].mangled) \notin Excluded
                           /\ F[k] = [M[from[k]] EXCEPT !.flat = FlatName(works, M[from[k]].mangled)]
    /\ \A i \in DOMAIN M : FlatName(works, M[i].mangled) \notin Excluded =>
          \E k \in DOMAIN F : from[k] = i
    /\ \A k, l \in DOMAIN F : from[k] = from[l] => k = l
Sorted(F) == \A i \in 1 .. Len(F) - 1 : ~Precedes(F[i + 1], F[i])

LEMMA OutputIsMerged ==
    ASSUME NEW works, NEW M, IsList(M),
           \A i \in DOMAIN M : IsRecord(M[i]) /\ M[i].mangled \in DOMAIN Symbol
    PROVE  /\ IsList(SortRecords(ApplyFlatNames(works, M)))
           /\ Sorted(SortRecords(ApplyFlatNames(works, M)))
           /\ \E from : ComesFrom(works, SortRecords(ApplyFlatNames(works, M)), M, from)
<1> DEFINE named == [i \in DOMAIN M |-> [M[i] EXCEPT !.flat = FlatName(works, M[i].mangled)]]
           K == {i \in DOMAIN named : named[i].flat \notin Excluded}
           N == ApplyFlatNames(works, M)
           R == FlatOrder(N)
           F == SortRecords(N)
           n == Cardinality(DOMAIN N)
<1>1. N = Selection(named, K)
  BY DEF ApplyFlatNames
<1>2. /\ DOMAIN named = DOMAIN M
      /\ \A i \in DOMAIN M : /\ named[i] = [M[i] EXCEPT !.flat = FlatName(works, M[i].mangled)]
                             /\ named[i].flat = FlatName(works, M[i].mangled)
                             /\ named[i].mangled = M[i].mangled
  BY DEF IsRecord
<1>3. /\ K \in SUBSET DOMAIN M
      /\ \A i \in DOMAIN M : i \in K <=> FlatName(works, M[i].mangled) \notin Excluded
  BY <1>2
<1>4. IsList(named)
  <2>1. DOMAIN named = 1 .. Len(M) /\ Len(M) \in Nat
    BY DEF IsList
  <2>2. named \in Seq({named[i] : i \in DOMAIN named})
    BY <2>1
  <2>3. QED
    BY <2>2 DEF IsList
<1> HIDE DEF named, K, N, F
<1>5. /\ IsList(N) /\ \A k \in DOMAIN N : \E i \in K : N[k] = named[i]
  BY <1>1, <1>2, <1>3, <1>4, SelectionSelects, SelectionElements DEF IsList
<1>6. PICK pick : GoesThrough(pick, named, K)
  BY <1>2, <1>3, <1>4, SelectionFollows DEF IsList
<1>7. DOMAIN N = 1 .. Cardinality(K)
  BY <1>1, <1>2, <1>3, <1>4, SelectionFollows DEF IsList
<1>8. /\ \A k \in DOMAIN N : pick[k] \in K /\ N[k] = named[pick[k]]
      /\ \A i \in K : \E k \in DOMAIN N : pick[k] = i
  BY <1>1, <1>6, <1>7 DEF GoesThrough
<1>9. \A k, l \in DOMAIN N : pick[k] = pick[l] => k = l
  <2>1. \A i \in K : i \in Int
    BY <1>3 DEF IsList
  <2>2. \A k \in DOMAIN N : k \in Int
    BY <1>7
  <2>3. \A k, l \in DOMAIN N : k < l => pick[k] < pick[l]
    BY <1>6, <1>7 DEF GoesThrough
  <2>4. QED
    BY <1>8, <2>1, <2>2, <2>3
<1>10. Ranked(N)
  <2>1. \A k \in DOMAIN Rank : Rank[k] \in Int
    BY TextIsOrdered
  <2>2. \A i \in DOMAIN M : Rank[named[i].flat] \in Int /\ Rank[named[i].mangled] \in Int
    BY <1>2, <2>1, SymbolsAreNames DEF FlatName
  <2>3. QED
    BY <1>3, <1>5, <2>2 DEF Ranked
<1>11. /\ StrictTotalOrder(R, DOMAIN N)
       /\ \A i, j \in DOMAIN N : <<i, j>> \in R => ~Precedes(N[j], N[i])
  BY <1>10, FlatOrderIsTotal
<1>12. F = Listing(N, DOMAIN N, R)
  BY DEF F, SortRecords
<1> HIDE DEF R
<1>13. IsFiniteSet(DOMAIN N) /\ n \in Nat
  BY <1>5, IndicesAreFinite DEF IsList
<1>14. /\ IsList(F) /\ DOMAIN F = 1 .. n
       /\ \A k \in 1 .. n : Nth(DOMAIN N, R, k) \in DOMAIN N /\ F[k] = N[Nth(DOMAIN N, R, k)]
  <2> DEFINE S == {N[i] : i \in DOMAIN N}
  <2>1. N \in Seq(S)
    BY <1>5 DEF IsList
  <2> HIDE DEF S
  <2>2. /\ F \in Seq(S) /\ DOMAIN F = 1 .. n
        /\ \A k \in 1 .. n : Nth(DOMAIN N, R, k) \in DOMAIN N /\ F[k] = N[Nth(DOMAIN N, R, k)]
    BY <1>11, <1>12, <2>1, ListingSelects
  <2>3. IsList(F)
    BY <2>2, SequencesAreLists
  <2>4. QED
    BY <2>2, <2>3
<1> DEFINE at == [k \in 1 .. n |-> Nth(DOMAIN N, R, k)]
           from == [k \in 1 .. n |-> pick[at[k]]]
<1>15. /\ \A k, l \in 1 .. n : k < l => at[k] # at[l] /\ <<at[k], at[l]>> \in R
       /\ \A i \in DOMAIN N : \E k \in 1 .. n : at[k] = i
       /\ \A k \in 1 .. n : at[k] \in DOMAIN N /\ F[k] = N[at[k]]
  BY <1>11, <1>13, <1>14, NthFollowsOrder, NthIsOnto
<1> HIDE DEF at, n
<1>16. Sorted(F)
  <2>1. Len(F) = n
    BY <1>13, <1>14 DEF IsList
  <2>2. ASSUME NEW i \in 1 .. n - 1 PROVE ~Precedes(F[i + 1], F[i])
    <3>1. i \in 1 .. n /\ i + 1 \in 1 .. n /\ i < i + 1
      BY <1>13
    <3> DEFINE j == i + 1
    <3> HIDE DEF j
    <3>2. i \in 1 .. n /\ j \in 1 .. n /\ i < j
      BY <3>1 DEF j
    <3>3. ~Precedes(F[j], F[i])
      BY <1>11, <1>15, <3>2
    <3>4. QED
      BY <3>3 DEF j
  <2>3. QED
    BY <2>1, <2>2 DEF Sorted
<1>17. ComesFrom(works, F, M, from)
  <2>1. \A k \in 1 .. n : from[k] \in K /\ F[k] = named[from[k]]
    BY <1>8, <1>15
  <2>2. \A i \in K : \E k \in 1 .. n : from[k] = i
    BY <1>8, <1>15
  <2>3. \A k, l \in 1 .. n : from[k] = from[l] => k = l
    <3> SUFFICES ASSUME NEW k \in 1 .. n, NEW l \in 1 .. n, from[k] = from[l]
                 PROVE  k = l
      OBVIOUS
    <3>1. from[k] = pick[at[k]] /\ from[l] = pick[at[l]]
      OBVIOUS
    <3>2. at[k] \in DOMAIN N /\ at[l] \in DOMAIN N
      BY <1>15
    <3>3. at[k] = at[l]
      BY <1>9, <3>1, <3>2
    <3>4. k \in Int /\ l \in Int
      BY <1>13
    <3>5. ~(k < l) /\ ~(l < k)
      BY <1>15, <3>3
    <3>6. QED
      BY <3>4, <3>5
  <2>4. from \in [DOMAIN F -> DOMAIN M]
    BY <1>3, <1>14, <2>1
  <2> HIDE DEF from
  <2>5. \A k \in DOMAIN F : /\ FlatName(works, M[from[k]].mangled) \notin Excluded
                            /\ F[k] = [M[from[k]] EXCEPT !.flat = FlatName(works, M[from[k]].mangled)]
    BY <1>2, <1>3, <1>14, <2>1
  <2>6. QED
    BY <1>3, <1>14, <2>2, <2>3, <2>4, <2>5 DEF ComesFrom
<1>18. QED
  BY <1>14, <1>16, <1>17 DEF F, N

-----------------------------------------------------------------------------
(* Stubs, and the merge as a whole                                         *)

LEMMA StubNameIsWarm ==
    ASSUME NEW rvas, RvaTable(rvas), NEW rva
    PROVE  /\ StubName(rvas, rva) # None => StubName(rvas, rva) \in NamesAt(rvas, rva)
           /\ \A i \in DOMAIN rvas : rvas[i].rva = rva /\ ~Symbol[rvas[i].name].cold
                => StubName(rvas, rva) # None
<1> DEFINE warm == {i \in DOMAIN rvas : rvas[i].rva = rva /\ ~Symbol[rvas[i].name].cold}
           scoped == {i \in warm : Symbol[rvas[i].name].scoped}
           classy == {i \in warm : Symbol[rvas[i].name].c}
           best == IF scoped # {} THEN scoped ELSE IF classy # {} THEN classy ELSE warm
<1>1. StubName(rvas, rva) = IF warm = {} THEN None ELSE rvas[First(best)].name
  BY DEF StubName
<1>2. best \in SUBSET warm /\ warm \in SUBSET DOMAIN rvas /\ (warm # {} => best # {})
  OBVIOUS
<1>3. ASSUME NEW i \in warm PROVE rvas[i].name \in NamesAt(rvas, rva) /\ rvas[i].name # None
  BY <1>3, SymbolsAreNames DEF NamesAt, RvaTable
<1>4. \A i \in DOMAIN rvas : rvas[i].rva = rva /\ ~Symbol[rvas[i].name].cold => i \in warm
  OBVIOUS
<1> HIDE DEF warm, best
<1>5. warm # {} => First(best) \in best
  BY <1>2, FirstIsLeast DEF RvaTable, IsList
<1>6. warm # {} => First(best) \in warm
  BY <1>2, <1>5
<1>7. QED
  BY <1>1, <1>3, <1>4, <1>6

StubAt(name, rva, r) == IsRecord(r) /\ r.mangled = name /\ r.rva = rva /\ r.loc = None

LEMMA StubIsRecord ==
    ASSUME NEW sigs, NEW name, NEW rva
    PROVE  StubAt(name, rva, StubRecord(sigs, name, rva))
<1> DEFINE r == [flat |-> name, mangled |-> name, rva |-> rva, loc |-> None,
                 ret |-> [text |-> "ptr", of |-> None], member |-> FALSE, self_view |-> None,
                 args |-> <<>>]
           sig == SignatureFor(sigs, name, rva)
           s == ApplySignature(r, sig, FALSE)
<1>1. s = StubRecord(sigs, name, rva)
  BY DEF StubRecord
<1>2. IsRecord(r) /\ r.mangled = name /\ r.rva = rva /\ r.loc = None
  BY DEF IsRecord
<1> HIDE DEF r, sig
<1>3. SignatureKeeps(r, s)
  BY <1>2, ApplySignatureKeeps
<1> HIDE DEF s
<1>4. QED
  BY <1>1, <1>2, <1>3 DEF SignatureKeeps, StubAt

(* Each address that no function has used has one stub.                    *)
StubsFill(rvas, consumed, T) ==
    /\ IsList(T)
    /\ \A k \in DOMAIN T : /\ IsRecord(T[k]) /\ T[k].loc = None /\ T[k].rva \notin consumed
                           /\ T[k].mangled \in NamesAt(rvas, T[k].rva)
    /\ \A k, l \in DOMAIN T : T[k].rva = T[l].rva => k = l
    /\ \A i \in DOMAIN rvas : ~Symbol[rvas[i].name].cold =>
          rvas[i].rva \in consumed \/ \E k \in DOMAIN T : T[k].rva = rvas[i].rva

LEMMA StubsAreRight ==
    ASSUME NEW rvas, RvaTable(rvas), NEW sigs, NEW consumed
    PROVE  StubsFill(rvas, consumed, Stubs(rvas, sigs, consumed))
<1> DEFINE at == RvasOf(rvas)
           K == {i \in Firsts(at) : rvas[i].rva \notin consumed /\ StubName(rvas, rvas[i].rva) # None}
           left == Selection(rvas, K)
           T == Stubs(rvas, sigs, consumed)
<1>1. T = [i \in DOMAIN left |-> StubRecord(sigs, StubName(rvas, left[i].rva), left[i].rva)]
  BY DEF Stubs
<1>2. at \in Seq({at[i] : i \in DOMAIN at}) /\ DOMAIN at = DOMAIN rvas
      /\ \A i \in DOMAIN rvas : at[i] = rvas[i].rva
  BY DEF RvasOf, RvaTable, IsList
<1> HIDE DEF at, T
<1>3. /\ Firsts(at) \in SUBSET DOMAIN rvas
      /\ \A i \in DOMAIN rvas : \E j \in Firsts(at) : rvas[j].rva = rvas[i].rva
      /\ \A i, j \in Firsts(at) : rvas[i].rva = rvas[j].rva => i = j
  <2>1. /\ Firsts(at) \in SUBSET DOMAIN at
        /\ \A i \in DOMAIN at : \E j \in Firsts(at) : at[j] = at[i] /\ j <= i
        /\ \A i, j \in Firsts(at) : at[i] = at[j] => i = j
    BY <1>2, FirstsCoverAll
  <2>2. QED
    BY <1>2, <2>1
<1>4. /\ K \in SUBSET DOMAIN rvas
      /\ \A i \in K : rvas[i].rva \notin consumed /\ StubName(rvas, rvas[i].rva) # None
      /\ \A i, j \in K : rvas[i].rva = rvas[j].rva => i = j
      /\ \A i \in DOMAIN rvas : StubName(rvas, rvas[i].rva) # None =>
            rvas[i].rva \in consumed \/ \E j \in K : rvas[j].rva = rvas[i].rva
  BY <1>3
<1> HIDE DEF K
<1>5. DOMAIN left = 1 .. Cardinality(K) /\ \E pick : GoesThrough(pick, rvas, K)
  BY <1>4, SelectionFollows DEF RvaTable, IsList
<1>6. PICK pick : GoesThrough(pick, rvas, K)
  BY <1>5
<1>7. /\ \A k \in DOMAIN left : pick[k] \in K /\ left[k] = rvas[pick[k]]
      /\ \A i \in K : \E k \in DOMAIN left : pick[k] = i
      /\ \A k, l \in DOMAIN left : k < l => pick[k] < pick[l]
  BY <1>5, <1>6 DEF GoesThrough
<1>8. Cardinality(K) \in Nat
  BY <1>4, IndicesAreFinite DEF RvaTable, IsList
<1> HIDE DEF left
<1>9. /\ DOMAIN T = DOMAIN left
      /\ \A k \in DOMAIN T : StubAt(StubName(rvas, rvas[pick[k]].rva), rvas[pick[k]].rva, T[k])
  BY <1>1, <1>7, StubIsRecord
<1>10. IsList(T)
  <2> DEFINE V == {T[k] : k \in DOMAIN T}
             c == Cardinality(K)
  <2>1. c \in Nat /\ T = [k \in 1 .. c |-> T[k]] /\ \A k \in 1 .. c : T[k] \in V
    BY <1>1, <1>5, <1>8, <1>9
  <2> HIDE DEF V, c
  <2>2. T \in Seq(V)
    BY <2>1
  <2>3. QED
    BY <2>2, SequencesAreLists
<1>11. ASSUME NEW k \in DOMAIN T
       PROVE  /\ IsRecord(T[k]) /\ T[k].loc = None /\ T[k].rva = rvas[pick[k]].rva
              /\ T[k].rva \notin consumed /\ T[k].mangled \in NamesAt(rvas, T[k].rva)
  BY <1>4, <1>7, <1>9, StubNameIsWarm DEF StubAt
<1>12. ASSUME NEW k \in DOMAIN T, NEW l \in DOMAIN T, T[k].rva = T[l].rva PROVE k = l
  <2>1. pick[k] = pick[l] /\ pick[k] \in K
    BY <1>4, <1>7, <1>9, <1>11, <1>12
  <2>2. pick[k] \in Int /\ k \in Int /\ l \in Int
    BY <1>4, <1>5, <1>9, <2>1 DEF RvaTable, IsList
  <2>3. ~(k < l) /\ ~(l < k)
    BY <1>7, <1>9, <2>1, <2>2
  <2>4. QED
    BY <2>2, <2>3
<1>13. ASSUME NEW i \in DOMAIN rvas, ~Symbol[rvas[i].name].cold, rvas[i].rva \notin consumed
       PROVE  \E k \in DOMAIN T : T[k].rva = rvas[i].rva
  <2>1. StubName(rvas, rvas[i].rva) # None
    BY <1>13, StubNameIsWarm
  <2>2. PICK j \in K : rvas[j].rva = rvas[i].rva
    BY <1>4, <1>13, <2>1
  <2>3. PICK k \in DOMAIN left : pick[k] = j
    BY <1>7
  <2>4. QED
    BY <1>9, <1>11, <2>2, <2>3
<1>14. QED
  BY <1>10, <1>11, <1>12, <1>13 DEF StubsFill, T

(* The merge has a record for each function of the headers that counts and *)
(* a stub for each address that is left.                                   *)
MergeFills(rvas, kept, M) ==
    /\ IsList(M) /\ DOMAIN kept \subseteq DOMAIN M
    /\ \A i \in DOMAIN M : IsRecord(M[i]) /\ M[i].mangled \in DOMAIN Symbol
    /\ \A i \in DOMAIN kept : \E m : MergedWell(rvas, kept[i], m) /\ M[i] = m.record
    /\ \A i \in DOMAIN M : i \notin DOMAIN kept =>
          /\ M[i].loc = None /\ M[i].mangled \in NamesAt(rvas, M[i].rva)
          /\ \A j \in DOMAIN M : M[j].rva = M[i].rva => j = i
    /\ \A i \in DOMAIN rvas : ~Symbol[rvas[i].name].cold =>
          \E j \in DOMAIN M : M[j].rva = rvas[i].rva

LEMMA MergeIsRight ==
    ASSUME NEW rvas, RvaTable(rvas), NEW sigs, NEW works, NEW fns, NEW kept,
           kept = Mergeable(fns), IsList(kept), \A i \in DOMAIN kept : Declared(kept[i])
    PROVE  MergeFills(rvas, kept, MergeFunctions(works, fns, rvas, sigs))
<1> DEFINE merged == [i \in DOMAIN kept |-> MergeOne(works, rvas, sigs, kept[i])]
           A == [i \in DOMAIN merged |-> merged[i].record]
           consumed == {merged[i].rva : i \in DOMAIN merged}
           B == Stubs(rvas, sigs, consumed)
           M == MergeFunctions(works, fns, rvas, sigs)
           a == Len(kept)
           b == Len(B)
<1>1. M = A \o B
  BY DEF MergeFunctions
<1>2. \A i \in DOMAIN kept : MergedWell(rvas, kept[i], merged[i])
  BY MergeOneIsRight
<1>3. DOMAIN kept = 1 .. a /\ a \in Nat
  BY DEF IsList
<1>4. /\ \A i \in 1 .. a : MergedWell(rvas, kept[i], merged[i]) /\ A[i] = merged[i].record
      /\ \A i \in 1 .. a : merged[i].rva \in consumed
      /\ \A v \in consumed : \E i \in 1 .. a : merged[i].rva = v
  BY <1>2, <1>3
<1>5. A = [i \in 1 .. a |-> A[i]]
  BY <1>3
<1>6. StubsFill(rvas, consumed, B)
  BY StubsAreRight
<1> HIDE DEF merged, A, B, M, consumed, a
<1>7. DOMAIN B = 1 .. b /\ b \in Nat /\ B = [i \in 1 .. b |-> B[i]]
  BY <1>6 DEF StubsFill, IsList
<1> HIDE DEF b
<1>8. /\ IsList(M) /\ DOMAIN M = 1 .. a + b
      /\ \A i \in 1 .. a : M[i] = A[i]
      /\ \A i \in 1 .. b : M[a + i] = B[i]
  <2> DEFINE V == {A[i] : i \in 1 .. a} \cup {B[i] : i \in 1 .. b}
  <2>1. (\A i \in 1 .. a : A[i] \in V) /\ (\A i \in 1 .. b : B[i] \in V)
    OBVIOUS
  <2> HIDE DEF V
  <2>2. A \in Seq(V) /\ Len(A) = a
    BY <1>3, <1>5, <2>1
  <2>3. B \in Seq(V) /\ Len(B) = b
    BY <1>7, <2>1
  <2>4. /\ A \o B \in Seq(V) /\ Len(A \o B) = a + b
        /\ \A i \in 1 .. a : (A \o B)[i] = A[i]
        /\ \A i \in 1 .. b : (A \o B)[a + i] = B[i]
    BY <1>3, <1>7, <2>2, <2>3
  <2>5. DOMAIN (A \o B) = 1 .. a + b
    BY <2>4
  <2>6. QED
    BY <1>1, <2>4, <2>5, SequencesAreLists
<1>9. \A i \in 1 .. a + b : i \in 1 .. a \/ \E k \in 1 .. b : i = a + k
  <2>1. \A i \in 1 .. a + b : i \in 1 .. a \/ (i - a \in 1 .. b /\ i = a + (i - a))
    BY <1>3, <1>7
  <2>2. QED
    BY <2>1
<1>10. ASSUME NEW i \in 1 .. a
       PROVE  /\ IsRecord(M[i]) /\ M[i].mangled \in DOMAIN Symbol /\ M[i].rva = merged[i].rva
              /\ MergedWell(rvas, kept[i], merged[i]) /\ M[i] = merged[i].record
  BY <1>3, <1>4, <1>8 DEF MergedWell, NamesAt, RvaTable, Declared
<1>11. ASSUME NEW k \in 1 .. b
       PROVE  /\ IsRecord(M[a + k]) /\ M[a + k].loc = None /\ M[a + k].rva = B[k].rva
              /\ M[a + k].rva \notin consumed
              /\ M[a + k].mangled \in NamesAt(rvas, M[a + k].rva)
              /\ M[a + k].mangled \in DOMAIN Symbol
  BY <1>6, <1>7, <1>8 DEF StubsFill, NamesAt, RvaTable
<1>12. ASSUME NEW i \in 1 .. a + b, i \notin 1 .. a, NEW j \in 1 .. a + b, M[j].rva = M[i].rva
       PROVE  j = i
  <2>1. PICK k \in 1 .. b : i = a + k
    BY <1>9, <1>12
  <2>2. CASE j \in 1 .. a
    BY <1>4, <1>10, <1>11, <1>12, <2>1, <2>2
  <2>3. CASE j \notin 1 .. a
    <3>1. PICK l \in 1 .. b : j = a + l
      BY <1>9, <2>3
    <3>2. k = l
      BY <1>6, <1>7, <1>11, <1>12, <2>1, <3>1 DEF StubsFill
    <3>3. QED
      BY <2>1, <3>1, <3>2
  <2>4. QED
    BY <2>2, <2>3
<1>13. ASSUME NEW i \in DOMAIN rvas, ~Symbol[rvas[i].name].cold
       PROVE  \E j \in 1 .. a + b : M[j].rva = rvas[i].rva
  <2>1. CASE rvas[i].rva \in consumed
    <3>1. PICK j \in 1 .. a : merged[j].rva = rvas[i].rva
      BY <1>4, <2>1
    <3>2. j \in 1 .. a + b
      BY <1>3, <1>7
    <3>3. QED
      BY <1>10, <3>1, <3>2
  <2>2. CASE rvas[i].rva \notin consumed
    <3>1. PICK k \in 1 .. b : B[k].rva = rvas[i].rva
      BY <1>6, <1>7, <1>13, <2>2 DEF StubsFill
    <3>2. a + k \in 1 .. a + b
      BY <1>3, <1>7
    <3>3. QED
      BY <1>11, <3>1, <3>2
  <2>3. QED
    BY <2>1, <2>2
<1>14. 1 .. a \subseteq 1 .. a + b
  BY <1>3, <1>7
<1>15. /\ \A i \in DOMAIN M : IsRecord(M[i]) /\ M[i].mangled \in DOMAIN Symbol
       /\ \A i \in DOMAIN kept : \E m : MergedWell(rvas, kept[i], m) /\ M[i] = m.record
       /\ \A i \in DOMAIN M : i \notin DOMAIN kept =>
             M[i].loc = None /\ M[i].mangled \in NamesAt(rvas, M[i].rva)
  BY <1>3, <1>8, <1>9, <1>10, <1>11
<1>16. MergeFills(rvas, kept, M)
  BY <1>3, <1>8, <1>12, <1>13, <1>14, <1>15 DEF MergeFills
<1>17. QED
  BY <1>16 DEF M

(* What the headers keep is what phase 1 has found.                        *)
LEMMA KeptAreDeclared ==
    ASSUME input \in Inputs
    PROVE  IsList(Kept) /\ \A i \in DOMAIN Kept : Declared(Kept[i])
<1> DEFINE fns == input.functions
           K == {i \in DOMAIN fns : ~fns[i].generated /\ ~Symbol[fns[i].mangled].cold}
<1>1. Kept = Selection(fns, K)
  BY DEF Kept, Mergeable
<1>2. IsList(fns) /\ \A i \in DOMAIN fns : Declared(fns[i])
  BY InputsAreRead, FunctionsAreFound DEF Declared, ToSet
<1>3. K \in SUBSET DOMAIN fns
  OBVIOUS
<1> HIDE DEF fns, K
<1>4. /\ Kept \in Seq({fns[i] : i \in DOMAIN fns})
      /\ \A k \in DOMAIN Kept : \E i \in K : Kept[k] = fns[i]
  BY <1>1, <1>2, <1>3, SelectionSelects, SelectionElements DEF IsList
<1>5. QED
  BY <1>2, <1>3, <1>4, SequencesAreLists

-----------------------------------------------------------------------------
(* What is merged, in the terms of the properties                          *)

IsMerged(M, from) ==
    /\ RvaTable(rva_map) /\ MergeFills(rva_map, Kept, M)
    /\ (\A i \in DOMAIN Kept : Kept[i].loc # None) /\ Sorted(functions)
    /\ ComesFrom(input.demangler, functions, M, from)

LEMMA MergedIsMerged ==
    ASSUME FlowInv, pc \notin Reading \cup {"merge", "failed"}
    PROVE  \E M, from : IsMerged(M, from)
<1> DEFINE M == MergeFunctions(input.demangler, input.functions, rva_map, signatures)
<1>1. /\ input \in Inputs /\ RvasRead
      /\ functions = SortRecords(ApplyFlatNames(input.demangler, M))
  BY DEF FlowInv, Reading, FunctionsMerged, MergedFunctions
<1>2. RvaTable(rva_map)
  BY <1>1, RvasAreNamed
<1>3. IsList(Kept) /\ \A i \in DOMAIN Kept : Declared(Kept[i])
  BY <1>1, KeptAreDeclared
<1>4. MergeFills(rva_map, Kept, M)
  BY <1>2, <1>3, MergeIsRight DEF Kept
<1> HIDE DEF M
<1>5. Sorted(functions) /\ \E from : ComesFrom(input.demangler, functions, M, from)
  BY <1>1, <1>4, OutputIsMerged DEF MergeFills
<1>6. PICK from : ComesFrom(input.demangler, functions, M, from)
  BY <1>5
<1>7. IsMerged(M, from)
  BY <1>2, <1>3, <1>4, <1>5, <1>6 DEF IsMerged, Declared
<1>8. QED
  BY <1>7

(* The names of the binary, and where they are.                            *)
LEMMA TableIsRva ==
    ASSUME RvaTable(rva_map)
    PROVE  /\ \A i \in DOMAIN rva_map :
                 rva_map[i].name \in RvaNames /\ RvaOf(rva_map[i].name) = rva_map[i].rva
           /\ \A n \in RvaNames : \E i \in DOMAIN rva_map : rva_map[i].name = n
           /\ \A n, rva : n \in NamesAt(rva_map, rva) <=> n \in RvaNames /\ RvaOf(n) = rva
<1>1. \A i \in DOMAIN rva_map :
         rva_map[i].name \in RvaNames /\ RvaOf(rva_map[i].name) = rva_map[i].rva
  BY RvaOfName DEF RvaTable, EachNameOnce
<1>2. \A n \in RvaNames : \E i \in DOMAIN rva_map : rva_map[i].name = n
  BY DEF RvaNames
<1>3. QED
  BY <1>1, <1>2 DEF NamesAt

(* What the output has of a record, and whence it has its own.             *)
LEMMA OutputKeeps ==
    ASSUME NEW M, NEW from, IsMerged(M, from)
    PROVE  /\ \A i \in DOMAIN M : ~IsExcluded(M[i].mangled) => \E k \in DOMAIN functions : from[k] = i
           /\ \A k \in DOMAIN functions :
                 /\ from[k] \in DOMAIN M /\ ~IsExcluded(M[from[k]].mangled)
                 /\ functions[k].loc = M[from[k]].loc /\ functions[k].rva = M[from[k]].rva
                 /\ functions[k].mangled = M[from[k]].mangled
                 /\ \A fn : Stands(fn, M[from[k]]) => Stands(fn, functions[k])
                 /\ \A fn : TakesOwnViews(fn, M[from[k]]) => TakesOwnViews(fn, functions[k])
           /\ \A k, l \in DOMAIN functions : from[k] = from[l] => k = l
<1>1. ASSUME NEW k \in DOMAIN functions
      PROVE  LET m == M[from[k]] IN
             /\ from[k] \in DOMAIN M /\ ~IsExcluded(m.mangled)
             /\ functions[k].loc = m.loc /\ functions[k].rva = m.rva
             /\ functions[k].mangled = m.mangled /\ functions[k].ret = m.ret
             /\ functions[k].args = m.args /\ functions[k].member = m.member
             /\ functions[k].self_view = m.self_view
  <2> DEFINE m == M[from[k]]
             flat == FlatName(input.demangler, m.mangled)
  <2>1. /\ from[k] \in DOMAIN M /\ ~IsExcluded(m.mangled)
        /\ functions[k] = [m EXCEPT !.flat = flat] /\ IsRecord(m)
    BY DEF IsMerged, ComesFrom, MergeFills, IsExcluded
  <2> HIDE DEF m, flat
  <2>2. QED
    BY <2>1 DEF IsRecord, m
<1>2. /\ \A i \in DOMAIN M : ~IsExcluded(M[i].mangled) => \E k \in DOMAIN functions : from[k] = i
      /\ \A k, l \in DOMAIN functions : from[k] = from[l] => k = l
  BY DEF IsMerged, ComesFrom, IsExcluded
<1>3. QED
  BY <1>1, <1>2 DEF Stands, TakesOwnViews

LEMMA ExactIsMerged ==
    ASSUME NEW M, NEW from, IsMerged(M, from), NEW i \in DOMAIN Kept,
           Kept[i].mangled \in RvaNames,
           \A n \in GoesBy(Kept[i].mangled) : ~IsExcluded(n)
    PROVE  \E j \in ByLoc(Kept[i]) :
              /\ functions[j].rva = RvaOf(Kept[i].mangled)
              /\ Symbol[Kept[i].mangled].mangled => functions[j].mangled = Kept[i].mangled
<1> DEFINE name == Kept[i].mangled
<1>1. RvaTable(rva_map) /\ MergeFills(rva_map, Kept, M)
  BY DEF IsMerged
<1>2. PICK e \in DOMAIN rva_map : rva_map[e].name = name
  BY <1>1, TableIsRva
<1>3. RvaOf(name) = rva_map[e].rva
  BY <1>1, <1>2, TableIsRva
<1>4. i \in DOMAIN M /\ \E m : MergedWell(rva_map, Kept[i], m) /\ M[i] = m.record
  BY <1>1 DEF MergeFills
<1>5. /\ M[i].rva = RvaOf(name) /\ M[i].loc = Kept[i].loc
      /\ M[i].mangled \in {name} \cup NamesAt(rva_map, M[i].rva)
      /\ Symbol[name].mangled => M[i].mangled = name
  BY <1>2, <1>3, <1>4 DEF MergedWell
<1>6. M[i].mangled \in GoesBy(name)
  BY <1>1, <1>5, TableIsRva DEF GoesBy
<1>7. PICK k \in DOMAIN functions : from[k] = i
  BY <1>4, <1>6, OutputKeeps
<1>8. QED
  BY <1>5, <1>7, OutputKeeps DEF ByLoc

LEMMA HeaderIsMerged ==
    ASSUME NEW M, NEW from, IsMerged(M, from), NEW i \in DOMAIN Kept
    PROVE  \/ \E j \in ByLoc(Kept[i]) : Stands(Kept[i], functions[j])
           \/ /\ \E n \in RvaNames \cup {Kept[i].mangled} : IsExcluded(n)
              /\ ByLoc(Kept[i]) = {} \/ ~Alone(i)
<1>1. RvaTable(rva_map) /\ MergeFills(rva_map, Kept, M)
  BY DEF IsMerged
<1>2. i \in DOMAIN M /\ \E m : MergedWell(rva_map, Kept[i], m) /\ M[i] = m.record
  BY <1>1 DEF MergeFills
<1>3. /\ M[i].loc = Kept[i].loc /\ Stands(Kept[i], M[i])
      /\ M[i].mangled \in {Kept[i].mangled} \cup NamesAt(rva_map, M[i].rva)
  BY <1>2 DEF MergedWell
<1>4. CASE ~IsExcluded(M[i].mangled)
  <2>1. PICK k \in DOMAIN functions : from[k] = i
    BY <1>2, <1>4, OutputKeeps
  <2>2. QED
    BY <1>3, <2>1, OutputKeeps DEF ByLoc
<1>5. CASE IsExcluded(M[i].mangled)
  <2>1. M[i].mangled \in RvaNames \cup {Kept[i].mangled}
    BY <1>1, <1>3, TableIsRva
  <2>2. ASSUME NEW k \in ByLoc(Kept[i]) PROVE ~Alone(i)
    <3>1. /\ k \in DOMAIN functions /\ from[k] \in DOMAIN M /\ M[from[k]].loc = Kept[i].loc
          /\ ~IsExcluded(M[from[k]].mangled)
      BY OutputKeeps DEF ByLoc
    <3>2. Kept[i].loc # None
      BY DEF IsMerged
    <3>3. from[k] \in DOMAIN Kept
      BY <1>1, <3>1, <3>2 DEF MergeFills
    <3>4. Kept[from[k]].loc = Kept[i].loc
      BY <1>1, <3>1, <3>3 DEF MergeFills, MergedWell
    <3>5. QED
      BY <1>5, <3>1, <3>3, <3>4 DEF Alone
  <2>3. QED
    BY <1>5, <2>1, <2>2
<1>6. QED
  BY <1>4, <1>5

LEMMA ViewsAreMerged ==
    ASSUME NEW M, NEW from, IsMerged(M, from), NEW i \in DOMAIN Kept, Alone(i),
           NEW k \in ByLoc(Kept[i])
    PROVE  TakesOwnViews(Kept[i], functions[k])
<1>1. MergeFills(rva_map, Kept, M)
  BY DEF IsMerged
<1>2. k \in DOMAIN functions /\ from[k] \in DOMAIN M /\ M[from[k]].loc = Kept[i].loc
  BY OutputKeeps DEF ByLoc
<1>3. Kept[i].loc # None
  BY DEF IsMerged
<1>4. from[k] \in DOMAIN Kept
  BY <1>1, <1>2, <1>3 DEF MergeFills
<1>5. Kept[from[k]].loc = Kept[i].loc
  BY <1>1, <1>2, <1>4 DEF MergeFills, MergedWell
<1>6. from[k] = i
  BY <1>4, <1>5 DEF Alone
<1>7. TakesOwnViews(Kept[i], M[i])
  BY <1>1 DEF MergeFills, MergedWell
<1>8. QED
  BY <1>2, <1>6, <1>7, OutputKeeps

LEMMA AddressIsMerged ==
    ASSUME NEW M, NEW from, IsMerged(M, from), NEW n \in RvaNames
    PROVE  /\ Warm(RvaOf(n)) # {} /\ At(RvaOf(n)) = {} =>
                \/ \E m \in RvaNames : RvaOf(m) = RvaOf(n) /\ IsExcluded(m)
                \/ \E i \in DOMAIN Kept : IsExcluded(Kept[i].mangled)
           /\ \A i, j \in At(RvaOf(n)) : functions[i].loc = None => i = j
<1> DEFINE rva == RvaOf(n)
<1>1. RvaTable(rva_map) /\ MergeFills(rva_map, Kept, M)
  BY DEF IsMerged
<1> HIDE DEF rva
<1>2. ASSUME Warm(rva) # {}, At(rva) = {}
      PROVE  \/ \E m \in RvaNames : RvaOf(m) = rva /\ IsExcluded(m)
             \/ \E i \in DOMAIN Kept : IsExcluded(Kept[i].mangled)
  <2>1. PICK w \in RvaNames : RvaOf(w) = rva /\ ~Symbol[w].cold
    BY <1>2 DEF Warm
  <2>2. PICK e \in DOMAIN rva_map : rva_map[e].name = w /\ rva_map[e].rva = rva
    BY <1>1, <2>1, TableIsRva
  <2>3. PICK j \in DOMAIN M : M[j].rva = rva
    BY <1>1, <2>1, <2>2 DEF MergeFills
  <2>4. IsExcluded(M[j].mangled)
    <3>1. ASSUME ~IsExcluded(M[j].mangled) PROVE At(rva) # {}
      BY <2>3, <3>1, OutputKeeps DEF At
    <3>2. QED
      BY <1>2, <3>1
  <2>5. CASE M[j].mangled \in NamesAt(rva_map, rva)
    BY <1>1, <2>4, <2>5, TableIsRva
  <2>6. CASE M[j].mangled \notin NamesAt(rva_map, rva)
    <3>1. j \in DOMAIN Kept
      BY <1>1, <2>3, <2>6 DEF MergeFills
    <3>2. M[j].mangled = Kept[j].mangled
      BY <1>1, <2>3, <2>6, <3>1 DEF MergeFills, MergedWell
    <3>3. QED
      BY <2>4, <3>1, <3>2
  <2>7. QED
    BY <2>5, <2>6
<1>3. ASSUME NEW i \in At(rva), NEW j \in At(rva), functions[i].loc = None PROVE i = j
  <2>1. /\ i \in DOMAIN functions /\ from[i] \in DOMAIN M /\ M[from[i]].rva = rva
        /\ j \in DOMAIN functions /\ from[j] \in DOMAIN M /\ M[from[j]].rva = rva
        /\ M[from[i]].loc = None
    BY <1>3, OutputKeeps DEF At
  <2>2. from[i] \notin DOMAIN Kept
    BY <1>1, <2>1 DEF IsMerged, MergeFills, MergedWell
  <2>3. from[i] = from[j]
    BY <1>1, <2>1, <2>2 DEF MergeFills
  <2>4. QED
    BY <2>1, <2>3, OutputKeeps
<1>4. QED
  BY <1>2, <1>3 DEF rva

-----------------------------------------------------------------------------
(* The theorems                                                            *)

LEMMA RvasAgree ==
    ASSUME FlowInv
    PROVE  RvasAreDefinitions
<1> SUFFICES ASSUME pc = "merge", input.format = "dwarf"
             PROVE  \/ /\ ToSet(rva_map) \subseteq DefinedAt
                       /\ whole => RvaNames = {d.name : d \in DefinedAt}
                    \/ (whole => DefinedAt = {}) /\ rva_map = NmRvas(input.symbols)
  BY DEF RvasAreDefinitions
<1>1. input \in Inputs /\ RvasRead
  BY DEF FlowInv, Reading
<1>2. QED
  BY <1>1, RvasAreRight

LEMMA MergeAgrees ==
    ASSUME FlowInv
    PROVE  ExactNameWins /\ HeadersStand /\ AddressesNamedOnce /\ ViewsFit
<1>1. ASSUME pc = "layouts"
      PROVE  \E M, from : IsMerged(M, from)
  BY <1>1, MergedIsMerged DEF Reading
<1>2. ExactNameWins
  BY <1>1, ExactIsMerged DEF ExactNameWins, Merged
<1>3. HeadersStand
  BY <1>1, HeaderIsMerged DEF HeadersStand, Merged
<1>4. AddressesNamedOnce
  BY <1>1, AddressIsMerged DEF AddressesNamedOnce, Merged
<1>5. ViewsFit
  BY <1>1, ViewsAreMerged DEF ViewsFit, Merged
<1>6. QED
  BY <1>2, <1>3, <1>4, <1>5

(* A signature that the merge gets from the PDB is at the address of its   *)
(* name, or the record there has no type that can be resolved and the      *)
(* signature is lower (pdb.py:288, pdb.py:517).                            *)
THEOREM SignaturesFollow == Spec => []SignaturesFollowAddresses
<1>1. FlowInv => SignaturesFollowAddresses
  BY SignaturesAgree
<1>2. QED
  BY <1>1, FlowInvHolds, PTL

(* Wherever llvm-dwarfdump dies, an address read from DWARF is one at      *)
(* which the dump defines that name, and every defined name is read if it  *)
(* does not die (dwarf.py:246).                                            *)
THEOREM RvasDefined == Spec => []RvasAreDefinitions
<1>1. FlowInv => RvasAreDefinitions
  BY RvasAgree
<1>2. QED
  BY <1>1, FlowInvHolds, PTL

(* No guess by normal form or receiver takes an address from the function  *)
(* that has its exact name (merge.py:287).                                 *)
THEOREM ExactNamesWin == Spec => []ExactNameWins
<1>1. FlowInv => ExactNameWins
  BY MergeAgrees
<1>2. QED
  BY <1>1, FlowInvHolds, PTL

(* Neither the binary nor the PDB drops or overrides what the headers say  *)
(* of a function (merge.py:392).                                           *)
THEOREM HeadersAlwaysStand == Spec => []HeadersStand
<1>1. FlowInv => HeadersStand
  BY MergeAgrees
<1>2. QED
  BY <1>1, FlowInvHolds, PTL

(* Every address that has a warm name ends up in the manifest, unless it   *)
(* is excluded, and a stub shares its address with no other record         *)
(* (merge.py:357).                                                         *)
THEOREM AddressesAreNamedOnce == Spec => []AddressesNamedOnce
<1>1. FlowInv => AddressesNamedOnce
  BY MergeAgrees
<1>2. QED
  BY <1>1, FlowInvHolds, PTL

(* A view taken from a mangled name is that of the argument it is given to *)
(* (merge.py:70), if no argument has become the receiver and the name is   *)
(* the function's own and spells one by one parameters with a name at the  *)
(* end at most, of which those of kind ptr are pointers and no others are. *)
THEOREM ViewsAlwaysFit == Spec => []ViewsFit
<1>1. FlowInv => ViewsFit
  BY MergeAgrees
<1>2. QED
  BY <1>1, FlowInvHolds, PTL

-----------------------------------------------------------------------------
(* Layouts from DWARF                                                      *)

(* What the reader of types can be doing, in any dump.                     *)
FieldLists(E) == {s \in Seq(E) : EachNameOnce(s)}
LayoutsWith(Z, E) ==
    UNION {[D -> [size : Z, fields : FieldLists(E)]] : D \in {N \in SUBSET DOMAIN Rank : IsFiniteSet(N)}}
Entries(dump) ==
    {[name |-> dump[i].name, offset |-> dump[i].location,
      kind |-> DwarfTypeKind(dump[i].type).kind, view |-> DwarfTypeKind(dump[i].type).view]
        : i \in DOMAIN dump}
Members(dump) ==
    {NoMember} \cup {[name |-> dump[i].name, location |-> dump[i].location, type |-> dump[i].type]
                        : i \in DOMAIN dump}
Sizes(dump) == {dump[i].size : i \in DOMAIN dump} \cup {None, 0}
TypeStates(dump) ==
    [state : {"none", "compound", "member"}, name : DOMAIN Rank \cup {None}, size : Sizes(dump),
     header : BOOLEAN, fields : FieldLists(Entries(dump)), member : Members(dump),
     layouts : LayoutsWith(Sizes(dump), Entries(dump))]

LEMMA PutFieldKeeps ==
    ASSUME NEW E, NEW s \in FieldLists(E), NEW f \in E
    PROVE  LET t == PutField(s, f) IN
           /\ t \in FieldLists(E)
           /\ \A k \in DOMAIN t : t[k] = f \/ \E l \in DOMAIN s : t[k] = s[l]
           /\ \E k \in DOMAIN t : t[k] = f
           /\ \A l \in DOMAIN s : \E k \in DOMAIN t : t[k].name = s[l].name
<1> DEFINE K == {i \in 1 .. Len(s) : s[i].name = f.name}
           i == IF K # {} THEN Min(K) ELSE 0
<1>1. SelectInSeq(s, LAMBDA g : g.name = f.name) = i
  BY DEF SelectInSeq
<1>2. /\ s \in Seq(E) /\ EachNameOnce(s) /\ Len(s) \in Nat /\ DOMAIN s = 1 .. Len(s)
      /\ \A k \in 1 .. Len(s) : s[k] \in E
  BY DEF FieldLists
<1>3. K \in SUBSET DOMAIN s /\ K \in SUBSET (1 .. Len(s))
  BY <1>2
<1>4. K # {} => Min(K) \in K
  <2> HIDE DEF K
  <2>1. QED
    BY <1>2, <1>3, MinIsFirst
<1>5. PutField(s, f) = IF i = 0 THEN Append(s, f) ELSE [s EXCEPT ![i] = f]
  BY <1>1 DEF PutField
<1>6. CASE K = {}
  <2> DEFINE t == Append(s, f)
  <2>1. /\ t \in Seq(E) /\ Len(t) = Len(s) + 1 /\ t[Len(s) + 1] = f
        /\ DOMAIN t = 1 .. Len(s) + 1 /\ \A k \in 1 .. Len(s) : t[k] = s[k]
    BY <1>2
  <2>2. \A k \in 1 .. Len(s) : s[k].name # f.name
    BY <1>6
  <2> HIDE DEF t
  <2>3. \A k \in DOMAIN t : k \in 1 .. Len(s) \/ k = Len(s) + 1
    BY <1>2, <2>1
  <2>4. EachNameOnce(t)
    BY <1>2, <2>1, <2>2, <2>3 DEF EachNameOnce
  <2>5. /\ \A k \in DOMAIN t : t[k] = f \/ \E l \in DOMAIN s : t[k] = s[l]
        /\ \E k \in DOMAIN t : t[k] = f
        /\ \A l \in DOMAIN s : l \in DOMAIN t /\ t[l].name = s[l].name
    BY <1>2, <2>1, <2>3
  <2>6. PutField(s, f) = t
    BY <1>5, <1>6 DEF t
  <2>7. QED
    BY <2>1, <2>4, <2>5, <2>6 DEF FieldLists
<1>7. CASE K # {}
  <2>1. i \in 1 .. Len(s) /\ i # 0 /\ s[i].name = f.name
    BY <1>4, <1>7
  <2> HIDE DEF i, K
  <2> DEFINE t == [s EXCEPT ![i] = f]
  <2>2. /\ t \in Seq(E) /\ DOMAIN t = 1 .. Len(s) /\ t[i] = f
        /\ \A k \in 1 .. Len(s) : k # i => t[k] = s[k]
    BY <1>2, <2>1
  <2> HIDE DEF t
  <2>3. \A k \in DOMAIN t : t[k].name = s[k].name
    BY <2>1, <2>2
  <2>4. EachNameOnce(t)
    BY <1>2, <2>2, <2>3 DEF EachNameOnce
  <2>5. /\ \A k \in DOMAIN t : t[k] = f \/ \E l \in DOMAIN s : t[k] = s[l]
        /\ \E k \in DOMAIN t : t[k] = f
        /\ \A l \in DOMAIN s : l \in DOMAIN t /\ t[l].name = s[l].name
    BY <1>2, <2>1, <2>2, <2>3
  <2>6. PutField(s, f) = t
    BY <1>5, <2>1 DEF t
  <2>7. QED
    BY <2>2, <2>4, <2>5, <2>6 DEF FieldLists
<1>8. QED
  BY <1>6, <1>7

LEMMA PutKeeps ==
    ASSUME NEW Z, NEW E, NEW dict \in LayoutsWith(Z, E), NEW key \in DOMAIN Rank,
           NEW value \in [size : Z, fields : FieldLists(E)]
    PROVE  Put(dict, key, value) \in LayoutsWith(Z, E)
<1> DEFINE V == [size : Z, fields : FieldLists(E)]
<1>1. PICK D \in SUBSET DOMAIN Rank : dict \in [D -> V] /\ IsFiniteSet(D)
  BY DEF LayoutsWith
<1>2. value \in V
  OBVIOUS
<1> HIDE DEF V
<1>3. Put(dict, key, value) \in [D \cup {key} -> V] /\ D \cup {key} \in SUBSET DOMAIN Rank
  BY <1>1, <1>2 DEF Put
<1>4. IsFiniteSet(D \cup {key})
  BY <1>1, FS_AddElement
<1>5. QED
  BY <1>3, <1>4 DEF LayoutsWith, V

LEMMA FlushMemberKeeps ==
    ASSUME NEW dump, NEW s \in TypeStates(dump)
    PROVE  FlushMember(s) \in TypeStates(dump)
<1> DEFINE m == s.member
           f == [name |-> m.name, offset |-> m.location,
                 kind |-> DwarfTypeKind(m.type).kind, view |-> DwarfTypeKind(m.type).view]
           fields == IF m.name # None /\ m.location # None THEN PutField(s.fields, f) ELSE s.fields
           state == IF s.state = "member" THEN "compound" ELSE s.state
<1>1. FlushMember(s) = [s EXCEPT !.fields = fields, !.member = NoMember, !.state = state]
  BY DEF FlushMember
<1>2. m \in Members(dump) /\ s.fields \in FieldLists(Entries(dump))
  BY DEF TypeStates
<1>3. m.name # None => f \in Entries(dump)
  <2>1. m.name # None => \E i \in DOMAIN dump :
           m = [name |-> dump[i].name, location |-> dump[i].location, type |-> dump[i].type]
    BY <1>2 DEF Members, NoMember
  <2>2. ASSUME m.name # None PROVE f \in Entries(dump)
    <3>1. PICK i \in DOMAIN dump :
             m = [name |-> dump[i].name, location |-> dump[i].location, type |-> dump[i].type]
      BY <2>1, <2>2
    <3>2. m.name = dump[i].name /\ m.location = dump[i].location /\ m.type = dump[i].type
      BY <3>1
    <3> HIDE DEF m
    <3>3. f = [name |-> dump[i].name, offset |-> dump[i].location,
               kind |-> DwarfTypeKind(dump[i].type).kind, view |-> DwarfTypeKind(dump[i].type).view]
      BY <3>2
    <3>4. QED
      BY <3>3, Zenon DEF Entries
  <2>3. QED
    BY <2>2
<1> HIDE DEF m, f
<1>4. fields \in FieldLists(Entries(dump))
  BY <1>2, <1>3, PutFieldKeeps
<1>5. state \in {"none", "compound", "member"}
  BY DEF TypeStates
<1>6. NoMember \in Members(dump)
  BY DEF Members
<1> HIDE DEF fields, state
<1>7. QED
  BY <1>1, <1>4, <1>5, <1>6 DEF TypeStates

LEMMA NoTypeIsState ==
    ASSUME NEW dump
    PROVE  NoType \in TypeStates(dump)
<1> DEFINE E == Entries(dump)
           Z == Sizes(dump)
<1>1. <<>> \in FieldLists(E)
  BY DEF FieldLists, EachNameOnce
<1>2. <<>> \in LayoutsWith(Z, E)
  <2>1. <<>> \in [{} -> [size : Z, fields : FieldLists(E)]]
    OBVIOUS
  <2>2. QED
    BY <2>1, FS_EmptySet DEF LayoutsWith
<1>3. None \in Z /\ NoMember \in Members(dump)
  BY DEF Sizes, Members
<1> HIDE DEF E, Z
<1>4. QED
  BY <1>1, <1>2, <1>3 DEF NoType, TypeStates, E, Z

LEMMA FlushCompoundKeeps ==
    ASSUME NEW dump, NEW s0 \in TypeStates(dump)
    PROVE  FlushCompound(s0) \in TypeStates(dump)
<1> DEFINE s == FlushMember(s0)
           value == [size |-> IF s.size = None THEN 0 ELSE s.size, fields |-> s.fields]
           layouts == IF Richer(s) THEN Put(s.layouts, s.name, value) ELSE s.layouts
           E == Entries(dump)
           Z == Sizes(dump)
<1>1. s \in TypeStates(dump)
  BY FlushMemberKeeps
<1>2. FlushCompound(s0) = [NoType EXCEPT !.layouts = layouts]
  BY DEF FlushCompound
<1> HIDE DEF s
<1>3. /\ s.layouts \in LayoutsWith(Z, E) /\ s.size \in Z /\ s.fields \in FieldLists(E)
      /\ s.name \in DOMAIN Rank \cup {None}
  BY <1>1 DEF TypeStates
<1>4. 0 \in Z
  BY DEF Sizes
<1> HIDE DEF Z, E
<1>5. value \in [size : Z, fields : FieldLists(E)]
  BY <1>3, <1>4
<1> HIDE DEF value
<1>6. layouts \in LayoutsWith(Z, E)
  BY <1>3, <1>5, PutKeeps DEF Richer
<1> HIDE DEF layouts
<1>7. NoType \in TypeStates(dump)
  BY NoTypeIsState
<1>8. QED
  BY <1>2, <1>6, <1>7 DEF TypeStates, Z, E

LEMMA TakeHeaderKeeps ==
    ASSUME NEW dump, NEW i \in DOMAIN dump, dump[i].name \in DOMAIN Rank \cup {None},
           NEW s \in TypeStates(dump)
    PROVE  TakeHeader(s, dump[i]) \in TypeStates(dump)
<1> DEFINE name == IF dump[i].name = None THEN s.name ELSE dump[i].name
           size == IF dump[i].size = None THEN s.size ELSE dump[i].size
<1>1. name \in DOMAIN Rank \cup {None}
  BY DEF TypeStates
<1>2. size \in Sizes(dump)
  BY DEF TypeStates, Sizes
<1>3. TakeHeader(s, dump[i]) = s \/ TakeHeader(s, dump[i]) = [s EXCEPT !.name = name, !.size = size]
  BY DEF TakeHeader
<1> HIDE DEF name, size
<1>4. QED
  BY <1>1, <1>2, <1>3 DEF TypeStates

LEMMA ReadTypeDieKeeps ==
    ASSUME NEW dump, NEW i \in DOMAIN dump, dump[i].name \in DOMAIN Rank \cup {None},
           NEW s \in TypeStates(dump)
    PROVE  ReadTypeDie(s, dump[i]) \in TypeStates(dump)
<1> DEFINE die == dump[i]
           member == [name |-> die.name, location |-> die.location, type |-> die.type]
           a == [FlushCompound(s) EXCEPT !.state = "compound", !.header = TRUE]
           b == [FlushMember(s) EXCEPT !.header = FALSE, !.state = "member", !.member = member]
<1>1. FlushCompound(s) \in TypeStates(dump) /\ FlushMember(s) \in TypeStates(dump)
  BY FlushCompoundKeeps, FlushMemberKeeps
<1>2. a \in TypeStates(dump)
  BY <1>1 DEF TypeStates
<1>3. member \in Members(dump)
  BY DEF Members
<1>4. b \in TypeStates(dump)
  <2> HIDE DEF member
  <2>1. QED
    BY <1>1, <1>3 DEF TypeStates
<1> HIDE DEF a, b
<1>5. TakeHeader(a, die) \in TypeStates(dump) /\ TakeHeader(FlushMember(s), die) \in TypeStates(dump)
  BY <1>1, <1>2, TakeHeaderKeeps
<1>6. ReadTypeDie(s, die) \in {TakeHeader(a, die), b, FlushCompound(s), TakeHeader(FlushMember(s), die), s}
  BY DEF ReadTypeDie, a, b
<1> HIDE DEF die
<1>7. QED
  BY <1>1, <1>4, <1>5, <1>6 DEF die

(* What a backend gives: each struct has a name and fields of its own.     *)
LaidOut(layouts) ==
    /\ DOMAIN layouts \in SUBSET DOMAIN Rank /\ IsFiniteSet(DOMAIN layouts)
    /\ \A n \in DOMAIN layouts : IsList(layouts[n].fields) /\ EachNameOnce(layouts[n].fields)

(* The state of the reader of types after more of a dump.                  *)
ReadFrom(s, dies) ==
    LET read[i \in 0 .. Len(dies)] ==
            IF i = 0 THEN s ELSE ReadTypeDie(read[i - 1], dies[i])
    IN  read[Len(dies)]
ReadRun(r, s, dies) ==
    r[0] = s /\ \A i \in 1 .. Len(dies) : r[i] = ReadTypeDie(r[i - 1], dies[i])

(* Each name of a dump can be ordered.                                     *)
Sortable(dump) == \A d \in ToSet(dump) : d.name \in DOMAIN Rank \cup {None}

(* A die of the dump leaves a state of the reader.                         *)
LEMMA DieKeeps ==
    ASSUME NEW dump, Sortable(dump), NEW s \in TypeStates(dump), NEW d \in ToSet(dump)
    PROVE  ReadTypeDie(s, d) \in TypeStates(dump)
<1>1. PICK i \in DOMAIN dump : d = dump[i]
  BY DEF ToSet
<1>2. dump[i].name \in DOMAIN Rank \cup {None}
  BY <1>1 DEF Sortable
<1>3. QED
  BY <1>1, <1>2, ReadTypeDieKeeps

(* Reading dies is a run from state to state.                              *)
LEMMA ReadsARun ==
    ASSUME NEW dump, Sortable(dump), NEW s \in TypeStates(dump), NEW dies \in Seq(ToSet(dump))
    PROVE  \E r : /\ ReadRun(r, s, dies) /\ ReadFrom(s, dies) = r[Len(dies)]
                  /\ \A i \in 0 .. Len(dies) : r[i] \in TypeStates(dump)
<1> DEFINE n == Len(dies)
           S == TypeStates(dump)
           Body(f) == [i \in 0 .. n |-> IF i = 0 THEN s ELSE ReadTypeDie(f[i - 1], dies[i])]
           h == CHOOSE x : x = Body(x)
           H == [i \in 1 .. n |-> [t \in S |-> ReadTypeDie(t, dies[i])]]
<1>1. n \in Nat /\ \A i \in 1 .. n : dies[i] \in ToSet(dump)
  OBVIOUS
<1>2. ReadFrom(s, dies) = h[n]
  BY DEF ReadFrom
<1>3. \A i \in 1 .. n : \A t \in S : ReadTypeDie(t, dies[i]) \in S
  BY <1>1, DieKeeps
<1>4. s \in S
  OBVIOUS
<1> HIDE DEF n, S
<1>5. H \in [1 .. n -> [S -> S]] /\ \A i \in 1 .. n : \A t \in S : H[i][t] = ReadTypeDie(t, dies[i])
  BY <1>3
<1> HIDE DEF H
<1>6. PICK f : IsRun(f, S, s, n, H)
  BY <1>1, <1>4, <1>5, Iterates
<1>7. f = Body(f)
  <2>1. ASSUME NEW i \in 0 .. n, i # 0 PROVE f[i] = ReadTypeDie(f[i - 1], dies[i])
    <3>1. i \in 1 .. n /\ i - 1 \in 0 .. n
      BY <1>1, <2>1
    <3>2. QED
      BY <1>5, <1>6, <3>1 DEF IsRun
  <2>2. f \in [0 .. n -> S] /\ f[0] = s
    BY <1>6 DEF IsRun
  <2>3. QED
    BY <2>1, <2>2
<1>8. h = Body(h)
  BY <1>7
<1>9. h[0] = s /\ \A i \in 1 .. n : h[i] = ReadTypeDie(h[i - 1], dies[i])
  <2> HIDE DEF h
  <2>1. QED
    BY <1>1, <1>8
<1> HIDE DEF h
<1>10. \A i \in 0 .. n : h[i] \in S
  BY <1>1, <1>3, <1>4, <1>9, RunStays
<1>11. ReadRun(h, s, dies)
  BY <1>9 DEF ReadRun, n
<1>12. QED
  BY <1>2, <1>10, <1>11 DEF n, S

(* What the dump of a binary gives.                                        *)
LEMMA DwarfLaysOut ==
    ASSUME NEW T, NEW dump \in Seq(T), \A i \in DOMAIN dump : dump[i].name \in DOMAIN Rank \cup {None}
    PROVE  LaidOut(DwarfLayouts(dump))
<1> DEFINE S == TypeStates(dump)
           last == ReadFrom(NoType, dump)
<1>1. DwarfLayouts(dump) = FlushCompound(last).layouts
  BY DEF DwarfLayouts, ReadFrom
<1>2. Sortable(dump) /\ dump \in Seq(ToSet(dump)) /\ Len(dump) \in 0 .. Len(dump)
  BY DEF Sortable, ToSet
<1>3. NoType \in S
  BY NoTypeIsState
<1>4. last \in S
  BY <1>2, <1>3, ReadsARun
<1>5. FlushCompound(last) \in S
  BY <1>4, FlushCompoundKeeps DEF S
<1> HIDE DEF last
<1>6. FlushCompound(last).layouts \in LayoutsWith(Sizes(dump), Entries(dump))
  BY <1>5 DEF S, TypeStates
<1>7. ASSUME NEW l \in LayoutsWith(Sizes(dump), Entries(dump)) PROVE LaidOut(l)
  <2> DEFINE E == Entries(dump)
             Z == Sizes(dump)
  <2>1. PICK D \in SUBSET DOMAIN Rank : IsFiniteSet(D) /\ l \in [D -> [size : Z, fields : FieldLists(E)]]
    BY DEF LayoutsWith
  <2>2. ASSUME NEW name \in DOMAIN l
        PROVE  IsList(l[name].fields) /\ EachNameOnce(l[name].fields)
    <3> HIDE DEF E, Z
    <3>1. l[name].fields \in FieldLists(E)
      BY <2>1
    <3>2. QED
      BY <3>1, SequencesAreLists DEF FieldLists
  <2> HIDE DEF E, Z
  <2>3. DOMAIN l = D
    BY <2>1
  <2>4. QED
    BY <2>1, <2>2, <2>3 DEF LaidOut
<1>8. QED
  BY <1>1, <1>6, <1>7

-----------------------------------------------------------------------------
(* Layouts from a PDB                                                      *)

LEMMA RecordFinds ==
    ASSUME NEW T, NEW stream \in Seq(T), NEW id
    PROVE  Record(stream, id) # None => \E i \in DOMAIN stream : Record(stream, id) = stream[i]
<1> DEFINE K == {i \in 1 .. Len(stream) : stream[i].id = id}
           i == IF K # {} THEN Max(K) ELSE 0
<1>1. SelectLastInSeq(stream, LAMBDA r : r.id = id) = i
  BY DEF SelectLastInSeq
<1>2. Record(stream, id) = IF i = 0 THEN None ELSE stream[i]
  BY <1>1 DEF Record
<1>3. K \in SUBSET DOMAIN stream
  OBVIOUS
<1>4. K # {} => Max(K) \in DOMAIN stream
  <2> HIDE DEF K
  <2>1. QED
    BY <1>3, MaxIsLast
<1> HIDE DEF K
<1>5. QED
  BY <1>2, <1>4

(* What the chain of the continuations of a list is.                       *)
Follows(types, fid) ==
    LET ids == {types[i].cont : i \in DOMAIN types} \cup {fid, None}
    IN  [lists : Seq({types[i] : i \in DOMAIN types}), next : ids, seen : SUBSET ids]

LEMMA ChainIsOfRecords ==
    ASSUME NEW T, NEW types \in Seq(T), NEW fid
    PROVE  ChainOf(types, fid) \in Seq({types[i] : i \in DOMAIN types})
<1> DEFINE n == Len(types)
           R == {types[i] : i \in DOMAIN types}
           ids == {types[i].cont : i \in DOMAIN types} \cup {fid, None}
           S == Follows(types, fid)
           start == [lists |-> <<>>, next |-> fid, seen |-> {}]
           Body(f) == [i \in 0 .. n |-> IF i = 0 THEN start ELSE Follow(types, f[i - 1])]
           h == CHOOSE x : x = Body(x)
           H == [i \in 1 .. n |-> [s \in S |-> Follow(types, s)]]
<1>1. n \in Nat /\ ChainOf(types, fid) = h[n].lists
  BY DEF ChainOf
<1>2. start \in S
  BY DEF Follows
<1>3. ASSUME NEW s \in S PROVE Follow(types, s) \in S
  <2> DEFINE r == Record(types, s.next)
             more == [lists |-> Append(s.lists, r), next |-> r.cont, seen |-> s.seen \cup {s.next}]
  <2>1. Follow(types, s) = [s EXCEPT !.next = None] \/ (r # None /\ Follow(types, s) = more)
    BY DEF Follow, KindIn
  <2>2. s.lists \in Seq(R) /\ s.next \in ids /\ s.seen \in SUBSET ids
        /\ [s EXCEPT !.next = None] \in S
    BY DEF Follows
  <2>3. r # None => \E i \in DOMAIN types : r = types[i]
    BY RecordFinds
  <2>4. r # None => r \in R /\ r.cont \in ids
    BY <2>3
  <2> HIDE DEF r, R, ids
  <2>5. r # None => more.lists \in Seq(R) /\ more.next \in ids /\ more.seen \in SUBSET ids
    BY <2>2, <2>4
  <2>6. r # None => more \in S
    BY <2>5 DEF Follows, R, ids
  <2>7. QED
    BY <2>1, <2>2, <2>6
<1> HIDE DEF n, S, start, R
<1>4. H \in [1 .. n -> [S -> S]] /\ \A i \in 1 .. n : \A s \in S : H[i][s] = Follow(types, s)
  BY <1>3
<1> HIDE DEF H
<1>5. PICK f : IsRun(f, S, start, n, H)
  BY <1>1, <1>2, <1>4, Iterates
<1>6. f = Body(f)
  <2>1. ASSUME NEW i \in 0 .. n, i # 0 PROVE f[i] = Follow(types, f[i - 1])
    <3>1. i \in 1 .. n /\ i - 1 \in 0 .. n
      BY <1>1, <2>1
    <3>2. QED
      BY <1>4, <1>5, <3>1 DEF IsRun
  <2>2. f \in [0 .. n -> S] /\ f[0] = start
    BY <1>5 DEF IsRun
  <2>3. QED
    BY <2>1, <2>2
<1>7. h = Body(h)
  BY <1>6
<1>8. h[0] = start /\ \A i \in 1 .. n : h[i] = Follow(types, h[i - 1])
  <2> HIDE DEF h
  <2>1. QED
    BY <1>1, <1>7
<1> HIDE DEF h
<1>9. \A i \in 0 .. n : h[i] \in S
  BY <1>1, <1>2, <1>3, <1>8, RunStays
<1>10. h[n] \in S
  BY <1>1, <1>9
<1>11. QED
  BY <1>1, <1>10 DEF S, Follows, R

(* What the reader of types has understood of them.                        *)
Readable(types) ==
    /\ IsList(types)
    /\ \A i \in DOMAIN types :
        /\ types[i].name \in DOMAIN Rank \cup {None}
        /\ IsList(types[i].members) /\ \A m \in ToSet(types[i].members) : m.offset \in Int
        /\ IsList(types[i].bases) /\ \A b \in ToSet(types[i].bases) : b.offset \in Int

MembersRead(types) == UNION {ToSet(types[i].members) : i \in DOMAIN types}
BasesRead(types) == UNION {ToSet(types[i].bases) : i \in DOMAIN types}

LEMMA MembersAreRead ==
    ASSUME NEW types, Readable(types), NEW fid
    PROVE  /\ MembersOf(types, fid) \in Seq(MembersRead(types))
           /\ EachNameOnce(MembersOf(types, fid))
           /\ BasesOf(types, fid) \in Seq(BasesRead(types))
<1> DEFINE chain == ChainOf(types, fid)
           members == [k \in DOMAIN chain |-> chain[k].members]
           bases == [k \in DOMAIN chain |-> chain[k].bases]
           M == MembersRead(types)
           B == BasesRead(types)
<1>1. chain \in Seq({types[i] : i \in DOMAIN types})
  BY ChainIsOfRecords DEF Readable, IsList
<1>2. DOMAIN chain = 1 .. Len(chain) /\ Len(chain) \in Nat
      /\ \A k \in DOMAIN chain : \E i \in DOMAIN types : chain[k] = types[i]
  BY <1>1
<1>3. /\ MembersOf(types, fid) = OncePerName(FlattenSeq(members))
      /\ BasesOf(types, fid) = FlattenSeq(bases)
  BY DEF MembersOf, BasesOf, MembersIn, BasesIn
<1>4. ASSUME NEW k \in DOMAIN chain
      PROVE  chain[k].members \in Seq(M) /\ chain[k].bases \in Seq(B)
  <2>1. PICK i \in DOMAIN types : chain[k] = types[i]
    BY <1>2
  <2>2. IsList(types[i].members) /\ IsList(types[i].bases)
    BY DEF Readable
  <2>3. ToSet(types[i].members) \in SUBSET M /\ ToSet(types[i].bases) \in SUBSET B
    BY DEF MembersRead, BasesRead
  <2> HIDE DEF M, B
  <2>4. QED
    BY <2>1, <2>2, <2>3 DEF IsList, ToSet
<1> HIDE DEF chain, M, B
<1>5. members \in Seq(Seq(M)) /\ bases \in Seq(Seq(B))
  BY <1>2, <1>4
<1> HIDE DEF members, bases
<1>6. FlattenSeq(members) \in Seq(M) /\ FlattenSeq(bases) \in Seq(B)
  BY <1>5, FlattenTyped
<1>7. OncePerName(FlattenSeq(members)) \in Seq(M) /\ EachNameOnce(OncePerName(FlattenSeq(members)))
  BY <1>6, OnceTakesAll
<1>8. QED
  BY <1>3, <1>6, <1>7 DEF M, B

(* Members as they are in their class, or moved with a base.               *)
PdbFields(types) ==
    MembersRead(types) \cup [name : {m.name : m \in MembersRead(types)}, offset : Int]
Flats(types) == [SUBSET Defined(types) -> [Defined(types) -> FieldLists(PdbFields(types))]]

LEMMA MovedAreFields ==
    ASSUME NEW types, Readable(types), NEW offset \in Int, NEW s \in Seq(PdbFields(types))
    PROVE  Moved(s, offset) \in Seq(PdbFields(types))
<1> DEFINE M == MembersRead(types)
           N == {m.name : m \in M}
           E == PdbFields(types)
<1>1. \A m \in M : m.offset \in Int
  BY DEF Readable, MembersRead
<1>2. E = M \cup [name : N, offset : Int]
  BY DEF PdbFields
<1>3. \A e \in E : e.name \in N /\ e.offset \in Int
  <2>1. \A m \in M : m.name \in N
    OBVIOUS
  <2> HIDE DEF N, E, M
  <2>2. QED
    BY <1>1, <1>2, <2>1
<1>4. DOMAIN s = 1 .. Len(s) /\ Len(s) \in Nat /\ \A i \in DOMAIN s : s[i] \in E
  OBVIOUS
<1> HIDE DEF N, M, E
<1>5. \A i \in DOMAIN s : [name |-> s[i].name, offset |-> s[i].offset + offset] \in E
  BY <1>2, <1>3, <1>4
<1>6. QED
  BY <1>4, <1>5 DEF Moved, E

(* What flatten puts end to end: own members, then those of each base.     *)
PartsOver(types, visited, fid, below) ==
    LET bases == BasesOf(types, fid)
    IN  [i \in DOMAIN bases |-> MembersBelow(types, visited, bases[i], below)]

LEMMA PartsAreFields ==
    ASSUME NEW types, Readable(types), NEW visited \in SUBSET Defined(types), NEW fid,
           NEW below \in Flats(types)
    PROVE  /\ MembersOf(types, fid) \in Seq(PdbFields(types))
           /\ PartsOver(types, visited, fid, below) \in Seq(Seq(PdbFields(types)))
<1> DEFINE E == PdbFields(types)
           bases == BasesOf(types, fid)
           parts == [i \in DOMAIN bases |-> MembersBelow(types, visited, bases[i], below)]
           own == MembersOf(types, fid)
<1>1. bases \in Seq(BasesRead(types)) /\ own \in Seq(MembersRead(types))
  BY MembersAreRead
<1>2. MembersRead(types) \in SUBSET E
  BY DEF PdbFields
<1>3. \A b \in BasesRead(types) : b.offset \in Int
  BY DEF Readable, BasesRead
<1>4. ASSUME NEW i \in DOMAIN bases
      PROVE  MembersBelow(types, visited, bases[i], below) \in Seq(E)
  <2> DEFINE name == BaseName(types, bases[i].id)
  <2>1. bases[i] \in BasesRead(types) /\ bases[i].offset \in Int
    BY <1>1, <1>3
  <2>2. name \in Defined(types) => below[visited][name] \in Seq(E)
    BY DEF Flats, FieldLists
  <2> HIDE DEF E, name, bases
  <2>3. name \in Defined(types) => Moved(below[visited][name], bases[i].offset) \in Seq(E)
    BY <2>1, <2>2, MovedAreFields DEF E
  <2>4. QED
    BY <2>3 DEF MembersBelow, name
<1> HIDE DEF E
<1>5. parts \in Seq(Seq(E))
  <2>1. DOMAIN bases = 1 .. Len(bases) /\ Len(bases) \in Nat
    BY <1>1
  <2> HIDE DEF bases
  <2>2. QED
    BY <1>4, <2>1
<1>6. own \in Seq(E)
  <2> HIDE DEF own
  <2>1. QED
    BY <1>1, <1>2
<1>7. QED
  BY <1>5, <1>6 DEF E, PartsOver

LEMMA WithBasesAreFields ==
    ASSUME NEW types, Readable(types), NEW visited \in SUBSET Defined(types), NEW fid,
           NEW below \in Flats(types)
    PROVE  WithBases(types, visited, fid, below) \in FieldLists(PdbFields(types))
<1> DEFINE E == PdbFields(types)
           own == MembersOf(types, fid)
           parts == PartsOver(types, visited, fid, below)
<1>1. WithBases(types, visited, fid, below) = OncePerName(own \o FlattenSeq(parts))
  BY DEF WithBases, PartsOver
<1>2. own \in Seq(E) /\ parts \in Seq(Seq(E))
  BY PartsAreFields
<1> HIDE DEF own, parts, E
<1>3. own \o FlattenSeq(parts) \in Seq(E)
  BY <1>2, FlattenTyped
<1>4. QED
  BY <1>1, <1>3, OnceTakesAll DEF FieldLists, E

LEMMA DefinedAreNamed ==
    ASSUME NEW types, Readable(types)
    PROVE  /\ Defined(types) \in SUBSET DOMAIN Rank
           /\ IsFiniteSet(Defined(types)) /\ Cardinality(Defined(types)) \in Nat
<1> DEFINE V == {types[i].name : i \in DOMAIN types}
           names == [i \in DOMAIN types |-> types[i].name]
<1>1. ClassNames(types) \in SUBSET (V \ {None})
  BY DEF ClassNames
<1>2. names \in Seq(V) /\ V = {names[i] : i \in DOMAIN names}
  BY DEF Readable, IsList
<1>3. \A v \in V : v \in DOMAIN Rank \cup {None}
  BY DEF Readable
<1> HIDE DEF V, names
<1>4. IsFiniteSet(V)
  BY <1>2, ValuesAreFew
<1>5. Defined(types) \in SUBSET (V \ {None})
  BY <1>1 DEF Defined
<1>6. IsFiniteSet(Defined(types))
  BY <1>4, <1>5, FS_Subset
<1>7. QED
  BY <1>3, <1>5, <1>6, FS_CardinalityType

(* flatten, round by round of its recursion.                               *)
FlatRun(h, types) ==
    LET D == Defined(types) IN
    /\ \A k \in 0 .. Cardinality(D) : h[k] \in Flats(types)
    /\ \A visiting \in SUBSET D : \A c \in D : h[0][visiting][c] = <<>>
    /\ \A k \in 1 .. Cardinality(D) : \A visiting \in SUBSET D : \A c \in D :
        h[k][visiting][c]
            = WithBases(types, visiting \cup {c}, Chosen(types, c).fieldlist, h[k - 1])
    /\ \A c \in D : Flatten(types, c) = h[Cardinality(D)][{}][c]

LEMMA FlattenIsRun ==
    ASSUME NEW types, Readable(types)
    PROVE  \E h : FlatRun(h, types)
<1> DEFINE n == Cardinality(Defined(types))
           D == Defined(types)
           F == FieldLists(PdbFields(types))
           S == Flats(types)
           start == [visiting \in SUBSET D |-> [c \in D |-> <<>>]]
           Next1(below) == [visiting \in SUBSET D |-> [c \in D |->
               WithBases(types, visiting \cup {c}, Chosen(types, c).fieldlist, below)]]
           Body(f) == [k \in 0 .. n |-> [visiting \in SUBSET D |-> [c \in D |->
               IF k = 0 THEN <<>>
               ELSE WithBases(types, visiting \cup {c}, Chosen(types, c).fieldlist, f[k - 1])]]]
           h == CHOOSE x : x = Body(x)
           H == [i \in 1 .. n |-> [s \in S |-> Next1(s)]]
<1>1. n \in Nat
  BY DefinedAreNamed
<1>2. \A c \in D : Flatten(types, c) = h[n][{}][c]
  BY DEF Flatten
<1>3. S = [SUBSET D -> [D -> F]]
  BY DEF Flats
<1>4. start \in S
  <2>1. <<>> \in F
    BY DEF FieldLists, EachNameOnce
  <2> HIDE DEF F, S, D
  <2>2. QED
    BY <1>3, <2>1
<1>5. ASSUME NEW s \in S PROVE Next1(s) \in S
  <2>1. \A visiting \in SUBSET D : \A c \in D :
           WithBases(types, visiting \cup {c}, Chosen(types, c).fieldlist, s) \in F
    <3> TAKE visiting \in SUBSET D
    <3> TAKE c \in D
    <3>1. visiting \cup {c} \in SUBSET Defined(types)
      OBVIOUS
    <3>2. QED
      BY <3>1, WithBasesAreFields
  <2> HIDE DEF F, S, D
  <2>2. QED
    BY <1>3, <2>1
<1>6. \A f : \A k \in 0 .. n : Body(f)[k] = IF k = 0 THEN start ELSE Next1(f[k - 1])
  <2> TAKE f
  <2> TAKE k \in 0 .. n
  <2>1. CASE k = 0
    BY <2>1
  <2>2. CASE k # 0
    BY <2>2
  <2>3. QED
    BY <2>1, <2>2
<1>7. \A f : DOMAIN Body(f) = 0 .. n /\ Body(f) = [k \in 0 .. n |-> Body(f)[k]]
  OBVIOUS
<1>8. /\ \A V \in SUBSET D : \A c \in D : start[V][c] = <<>>
      /\ \A s : \A V \in SUBSET D : \A c \in D :
           Next1(s)[V][c] = WithBases(types, V \cup {c}, Chosen(types, c).fieldlist, s)
  OBVIOUS
<1> HIDE DEF n, S, start, F, Next1, Body, D
<1>9. H \in [1 .. n -> [S -> S]] /\ \A i \in 1 .. n : \A s \in S : H[i][s] = Next1(s)
  BY <1>5
<1> HIDE DEF H
<1>10. PICK f : IsRun(f, S, start, n, H)
  BY <1>1, <1>4, <1>9, Iterates
<1>11. f = Body(f)
  <2>1. ASSUME NEW k \in 0 .. n PROVE f[k] = Body(f)[k]
    <3>1. CASE k = 0
      BY <1>6, <1>10, <3>1 DEF IsRun
    <3>2. CASE k # 0
      <4>1. k \in 1 .. n /\ k - 1 \in 0 .. n
        BY <1>1, <3>2
      <4>2. f[k] = Next1(f[k - 1])
        BY <1>9, <1>10, <4>1 DEF IsRun
      <4>3. QED
        BY <1>6, <3>2, <4>2
    <3>3. QED
      BY <3>1, <3>2
  <2>2. f = [k \in 0 .. n |-> f[k]]
    BY <1>10 DEF IsRun
  <2>3. QED
    BY <1>7, <2>1, <2>2
<1>12. h = Body(h)
  BY <1>11
<1>13. h[0] = start /\ \A i \in 1 .. n : h[i] = Next1(h[i - 1])
  <2> HIDE DEF h
  <2>1. \A k \in 0 .. n : h[k] = IF k = 0 THEN start ELSE Next1(h[k - 1])
    BY <1>6, <1>12
  <2>2. QED
    BY <1>1, <2>1
<1> HIDE DEF h
<1>14. \A i \in 0 .. n : h[i] \in S
  <2>1. h[0] \in S /\ \A i \in 1 .. n : h[i - 1] \in S => h[i] \in S
    BY <1>4, <1>5, <1>13
  <2>2. QED
    BY <1>1, <2>1, RunStays
<1>15. \A k \in 0 .. n : h[k] \in Flats(types)
  BY <1>14 DEF S
<1>16. \A V \in SUBSET D : \A c \in D : h[0][V][c] = <<>>
  BY <1>13, <1>8
<1>17. \A k \in 1 .. n : \A V \in SUBSET D : \A c \in D :
          h[k][V][c] = WithBases(types, V \cup {c}, Chosen(types, c).fieldlist, h[k - 1])
  <2> TAKE k \in 1 .. n
  <2> TAKE V \in SUBSET D
  <2> TAKE c \in D
  <2> DEFINE s == h[k - 1]
  <2>1. h[k] = Next1(s)
    BY <1>13
  <2> HIDE DEF s
  <2>2. Next1(s)[V][c] = WithBases(types, V \cup {c}, Chosen(types, c).fieldlist, s)
    BY <1>8
  <2>3. QED
    BY <2>1, <2>2 DEF s
<1>18. FlatRun(h, types)
  BY <1>2, <1>15, <1>16, <1>17 DEF FlatRun, D, n
<1>19. QED
  BY <1>18

LEMMA FlatAreFields ==
    ASSUME NEW types, Readable(types), NEW name \in Defined(types)
    PROVE  Flatten(types, name) \in FieldLists(PdbFields(types))
<1> DEFINE n == Cardinality(Defined(types))
<1>1. n \in 0 .. n
  BY DefinedAreNamed
<1>2. PICK h : FlatRun(h, types)
  BY FlattenIsRun
<1> HIDE DEF n
<1>3. h[n] \in Flats(types) /\ Flatten(types, name) = h[n][{}][name]
  BY <1>1, <1>2 DEF FlatRun, n
<1>4. {} \in SUBSET Defined(types)
  OBVIOUS
<1>5. QED
  BY <1>3, <1>4 DEF Flats

LEMMA PdbLaysOut ==
    ASSUME NEW types, Readable(types)
    PROVE  LaidOut(PdbLayouts(types))
<1> DEFINE L == PdbLayouts(types)
<1>1. DOMAIN L \in SUBSET Defined(types)
  BY DEF PdbLayouts
<1>2. DOMAIN L \in SUBSET DOMAIN Rank /\ IsFiniteSet(DOMAIN L)
  <2> HIDE DEF L
  <2>1. QED
    BY <1>1, DefinedAreNamed, FS_Subset
<1>3. ASSUME NEW n \in DOMAIN L
      PROVE  IsList(L[n].fields) /\ EachNameOnce(L[n].fields)
  <2> DEFINE flat == Flatten(types, n)
             fields == [i \in DOMAIN flat |-> [name |-> flat[i].name, offset |-> flat[i].offset,
                                               kind |-> None, view |-> None]]
  <2>1. L[n].fields = fields
    BY DEF PdbLayouts, LayoutFrom
  <2>2. flat \in Seq(PdbFields(types)) /\ EachNameOnce(flat)
    BY <1>1, FlatAreFields DEF FieldLists
  <2> HIDE DEF flat, L
  <2>3. DOMAIN fields = 1 .. Len(flat) /\ Len(flat) \in Nat /\ DOMAIN flat = DOMAIN fields
    BY <2>2
  <2>4. IsList(fields)
    BY <2>3 DEF IsList
  <2>5. EachNameOnce(fields)
    BY <2>2 DEF EachNameOnce
  <2>6. QED
    BY <2>1, <2>4, <2>5
<1>4. QED
  BY <1>2, <1>3 DEF LaidOut

(* What the backend has given phase 2.                                     *)
LEMMA LayoutsAreLaidOut ==
    ASSUME input \in Inputs, LayoutsRead
    PROVE  LaidOut(struct_layouts)
<1>1. CASE input.format = "pdb"
  <2>1. PICK printed \in OutputOf(input.types) : struct_layouts = PdbLayouts(printed)
    BY <1>1 DEF LayoutsRead
  <2>2. /\ IsList(input.types)
        /\ \A r \in ToSet(input.types) :
            /\ r.name \in DOMAIN Rank \cup {None}
            /\ IsList(r.members) /\ \A m \in ToSet(r.members) : m.offset \in Int
            /\ IsList(r.bases) /\ \A b \in ToSet(r.bases) : b.offset \in Int
    BY InputsAreRead, NamesAreSymbols
  <2>3. IsList(printed) /\ \A i \in DOMAIN printed : printed[i] \in ToSet(input.types)
    BY <2>1, <2>2, PartIsRead, SequencesAreLists DEF IsList
  <2>4. Readable(printed)
    BY <2>2, <2>3 DEF Readable
  <2>5. QED
    BY <2>1, <2>4, PdbLaysOut
<1>2. CASE input.format # "pdb"
  <2>1. PICK printed \in OutputOf(Dump) : struct_layouts = DwarfLayouts(printed)
    BY <1>2 DEF LayoutsRead
  <2>2. IsList(Dump) /\ \A d \in ToSet(Dump) : d.name \in DOMAIN Rank \cup {None}
    BY DumpIsList, NamesAreSymbols DEF Dump
  <2>3. /\ printed \in Seq({Dump[i] : i \in DOMAIN Dump})
        /\ \A i \in DOMAIN printed : printed[i] \in ToSet(Dump)
    BY <2>1, <2>2, PartIsRead DEF IsList
  <2>4. \A i \in DOMAIN printed : printed[i].name \in DOMAIN Rank \cup {None}
    BY <2>2, <2>3
  <2>5. QED
    BY <2>1, <2>3, <2>4, DwarfLaysOut
<1>3. QED
  BY <1>1, <1>2

-----------------------------------------------------------------------------
(* The structs of the headers under the layouts of the binary              *)

(* The list T has the entries of s in another order.                       *)
Permutes(from, T, s) ==
    /\ from \in [DOMAIN T -> DOMAIN s]
    /\ \A k \in DOMAIN T : T[k] = s[from[k]]
    /\ \A i \in DOMAIN s : \E k \in DOMAIN T : from[k] = i
    /\ \A k, l \in DOMAIN T : from[k] = from[l] => k = l

LEMMA SortPermutes ==
    ASSUME NEW records, IsList(records), \A i \in DOMAIN records : records[i].name \in DOMAIN Rank
    PROVE  IsList(SortByName(records)) /\ \E from : Permutes(from, SortByName(records), records)
<1> DEFINE D == DOMAIN records
           ranks == [i \in D |-> Rank[records[i].name]]
           R == ByRank(ranks)
           T == SortByName(records)
           from == [k \in 1 .. Cardinality(D) |-> Nth(D, R, k)]
<1>1. D = 1 .. Len(records) /\ Len(records) \in Nat
  BY DEF IsList
<1>2. \A i \in D : ranks[i] \in Int /\ i \in Int
  BY <1>1, TextIsOrdered
<1>3. DOMAIN ranks = D
  OBVIOUS
<1>4. StrictTotalOrder(R, D)
  <2> HIDE DEF ranks, D
  <2>1. QED
    BY <1>2, <1>3 DEF ByRank, StrictTotalOrder
<1>5. IsFiniteSet(D) /\ Cardinality(D) \in Nat
  BY IndicesAreFinite DEF IsList
<1>6. T = Listing(records, D, R)
  BY DEF SortByName
<1> HIDE DEF R, ranks
<1>7. /\ DOMAIN T = 1 .. Cardinality(D) /\ IsList(T)
      /\ \A k \in 1 .. Cardinality(D) : Nth(D, R, k) \in D /\ T[k] = records[Nth(D, R, k)]
  <2> DEFINE A == {records[i] : i \in DOMAIN records}
  <2>1. records \in Seq(A) /\ D \in SUBSET DOMAIN records
    BY DEF IsList
  <2> HIDE DEF A, D, T
  <2>2. /\ T \in Seq(A) /\ DOMAIN T = 1 .. Cardinality(D)
        /\ \A k \in 1 .. Cardinality(D) : Nth(D, R, k) \in D /\ T[k] = records[Nth(D, R, k)]
    BY <1>4, <1>6, <2>1, ListingSelects
  <2>3. QED
    BY <2>2, SequencesAreLists
<1> HIDE DEF D, T
<1>8. from \in [DOMAIN T -> D] /\ \A k \in DOMAIN T : T[k] = records[from[k]]
  BY <1>7
<1>9. \A i \in D : \E k \in DOMAIN T : from[k] = i
  BY <1>4, <1>5, <1>7, NthIsOnto
<1>10. ASSUME NEW k \in DOMAIN T, NEW l \in DOMAIN T, from[k] = from[l] PROVE k = l
  <2>1. k \in 1 .. Cardinality(D) /\ l \in 1 .. Cardinality(D) /\ Nth(D, R, k) = Nth(D, R, l)
    BY <1>7, <1>10
  <2>2. ~(k < l) /\ ~(l < k)
    BY <1>4, <1>5, <2>1, NthFollowsOrder
  <2>3. QED
    BY <1>5, <2>1, <2>2
<1> HIDE DEF from
<1>11. Permutes(from, T, records)
  BY <1>8, <1>9, <1>10 DEF Permutes, D
<1>12. QED
  BY <1>7, <1>11 DEF T

(* The structs of the headers, in the order from, come first; those of the *)
(* binary that are mentioned and not among them follow.                    *)
HasStructs(base, from) ==
    /\ IsList(base) /\ Permutes(from, base, input.structs)
    /\ \A k \in DOMAIN base :
          k \in DOMAIN structs /\ structs[k] = ApplyToStruct(base[k], struct_layouts)
IsMissing(base, n) ==
    /\ n \in StructViews(functions) /\ n \in DOMAIN struct_layouts
    /\ \A k \in DOMAIN base : base[k].name # n
Injects(base, names) ==
    /\ \A k \in DOMAIN structs : k \in DOMAIN base \/ \E l \in DOMAIN names : k = Len(base) + l
    /\ \A l \in DOMAIN names :
          /\ l \in Nat \ {0} /\ Len(base) + l \in DOMAIN structs
          /\ structs[Len(base) + l].name = names[l] /\ IsMissing(base, names[l])
    /\ \A n : IsMissing(base, n)
              /\ (\E i \in DOMAIN struct_layouts[n].fields : struct_layouts[n].fields[i].offset >= 0)
              => \E l \in DOMAIN names : names[l] = n
    /\ \A k, l \in DOMAIN names : names[k] = names[l] => k = l

LEMMA NamesStay ==
    ASSUME NEW s, s = [name |-> s.name, size |-> s.size, fields |-> s.fields], NEW layouts
    PROVE  ApplyToStruct(s, layouts).name = s.name
<1> DEFINE lay == layouts[s.name]
           fields == [i \in DOMAIN s.fields |-> ApplyToField(s.fields[i], lay)]
           size == IF lay.size # None /\ lay.size > 0 THEN lay.size ELSE s.size
<1>1. \/ ApplyToStruct(s, layouts) = s
      \/ ApplyToStruct(s, layouts) = [s EXCEPT !.fields = fields, !.size = size]
  BY DEF ApplyToStruct
<1> HIDE DEF fields, size
<1>2. QED
  BY <1>1

LEMMA StructsAreApplied ==
    ASSUME input \in Inputs, LaidOut(struct_layouts), LayoutsApplied
    PROVE  \E base, from, names : HasStructs(base, from) /\ Injects(base, names)
<1> DEFINE base == SortByName(input.structs)
           applied == ApplyStructLayouts(base, struct_layouts)
           N == Injectable(applied, struct_layouts, StructViews(functions))
           names == Alphabetical(N)
           added == [i \in DOMAIN names |-> InjectedStruct(names[i], struct_layouts[names[i]])]
<1>1. IsList(input.structs) /\ \A i \in DOMAIN input.structs :
         LET s == input.structs[i] IN
         s.name \in DOMAIN Rank /\ s = [name |-> s.name, size |-> s.size, fields |-> s.fields]
  BY InputsAreRead, StructsAreFound DEF ToSet
<1>2. IsList(base) /\ \E from : Permutes(from, base, input.structs)
  BY <1>1, SortPermutes
<1>3. PICK from : Permutes(from, base, input.structs)
  BY <1>2
<1>4. \A k \in DOMAIN base :
         base[k] = [name |-> base[k].name, size |-> base[k].size, fields |-> base[k].fields]
  BY <1>1, <1>3 DEF Permutes
<1>5. DOMAIN base = 1 .. Len(base) /\ Len(base) \in Nat
  BY <1>2 DEF IsList
<1>6. CASE DOMAIN struct_layouts = {}
  <2>1. structs = base
    BY <1>6 DEF LayoutsApplied
  <2> HIDE DEF base
  <2>2. \A k \in DOMAIN base : ApplyToStruct(base[k], struct_layouts) = base[k]
    BY <1>6 DEF ApplyToStruct
  <2>3. HasStructs(base, from)
    BY <1>2, <1>3, <2>1, <2>2 DEF HasStructs
  <2>4. Injects(base, <<>>)
    BY <1>6, <2>1 DEF Injects, IsMissing
  <2>5. QED
    BY <2>3, <2>4
<1>7. CASE DOMAIN struct_layouts # {}
  <2>1. structs = applied \o added
    BY <1>7 DEF LayoutsApplied, InjectMissing
  <2>2. /\ DOMAIN applied = 1 .. Len(base) /\ applied \in Seq({applied[k] : k \in DOMAIN applied})
        /\ \A k \in DOMAIN base : applied[k] = ApplyToStruct(base[k], struct_layouts)
    <3> HIDE DEF base
    <3>1. QED
      BY <1>5 DEF ApplyStructLayouts
  <2>3. \A k \in DOMAIN base : applied[k].name = base[k].name
    <3> HIDE DEF base, applied
    <3>1. QED
      BY <1>4, <2>2, NamesStay
  <2>4. N \in SUBSET DOMAIN struct_layouts /\ N \in SUBSET DOMAIN Rank /\ IsFiniteSet(N)
    <3>1. N \in SUBSET DOMAIN struct_layouts
      BY DEF Injectable
    <3> HIDE DEF N
    <3>2. QED
      BY <3>1, FS_Subset DEF LaidOut
  <2>5. \A n : n \in N <=>
           IsMissing(base, n) /\ \E i \in DOMAIN struct_layouts[n].fields :
                                    struct_layouts[n].fields[i].offset >= 0
    <3> HIDE DEF base, applied
    <3>1. QED
      BY <1>5, <2>2, <2>3 DEF Injectable, IsMissing
  <2> HIDE DEF base, applied, N
  <2>6. /\ DOMAIN names = 1 .. Cardinality(N) /\ Cardinality(N) \in Nat
        /\ \A l \in DOMAIN names : names[l] \in N
        /\ \A n \in N : \E l \in DOMAIN names : names[l] = n
        /\ \A k, l \in DOMAIN names : names[k] = names[l] => k = l
    BY <2>4, AlphabeticalTakesAll
  <2> HIDE DEF names
  <2>7. /\ DOMAIN added = 1 .. Cardinality(N) /\ added \in Seq({added[l] : l \in DOMAIN added})
        /\ \A l \in DOMAIN added : added[l].name = names[l]
    <3>1. \A name, lay : InjectedStruct(name, lay).name = name
      BY DEF InjectedStruct
    <3>2. DOMAIN added = 1 .. Cardinality(N)
      BY <2>6
    <3>3. \A l \in DOMAIN added : added[l].name = names[l]
      BY <3>1
    <3> DEFINE V == {added[l] : l \in DOMAIN added}
    <3>4. \A l \in DOMAIN added : added[l] \in V
      OBVIOUS
    <3>5. added = [l \in DOMAIN added |-> added[l]]
      OBVIOUS
    <3> HIDE DEF added, V
    <3>6. added \in Seq(V)
      BY <2>6, <3>2, <3>4, <3>5
    <3>7. QED
      BY <3>2, <3>3, <3>6 DEF V
  <2> HIDE DEF added
  <2>8. /\ DOMAIN structs = 1 .. Len(base) + Cardinality(N)
        /\ \A k \in 1 .. Len(base) : structs[k] = applied[k]
        /\ \A l \in 1 .. Cardinality(N) : structs[Len(base) + l] = added[l]
    <3>1. Len(applied) = Len(base) /\ Len(added) = Cardinality(N)
      BY <1>5, <2>2, <2>6, <2>7
    <3>2. /\ DOMAIN (applied \o added) = 1 .. Len(applied) + Len(added)
          /\ \A k \in 1 .. Len(applied) : (applied \o added)[k] = applied[k]
          /\ \A l \in 1 .. Len(added) : (applied \o added)[Len(applied) + l] = added[l]
      <4>1. /\ applied \in Seq({applied[k] : k \in DOMAIN applied})
            /\ added \in Seq({added[l] : l \in DOMAIN added})
        BY <2>2, <2>7
      <4>2. QED
        BY <4>1, PutEndToEnd
    <3>3. QED
      BY <2>1, <3>1, <3>2
  <2>9. HasStructs(base, from)
    <3>1. \A k \in DOMAIN base : k \in DOMAIN structs
      BY <1>5, <2>6, <2>8
    <3>2. QED
      BY <1>2, <1>3, <1>5, <2>2, <2>8, <3>1 DEF HasStructs
  <2>10. Injects(base, names)
    <3>1. ASSUME NEW k \in DOMAIN structs, k \notin DOMAIN base
          PROVE  \E l \in DOMAIN names : k = Len(base) + l
      <4>1. k - Len(base) \in DOMAIN names /\ k = Len(base) + (k - Len(base))
        BY <1>5, <2>6, <2>8, <3>1
      <4>2. QED
        BY <4>1
    <3>2. ASSUME NEW l \in DOMAIN names
          PROVE  /\ l \in Nat \ {0} /\ Len(base) + l \in DOMAIN structs
                 /\ structs[Len(base) + l].name = names[l] /\ IsMissing(base, names[l])
      <4>1. l \in 1 .. Cardinality(N) /\ l \in Nat \ {0} /\ Len(base) + l \in DOMAIN structs
        BY <1>5, <2>6, <2>8
      <4>2. QED
        BY <2>5, <2>6, <2>7, <2>8, <4>1
    <3>3. QED
      BY <2>5, <2>6, <3>1, <3>2 DEF Injects
  <2>11. QED
    BY <2>9, <2>10
<1>8. QED
  BY <1>6, <1>7

LEMMA FieldEntryFinds ==
    ASSUME NEW lay, IsList(lay.fields), NEW name
    PROVE  \/ /\ FieldEntry(lay, name) = 0
              /\ \A i \in DOMAIN lay.fields :
                    ~(lay.fields[i].name = name /\ lay.fields[i].offset >= 0)
           \/ /\ FieldEntry(lay, name) # 0 /\ FieldEntry(lay, name) \in DOMAIN lay.fields
              /\ lay.fields[FieldEntry(lay, name)].name = name
              /\ lay.fields[FieldEntry(lay, name)].offset >= 0
<1> DEFINE s == lay.fields
           K == {i \in 1 .. Len(s) : s[i].name = name /\ s[i].offset >= 0}
           i == FieldEntry(lay, name)
<1>1. i = IF K # {} THEN Min(K) ELSE 0
  BY DEF FieldEntry, SelectInSeq
<1>2. DOMAIN s = 1 .. Len(s) /\ Len(s) \in Nat
  BY DEF IsList
<1>3. K \in SUBSET DOMAIN s
  BY <1>2
<1>4. K # {} => Min(K) \in K
  <2> HIDE DEF K
  <2>1. QED
    BY <1>3, MinIsFirst DEF IsList
<1>5. /\ \A j \in K : j \in DOMAIN s /\ j # 0 /\ s[j].name = name /\ s[j].offset >= 0
      /\ K = {} => \A j \in DOMAIN s : ~(s[j].name = name /\ s[j].offset >= 0)
  BY <1>2
<1> HIDE DEF K, s, i
<1>6. QED
  BY <1>1, <1>4, <1>5 DEF s, i

(* What the layouts make of a field.                                       *)
FieldIsRight(s, before, after) ==
    /\ after.name = before.name
    /\ IF Offered(s.name, before) = {} THEN after = before
       ELSE \E e \in Offered(s.name, before) : after.offset = e.offset
    /\ after.kind # before.kind => before.offset < 0 /\ before.kind = "ptr"

LEMMA FieldsAreRight ==
    ASSUME LaidOut(struct_layouts),
           NEW s, s = [name |-> s.name, size |-> s.size, fields |-> s.fields],
           NEW k \in DOMAIN s.fields, s.fields[k].offset \in Int,
           s.fields[k] = [name |-> s.fields[k].name, offset |-> s.fields[k].offset,
                          kind |-> s.fields[k].kind, len |-> s.fields[k].len,
                          view |-> s.fields[k].view]
    PROVE  FieldIsRight(s, s.fields[k], ApplyToStruct(s, struct_layouts).fields[k])
<1> DEFINE before == s.fields[k]
           lay == struct_layouts[s.name]
           fields == [i \in DOMAIN s.fields |-> ApplyToField(s.fields[i], lay)]
           size == IF lay.size # None /\ lay.size > 0 THEN lay.size ELSE s.size
           j == FieldEntry(lay, before.name)
<1>1. CASE s.name \notin DOMAIN struct_layouts
  BY <1>1 DEF ApplyToStruct, FieldIsRight, Offered
<1>2. CASE s.name \in DOMAIN struct_layouts
  <2>1. ApplyToStruct(s, struct_layouts) = [s EXCEPT !.fields = fields, !.size = size]
    BY <1>2 DEF ApplyToStruct
  <2>2. fields[k] = ApplyToField(before, lay)
    OBVIOUS
  <2> HIDE DEF fields, size
  <2>3. ApplyToStruct(s, struct_layouts).fields[k] = ApplyToField(before, lay)
    BY <2>1, <2>2
  <2>4. Offered(s.name, before) =
           {e \in ToSet(lay.fields) : e.name = before.name /\ e.offset >= 0}
    BY <1>2 DEF Offered
  <2>5. IsList(lay.fields)
    BY <1>2 DEF LaidOut
  <2>6. \/ j = 0 /\ Offered(s.name, before) = {}
        \/ j # 0 /\ lay.fields[j] \in Offered(s.name, before)
    <3> HIDE DEF lay, before
    <3>1. QED
      BY <2>4, <2>5, FieldEntryFinds DEF ToSet
  <2>7. CASE j = 0
    <3>1. ApplyToField(before, lay) = before
      BY <2>7 DEF ApplyToField
    <3>2. QED
      BY <2>3, <2>6, <2>7, <3>1 DEF FieldIsRight
  <2>8. CASE j # 0
    <3> DEFINE e == lay.fields[j]
    <3>1. ApplyToField(before, lay) = ApplyEntry(before, e)
      BY <2>8 DEF ApplyToField
    <3>2. e \in Offered(s.name, before)
      BY <2>6, <2>8
    <3> HIDE DEF e, lay, j
    <3>3. /\ before.offset \in Int /\ before.offset # None
          /\ before = [name |-> before.name, offset |-> before.offset, kind |-> before.kind,
                       len |-> before.len, view |-> before.view]
      BY TextIsOrdered
    <3> HIDE DEF before
    <3>4. /\ ApplyEntry(before, e).name = before.name
          /\ ApplyEntry(before, e).offset = e.offset
          /\ ApplyEntry(before, e).kind # before.kind => before.offset < 0 /\ before.kind = "ptr"
      BY <3>3 DEF ApplyEntry, Unknown
    <3>5. QED
      BY <2>3, <3>1, <3>2, <3>4 DEF FieldIsRight, before
  <2>9. QED
    BY <2>7, <2>8
<1>3. QED
  BY <1>1, <1>2

LEMMA OffsetsAgree ==
    ASSUME FlowInv
    PROVE  BinaryOffsetsWin
<1> SUFFICES ASSUME pc = "identity", NEW s \in ToSet(input.structs)
             PROVE  \E i \in StructNamed(s.name) : \A k \in DOMAIN s.fields :
                        FieldIsRight(s, s.fields[k], structs[i].fields[k])
  BY DEF BinaryOffsetsWin, FieldIsRight
<1>1. input \in Inputs /\ LaidOut(struct_layouts) /\ LayoutsApplied
  BY LayoutsAreLaidOut DEF FlowInv, Reading
<1>2. PICK base, from, names : HasStructs(base, from) /\ Injects(base, names)
  BY <1>1, StructsAreApplied
<1>3. PICK i \in DOMAIN input.structs : input.structs[i] = s
  BY DEF ToSet
<1>4. PICK k \in DOMAIN base : from[k] = i /\ base[k] = s
  BY <1>2, <1>3 DEF HasStructs, Permutes
<1>5. k \in DOMAIN structs /\ structs[k] = ApplyToStruct(s, struct_layouts)
  BY <1>2, <1>4 DEF HasStructs
<1>6. /\ s = [name |-> s.name, size |-> s.size, fields |-> s.fields]
      /\ \A l \in DOMAIN s.fields :
            /\ s.fields[l] = [name |-> s.fields[l].name, offset |-> s.fields[l].offset,
                              kind |-> s.fields[l].kind, len |-> s.fields[l].len,
                              view |-> s.fields[l].view]
            /\ s.fields[l].offset \in Int
  BY <1>1, StructsAreFound
<1>7. k \in StructNamed(s.name)
  BY <1>5, <1>6, NamesStay DEF StructNamed
<1>8. \A l \in DOMAIN s.fields : FieldIsRight(s, s.fields[l], structs[k].fields[l])
  BY <1>1, <1>5, <1>6, FieldsAreRight
<1>9. QED
  BY <1>7, <1>8

LEMMA StructsAgree ==
    ASSUME FlowInv
    PROVE  MentionedStructsExist
<1> SUFFICES ASSUME pc = "identity"
             PROVE
        /\ \A n \in StructViews(functions) \cap DOMAIN struct_layouts :
            (\E e \in ToSet(struct_layouts[n].fields) : e.offset >= 0) => StructNamed(n) # {}
        /\ \A i, j \in DOMAIN structs : structs[i].name = structs[j].name => i = j
        /\ \A i \in DOMAIN structs :
            \/ structs[i].name \in {s.name : s \in ToSet(input.structs)}
            \/ structs[i].name \in StructViews(functions)
  BY DEF MentionedStructsExist
<1>1. input \in Inputs /\ LaidOut(struct_layouts) /\ LayoutsApplied
  BY LayoutsAreLaidOut DEF FlowInv, Reading
<1>2. PICK base, from, names : HasStructs(base, from) /\ Injects(base, names)
  BY <1>1, StructsAreApplied
<1>3. /\ \A i, j \in DOMAIN input.structs :
            input.structs[i].name = input.structs[j].name => i = j
      /\ \A i \in DOMAIN input.structs : LET s == input.structs[i] IN
            s = [name |-> s.name, size |-> s.size, fields |-> s.fields]
  BY <1>1, StructsAreFound DEF ToSet
<1>4. \A k \in DOMAIN base :
         /\ from[k] \in DOMAIN input.structs /\ base[k] = input.structs[from[k]]
         /\ k \in DOMAIN structs /\ structs[k].name = base[k].name
  <2> TAKE k \in DOMAIN base
  <2>1. from[k] \in DOMAIN input.structs /\ base[k] = input.structs[from[k]]
    BY <1>2 DEF HasStructs, Permutes
  <2>2. k \in DOMAIN structs /\ structs[k] = ApplyToStruct(base[k], struct_layouts)
    BY <1>2 DEF HasStructs
  <2> DEFINE s == base[k]
  <2>5. s = [name |-> s.name, size |-> s.size, fields |-> s.fields]
    BY <1>3, <2>1
  <2> HIDE DEF s
  <2>6. ApplyToStruct(s, struct_layouts).name = s.name
    BY <2>5, NamesStay
  <2>3. structs[k].name = base[k].name
    BY <2>2, <2>6 DEF s
  <2>4. QED
    BY <2>1, <2>2, <2>3
<1>5. \A k, l \in DOMAIN base : base[k].name = base[l].name => k = l
  BY <1>2, <1>3, <1>4 DEF HasStructs, Permutes
<1>6. ASSUME NEW n \in StructViews(functions) \cap DOMAIN struct_layouts,
             NEW e \in ToSet(struct_layouts[n].fields), e.offset >= 0
      PROVE  StructNamed(n) # {}
  <2>1. CASE \E k \in DOMAIN base : base[k].name = n
    BY <1>4, <2>1 DEF StructNamed
  <2>2. CASE \A k \in DOMAIN base : base[k].name # n
    <3>1. IsMissing(base, n)
      BY <2>2 DEF IsMissing
    <3>2. \E i \in DOMAIN struct_layouts[n].fields : struct_layouts[n].fields[i].offset >= 0
      BY <1>6 DEF ToSet
    <3>3. PICK l \in DOMAIN names : names[l] = n
      BY <1>2, <3>1, <3>2 DEF Injects
    <3>4. QED
      BY <1>2, <3>3 DEF Injects, StructNamed
  <2>3. QED
    BY <2>1, <2>2
<1>7. Len(base) \in Nat /\ DOMAIN base = 1 .. Len(base)
  BY <1>2 DEF HasStructs, IsList
<1>8. \A k \in DOMAIN structs : k \notin DOMAIN base => \E l \in DOMAIN names :
         /\ k = Len(base) + l
         /\ structs[k].name = names[l] /\ IsMissing(base, structs[k].name)
  BY <1>2 DEF Injects
<1>9. ASSUME NEW i \in DOMAIN structs, NEW j \in DOMAIN structs,
             structs[i].name = structs[j].name
      PROVE  i = j
  <2>1. CASE i \in DOMAIN base /\ j \in DOMAIN base
    BY <1>4, <1>5, <1>9, <2>1
  <2>2. CASE i \in DOMAIN base /\ j \notin DOMAIN base
    BY <1>4, <1>8, <1>9, <2>2 DEF IsMissing
  <2>3. CASE i \notin DOMAIN base /\ j \in DOMAIN base
    BY <1>4, <1>8, <1>9, <2>3 DEF IsMissing
  <2>4. CASE i \notin DOMAIN base /\ j \notin DOMAIN base
    <3>1. PICK k \in DOMAIN names : i = Len(base) + k /\ structs[i].name = names[k]
      BY <1>8, <2>4
    <3>2. PICK l \in DOMAIN names : j = Len(base) + l /\ structs[j].name = names[l]
      BY <1>8, <2>4
    <3>3. k = l
      BY <1>2, <1>9, <3>1, <3>2 DEF Injects
    <3>4. QED
      BY <3>1, <3>2, <3>3
  <2>5. QED
    BY <2>1, <2>2, <2>3, <2>4
<1>10. ASSUME NEW i \in DOMAIN structs
       PROVE  \/ structs[i].name \in {s.name : s \in ToSet(input.structs)}
              \/ structs[i].name \in StructViews(functions)
  <2>1. CASE i \in DOMAIN base
    BY <1>4, <2>1 DEF ToSet
  <2>2. CASE i \notin DOMAIN base
    BY <1>8, <2>2 DEF IsMissing
  <2>3. QED
    BY <2>1, <2>2
<1>11. QED
  BY <1>6, <1>9, <1>10

-----------------------------------------------------------------------------
(* The types                                                               *)

Tables ==
    /\ Cardinality(RvaNames) = Len(rva_map)
    /\ IsInjective([i \in DOMAIN signatures |-> signatures[i].name])
    /\ \A n \in DOMAIN struct_layouts :
        IsInjective([i \in DOMAIN struct_layouts[n].fields |-> struct_layouts[n].fields[i].name])
    /\ Sorted(functions)
IsFile(f) == f \in {EmptyFile, Torn} \/ f.state = "whole"
FilesInv == pc \in Places /\ whole \in BOOLEAN /\ IsFile(json) /\ IsFile(bin)

LEMMA SignaturesAreNamed ==
    ASSUME input \in Inputs, SignaturesRead
    PROVE  EachNameOnce(signatures)
<1>1. CASE ~input.sigs
  BY <1>1 DEF SignaturesRead, EachNameOnce
<1>2. CASE input.sigs
  <2> DEFINE rva(p) == ResolveRva(p, input.sections)
             sig(p) == TypeOf(input.types, input.ids, p)
             procs == Located(input.procs, input.sections)
             signed == [k \in DOMAIN procs |->
                  [name |-> procs[k].name, rva |-> rva(procs[k]), sig |-> sig(procs[k])]]
             K == {k \in DOMAIN signed : signed[k].sig # None}
             chosen == Selection(signed, K)
  <2>1. signatures = KeepHighest(chosen)
    BY <1>2 DEF SignaturesRead, PdbSignatures
  <2>2. /\ input.procs \in Seq({input.procs[k] : k \in DOMAIN input.procs})
        /\ \A p \in ToSet(input.procs) : ParsePdbutilInt(p.off) \in Int
        /\ \A g \in DOMAIN input.sections : input.sections[g] \in Int
    BY InputsAreRead DEF IsList
  <2>3. /\ procs \in Seq({input.procs[k] : k \in DOMAIN input.procs})
        /\ \A k \in DOMAIN procs : rva(procs[k]) \in Int \ {None}
    BY <2>2, LocatedAreProcedures
  <2> HIDE DEF procs, rva, sig
  <2>4. /\ signed \in Seq({signed[k] : k \in DOMAIN signed}) /\ DOMAIN signed = DOMAIN procs
        /\ \A k \in DOMAIN signed : signed[k].rva \in Int
    BY <2>3
  <2> HIDE DEF signed
  <2> DEFINE A == {signed[k] : k \in DOMAIN signed}
  <2>8. K \in SUBSET DOMAIN signed
    OBVIOUS
  <2> HIDE DEF A, K
  <2>5. /\ chosen \in Seq(A)
        /\ \A l \in DOMAIN chosen : \E k \in K : chosen[l] = signed[k]
    BY <2>4, <2>8, SelectionSelects, SelectionElements DEF A
  <2> HIDE DEF chosen
  <2>6. \A l \in DOMAIN chosen : chosen[l].rva \in Int
    BY <2>4, <2>5, <2>8
  <2>7. QED
    BY <2>1, <2>5, <2>6, KeepHighestKeeps DEF EachNameOnce
<1>3. QED
  BY <1>1, <1>2

LEMMA NamesAreCounted ==
    ASSUME NEW s, IsList(s), EachNameOnce(s)
    PROVE  Cardinality({s[i].name : i \in DOMAIN s}) = Len(s)
<1> DEFINE V == {s[i].name : i \in DOMAIN s}
           f == [i \in DOMAIN s |-> s[i].name]
<1>1. f \in Surjection(DOMAIN s, V)
  BY DEF Surjection
<1>2. f \in Injection(DOMAIN s, V)
  BY DEF Injection, IsInjective, EachNameOnce
<1>3. IsFiniteSet(DOMAIN s) /\ Cardinality(DOMAIN s) = Len(s)
  BY LengthCounts DEF IsList
<1> HIDE DEF f, V
<1>4. Cardinality(V) = Cardinality(DOMAIN s)
  BY <1>1, <1>2, <1>3, FS_Surjection
<1>5. QED
  BY <1>3, <1>4 DEF V

LEMMA TablesFit ==
    ASSUME FlowInv, pc # "failed"
    PROVE  Tables
<1>1. input \in Inputs /\ pc \in Places
  BY DEF FlowInv
<1>2. Cardinality(RvaNames) = Len(rva_map)
  <2>1. CASE pc \in Reading
    <3>1. rva_map = <<>>
      BY <2>1 DEF FlowInv
    <3>2. RvaNames = {} /\ Len(rva_map) = 0
      BY <3>1 DEF RvaNames
    <3>3. QED
      BY <3>2, FS_EmptySet
  <2>2. CASE pc \notin Reading
    <3>1. RvaTable(rva_map)
      BY <1>1, <2>2, RvasAreNamed DEF FlowInv
    <3>2. QED
      BY <3>1, NamesAreCounted DEF RvaTable, RvaNames
  <2>3. QED
    BY <2>1, <2>2
<1>3. IsInjective([i \in DOMAIN signatures |-> signatures[i].name])
  <2>1. EachNameOnce(signatures)
    <3>1. CASE pc \in {"load", "signatures"}
      BY <3>1 DEF FlowInv, EachNameOnce
    <3>2. CASE pc \notin {"load", "signatures"}
      BY <1>1, <3>2, SignaturesAreNamed DEF FlowInv
    <3>3. QED
      BY <3>1, <3>2
  <2>2. QED
    BY <2>1 DEF IsInjective, EachNameOnce
<1>4. ASSUME NEW n \in DOMAIN struct_layouts
      PROVE  IsInjective([i \in DOMAIN struct_layouts[n].fields |-> struct_layouts[n].fields[i].name])
  <2>1. pc \notin Reading \cup {"merge", "layouts"}
    <3>1. struct_layouts # <<>>
      OBVIOUS
    <3>2. QED
      BY <3>1 DEF FlowInv
  <2>2. LayoutsRead
    BY <2>1 DEF FlowInv
  <2>3. EachNameOnce(struct_layouts[n].fields)
    BY <1>1, <2>2, LayoutsAreLaidOut DEF LaidOut
  <2>4. QED
    BY <2>3 DEF IsInjective, EachNameOnce
<1>5. Sorted(functions)
  <2>1. CASE pc \in Reading \cup {"merge"}
    <3>1. functions = <<>>
      BY <2>1 DEF FlowInv
    <3>2. QED
      BY <3>1 DEF Sorted
  <2>2. CASE pc \notin Reading \cup {"merge"}
    BY <2>2, MergedIsMerged DEF IsMerged
  <2>3. QED
    BY <2>1, <2>2
<1>6. QED
  BY <1>2, <1>3, <1>4, <1>5 DEF Tables

(* A run that fails leaves the tables as they are.                         *)
LEMMA FailureKeeps == Tables /\ [Next]_vars /\ pc' = "failed" => Tables'
<1> SUFFICES ASSUME Tables, [Next]_vars, pc' = "failed" PROVE Tables'
  OBVIOUS
<1>1. UNCHANGED <<rva_map, signatures, struct_layouts, functions>>
  <2>1. CASE AstUnreadable \/ NoSignatures \/ NoRvas
    BY <2>1 DEF AstUnreadable, NoSignatures, NoRvas, Fail, runVars
  <2>2. CASE UNCHANGED vars
    BY <2>2 DEF vars
  <2>3. CASE LoadAst \/ ReadSignatures \/ ReadDwarfRvas \/ ReadPdbRvas \/ MergeAst \/ ReadLayouts
    BY <2>3 DEF LoadAst, ReadSignatures, ReadDwarfRvas, ReadPdbRvas, MergeAst, ReadLayouts
  <2>4. CASE ApplyLayouts \/ StampIdentity \/ OpenJson \/ DumpJson \/ OpenBin \/ WriteBin \/ Restart
    BY <2>4 DEF ApplyLayouts, StampIdentity, OpenJson, DumpJson, OpenBin, WriteBin, Restart
  <2>5. QED
    BY <2>1, <2>2, <2>3, <2>4 DEF Next
<1>2. QED
  BY <1>1 DEF Tables, RvaNames, Sorted

LEMMA FilesInvStep == FilesInv /\ [Next]_vars => FilesInv'
<1> SUFFICES ASSUME FilesInv, [Next]_vars PROVE FilesInv'
  OBVIOUS
<1> USE DEF FilesInv, Places, IsFile
<1>1. CASE AstUnreadable \/ NoSignatures \/ NoRvas \/ LoadAst
  BY <1>1 DEF AstUnreadable, NoSignatures, NoRvas, Fail, LoadAst, runVars
<1>2. CASE ReadSignatures \/ ReadDwarfRvas \/ ReadPdbRvas \/ MergeAst \/ ReadLayouts
  BY <1>2 DEF ReadSignatures, ReadDwarfRvas, ReadPdbRvas, MergeAst, ReadLayouts
<1>3. CASE ApplyLayouts \/ StampIdentity \/ Restart
  BY <1>3 DEF ApplyLayouts, StampIdentity, Restart, Fresh
<1>4. CASE OpenJson \/ DumpJson \/ OpenBin \/ WriteBin
  BY <1>4 DEF OpenJson, DumpJson, OpenBin, WriteBin, runVars, Whole
<1>5. CASE UNCHANGED vars
  BY <1>5 DEF vars
<1>6. QED
  BY <1>1, <1>2, <1>3, <1>4, <1>5 DEF Next

(* A name has one address, one signature and one layout, and functions are *)
(* sorted, in a run that fails as in one that ends.                        *)
THEOREM Phase2Types == Spec => []TypeOK
<1>1. Init => FilesInv
  BY DEF Init, FilesInv, Places, IsFile
<1>2. FlowInv /\ pc # "failed" => Tables
  BY TablesFit
<1>3. Init => pc # "failed"
  BY DEF Init
<1>4. Tables /\ [Next]_vars /\ pc' = "failed" => Tables'
  BY FailureKeeps
<1>5. Tables /\ FilesInv => TypeOK
  <2> SUFFICES ASSUME Tables, FilesInv PROVE TypeOK
    OBVIOUS
  <2>1. EmptyFile \in Files /\ Torn \in Files
    BY DEF EmptyFile, Torn, Files
  <2>2. \A f \in {json, bin} : f.state = "whole" => f \in Files
    BY Zenon DEF Files
  <2>3. {json, bin} \subseteq Files
    BY <2>1, <2>2, Zenon DEF FilesInv, IsFile
  <2>4. QED
    BY <2>3, Zenon DEF Tables, FilesInv, TypeOK, Sorted
<1> DEFINE Failed == pc = "failed"
<1>6. (FlowInv /\ ~Failed => Tables) /\ (Init => ~Failed) /\ (Tables /\ [Next]_vars /\ Failed' => Tables')
  BY <1>2, <1>3, <1>4
<1> HIDE DEF Failed
<1>7. QED
  BY <1>1, <1>5, <1>6, FilesInvStep, FlowInvHolds, PTL DEF Spec

(* Where headers and binary disagree on a field the binary is right; a     *)
(* field it does not know, and the kind of one whose offset was known,     *)
(* stay as the headers have them (_apply_struct_layouts, extract.py:255).  *)
THEOREM BinaryHasOffsets == Spec => []BinaryOffsetsWin
<1>1. FlowInv => BinaryOffsetsWin
  BY OffsetsAgree
<1>2. QED
  BY <1>1, FlowInvHolds, PTL

(* Every class that a function mentions and the binary lays out has one    *)
(* struct, and only those are added (_inject_missing_structs,              *)
(* extract.py:329).                                                        *)
THEOREM StructsAreMentioned == Spec => []MentionedStructsExist
<1>1. FlowInv => MentionedStructsExist
  BY StructsAgree
<1>2. QED
  BY <1>1, FlowInvHolds, PTL

-----------------------------------------------------------------------------
(* What is packed: every section of the manifest is sound                  *)

(* The arguments that a procedure type has in a PDB.                       *)
LEMMA ArgumentsAreListed ==
    ASSUME NEW T, NEW types \in Seq(T), \A i \in DOMAIN types : IsList(types[i].args),
           NEW ids, NEW p, TypeOf(types, ids, p) # None
    PROVE  IsList(TypeOf(types, ids, p).args)
<1> DEFINE chain == FunctionChain(types, ids, p.type)
           class == ClassName(types, IF chain.class # None THEN chain.class ELSE chain.fn.class)
           list == Record(types, chain.fn.arglist)
           args == ArgumentsOf(types, list)
           sig == SignatureOf(types, chain, class)
<1>1. TypeOf(types, ids, p) = sig /\ sig # None
  BY DEF TypeOf, ResolveProcedure
<1> HIDE DEF chain, class
<1>2. sig.args = args
  BY <1>1 DEF SignatureOf
<1> HIDE DEF sig
<1>3. CASE KindIn(list, {"ARGLIST"})
  <2>1. list # None
    BY <1>3 DEF KindIn
  <2>2. PICK i \in DOMAIN types : list = types[i]
    BY <2>1, RecordFinds
  <2>3. IsList(list.args)
    BY <2>2
  <2> HIDE DEF list
  <2>4. DOMAIN list.args = 1 .. Len(list.args) /\ Len(list.args) \in Nat
    BY <2>3 DEF IsList
  <2>5. args = [k \in DOMAIN list.args |->
                  ArgumentOf(ArgNames[k], CodeviewType(types, list.args[k]))]
    BY <1>3 DEF ArgumentsOf
  <2> HIDE DEF args
  <2>6. DOMAIN args = 1 .. Len(list.args) /\ args = [k \in 1 .. Len(list.args) |-> args[k]]
    BY <2>4, <2>5
  <2>7. QED
    BY <1>1, <1>2, <2>4, <2>6, ListedIsList
<1>4. CASE ~KindIn(list, {"ARGLIST"})
  BY <1>1, <1>2, <1>4 DEF ArgumentsOf, IsList
<1>5. QED
  BY <1>3, <1>4

SignedArgs(sigs) == IsList(sigs) /\ \A i \in DOMAIN sigs : IsList(sigs[i].sig.args)

LEMMA SignaturesListArgs ==
    ASSUME input \in Inputs, SignaturesRead
    PROVE  SignedArgs(signatures)
<1>1. CASE ~input.sigs
  BY <1>1 DEF SignaturesRead, SignedArgs, IsList
<1>2. CASE input.sigs
  <2> DEFINE rva(p) == ResolveRva(p, input.sections)
             sig(p) == TypeOf(input.types, input.ids, p)
             procs == Located(input.procs, input.sections)
             signed == [k \in DOMAIN procs |->
                  [name |-> procs[k].name, rva |-> rva(procs[k]), sig |-> sig(procs[k])]]
             K == {k \in DOMAIN signed : signed[k].sig # None}
             chosen == Selection(signed, K)
  <2>1. signatures = KeepHighest(chosen)
    BY <1>2 DEF SignaturesRead, PdbSignatures
  <2>2. /\ input.procs \in Seq({input.procs[k] : k \in DOMAIN input.procs})
        /\ \A p \in ToSet(input.procs) : ParsePdbutilInt(p.off) \in Int
        /\ \A g \in DOMAIN input.sections : input.sections[g] \in Int
    BY InputsAreRead DEF IsList
  <2>3. /\ procs \in Seq({input.procs[k] : k \in DOMAIN input.procs})
        /\ \A k \in DOMAIN procs : rva(procs[k]) \in Int \ {None}
    BY <2>2, LocatedAreProcedures
  <2>4. \A p : sig(p) # None => IsList(sig(p).args)
    <3> DEFINE types == input.types
               T == {types[i] : i \in DOMAIN types}
    <3>1. IsList(types) /\ \A i \in DOMAIN types : IsList(types[i].args)
      BY InputsAreRead DEF ToSet
    <3>2. types \in Seq(T)
      BY <3>1 DEF IsList
    <3> HIDE DEF types, T
    <3>3. \A ids, p : TypeOf(types, ids, p) # None => IsList(TypeOf(types, ids, p).args)
      BY <3>1, <3>2, ArgumentsAreListed
    <3>4. QED
      BY <3>3 DEF types
  <2> HIDE DEF procs, rva, sig
  <2>5. /\ signed \in Seq({signed[k] : k \in DOMAIN signed})
        /\ \A k \in DOMAIN signed : /\ signed[k].rva \in Int
                                    /\ signed[k].sig # None => IsList(signed[k].sig.args)
    BY <2>3, <2>4
  <2> HIDE DEF signed
  <2> DEFINE A == {signed[k] : k \in DOMAIN signed}
  <2>6. K \in SUBSET DOMAIN signed /\ \A k \in K : signed[k].sig # None
    OBVIOUS
  <2> HIDE DEF A, K
  <2>7. /\ chosen \in Seq(A)
        /\ \A l \in DOMAIN chosen : \E k \in K : chosen[l] = signed[k]
    BY <2>5, <2>6, SelectionSelects, SelectionElements DEF A
  <2> HIDE DEF chosen
  <2>8. \A l \in DOMAIN chosen : chosen[l].rva \in Int /\ IsList(chosen[l].sig.args)
    BY <2>5, <2>6, <2>7
  <2> DEFINE T == KeepHighest(chosen)
  <2>9. T \in Seq(A) /\ \A k \in DOMAIN T : \E l \in DOMAIN chosen : T[k] = chosen[l]
    BY <2>7, <2>8, KeepHighestKeeps
  <2> HIDE DEF T
  <2>10. IsList(T) /\ \A k \in DOMAIN T : IsList(T[k].sig.args)
    BY <2>8, <2>9, SequencesAreLists
  <2>11. QED
    BY <2>1, <2>10 DEF SignedArgs, T
<1>3. QED
  BY <1>1, <1>2

LEMMA SignatureForFinds ==
    ASSUME NEW sigs, SignedArgs(sigs), NEW name, NEW rva
    PROVE  LET sig == SignatureFor(sigs, name, rva) IN sig = None \/ IsList(sig.args)
<1> DEFINE K == {i \in 1 .. Len(sigs) : sigs[i].name = name}
           L == {i \in 1 .. Len(sigs) : sigs[i].rva = rva}
           first == IF K # {} THEN Min(K) ELSE 0
           last == IF L # {} THEN Max(L) ELSE 0
           sig == SignatureFor(sigs, name, rva)
<1>1. sig = CASE first # 0 -> sigs[first].sig
            [] first = 0 /\ last # 0 -> sigs[last].sig
            [] OTHER -> None
  BY DEF SignatureFor, SelectInSeq, SelectLastInSeq
<1>2. sigs \in Seq({sigs[k] : k \in DOMAIN sigs}) /\ DOMAIN sigs = 1 .. Len(sigs)
  BY DEF SignedArgs, IsList
<1>3. K \in SUBSET DOMAIN sigs /\ L \in SUBSET DOMAIN sigs
  BY <1>2
<1> HIDE DEF K, L
<1>4. (first # 0 => first \in DOMAIN sigs) /\ (last # 0 => last \in DOMAIN sigs)
  BY <1>2, <1>3, MinIsFirst, MaxIsLast
<1> HIDE DEF first, last, sig
<1>5. QED
  BY <1>1, <1>4 DEF SignedArgs, sig

LEMMA SignatureListsArgs ==
    ASSUME NEW r, IsRecord(r), IsList(r.args), NEW sig, sig = None \/ IsList(sig.args),
           NEW preserve_ast
    PROVE  IsList(ApplySignature(r, sig, preserve_ast).args)
<1>1. CASE sig = None
  BY <1>1 DEF ApplySignature
<1>2. CASE sig # None
  <2> DEFINE ret == IF r.ret.text = "ptr" /\ sig.ret.text # "ptr" THEN sig.ret ELSE r.ret
             args == IF r.args = <<>> THEN sig.args ELSE r.args
             view == IF preserve_ast
                     THEN IF r.member /\ r.self_view = None THEN sig.self_view ELSE r.self_view
                     ELSE sig.self_view
             member == IF preserve_ast THEN r.member ELSE sig.member
  <2>1. ApplySignature(r, sig, preserve_ast) =
             [r EXCEPT !.ret = ret, !.args = args, !.self_view = view, !.member = member]
    BY <1>2 DEF ApplySignature
  <2>2. IsList(args)
    BY <1>2
  <2> HIDE DEF ret, args, view, member
  <2>3. [r EXCEPT !.ret = ret, !.args = args, !.self_view = view, !.member = member].args = args
    BY DEF IsRecord
  <2>4. QED
    BY <2>1, <2>2, <2>3
<1>3. QED
  BY <1>1, <1>2

LEMMA ViewsListArgs ==
    ASSUME NEW r, IsRecord(r), IsList(r.args)
    PROVE  IsList(FixArgViews(r).args)
<1> DEFINE views == NameViews[r.mangled]
           place(i) == Cardinality({j \in 1 .. i : r.args[j].kind = "ptr"})
           args == [i \in DOMAIN r.args |->
            IF /\ r.args[i].kind = "ptr" /\ place(i) \in DOMAIN views
               /\ r.args[i].view \in BadViews \cup {None}
            THEN [r.args[i] EXCEPT !.view = views[place(i)]]
            ELSE r.args[i]]
<1>1. FixArgViews(r) = [r EXCEPT !.args = args]
  BY DEF FixArgViews
<1> HIDE DEF views, place
<1>2. DOMAIN r.args = 1 .. Len(r.args) /\ Len(r.args) \in Nat
  BY DEF IsList
<1>3. DOMAIN args = 1 .. Len(r.args) /\ args = [i \in 1 .. Len(r.args) |-> args[i]]
  BY <1>2
<1> HIDE DEF args
<1>4. IsList(args)
  BY <1>2, <1>3, ListedIsList
<1>5. FixArgViews(r).args = args
  BY <1>1 DEF IsRecord
<1>6. QED
  BY <1>4, <1>5

LEMMA MergeListsArgs ==
    ASSUME NEW rvas, NEW sigs, SignedArgs(sigs), NEW works, NEW fn, IsList(fn.args),
           IsList(rvas)
    PROVE  IsList(MergeOne(works, rvas, sigs, fn).record.args)
<1> DEFINE match == MatchOf(works, rvas, fn)
           self == SelfEntry(works, rvas, fn)
           used == IF match = 0 THEN self ELSE match
           rva == IF used = 0 THEN None ELSE rvas[used].rva
           r == [flat |-> fn.flat, mangled |-> fn.mangled, rva |-> rva, loc |-> fn.loc,
              ret |-> fn.ret,
              member |-> fn.member \/ self # 0,
              self_view |-> IF self # 0 THEN fn.self_class ELSE fn.self_view,
              args |-> IF self # 0 THEN Tail(fn.args) ELSE fn.args]
           sig == SignatureFor(sigs, IF used = 0 THEN fn.mangled ELSE rvas[used].name, rva)
           signed == ApplySignature(r, sig, TRUE)
           name == CASE used = 0 -> fn.mangled
                  [] used # 0 /\ Symbol[rvas[used].name].mangled -> rvas[used].name
                  [] used # 0 /\ ~Symbol[rvas[used].name].mangled
                        /\ MangledAt(rvas, rva) # None -> MangledAt(rvas, rva)
                  [] OTHER -> fn.mangled
           named == [signed EXCEPT !.mangled = name]
<1>1. MergeOne(works, rvas, sigs, fn).record = FixArgViews(named)
  BY DEF MergeOne
<1>2. self # 0 => fn.args # <<>>
  BY DEF SelfEntry
<1> HIDE DEF match, self
<1>3. IsList(IF self # 0 THEN Tail(fn.args) ELSE fn.args)
  <2> DEFINE A == {fn.args[k] : k \in DOMAIN fn.args}
  <2>1. fn.args \in Seq(A)
    BY DEF IsList
  <2> HIDE DEF A
  <2>2. fn.args # <<>> => Tail(fn.args) \in Seq(A)
    BY <2>1
  <2>3. QED
    BY <1>2, <2>1, <2>2, SequencesAreLists
<1>4. IsRecord(r) /\ IsList(r.args)
  BY <1>3 DEF IsRecord
<1>5. sig = None \/ IsList(sig.args)
  BY SignatureForFinds
<1> HIDE DEF r, sig, name, rva, used
<1>6. SignatureKeeps(r, signed) /\ IsList(signed.args)
  BY <1>4, <1>5, ApplySignatureKeeps, SignatureListsArgs
<1> HIDE DEF signed
<1>7. IsRecord(named) /\ named.args = signed.args
  BY <1>6 DEF IsRecord, SignatureKeeps
<1> HIDE DEF named
<1>8. QED
  BY <1>1, <1>6, <1>7, ViewsListArgs

LEMMA StubListsArgs ==
    ASSUME NEW sigs, SignedArgs(sigs), NEW name, NEW rva
    PROVE  IsList(StubRecord(sigs, name, rva).args)
<1> DEFINE r == [flat |-> name, mangled |-> name, rva |-> rva, loc |-> None,
                 ret |-> [text |-> "ptr", of |-> None], member |-> FALSE, self_view |-> None,
                 args |-> <<>>]
           sig == SignatureFor(sigs, name, rva)
<1>1. StubRecord(sigs, name, rva) = ApplySignature(r, sig, FALSE)
  BY DEF StubRecord
<1>2. IsRecord(r) /\ IsList(r.args)
  BY DEF IsRecord, IsList
<1>3. sig = None \/ IsList(sig.args)
  BY SignatureForFinds
<1> HIDE DEF r, sig
<1>4. QED
  BY <1>1, <1>2, <1>3, SignatureListsArgs

LEMMA MergedListArgs ==
    ASSUME NEW rvas, RvaTable(rvas), NEW sigs, SignedArgs(sigs), NEW works, NEW fns, NEW kept,
           kept = Mergeable(fns), IsList(kept), \A i \in DOMAIN kept : Declared(kept[i])
    PROVE  LET M == MergeFunctions(works, fns, rvas, sigs)
           IN  \A i \in DOMAIN M : IsList(M[i].args)
<1> DEFINE merged == [i \in DOMAIN kept |-> MergeOne(works, rvas, sigs, kept[i])]
           A == [i \in DOMAIN merged |-> merged[i].record]
           consumed == {merged[i].rva : i \in DOMAIN merged}
           left == Selection(rvas, {i \in Firsts(RvasOf(rvas)) :
            rvas[i].rva \notin consumed /\ StubName(rvas, rvas[i].rva) # None})
           B == Stubs(rvas, sigs, consumed)
           M == MergeFunctions(works, fns, rvas, sigs)
           a == Len(kept)
           b == Len(B)
<1>1. M = A \o B
  BY DEF MergeFunctions
<1>2. DOMAIN kept = 1 .. a /\ a \in Nat
  BY DEF IsList
<1>3. ASSUME NEW i \in 1 .. a PROVE IsList(A[i].args)
  <2>1. IsList(kept[i].args) /\ A[i] = MergeOne(works, rvas, sigs, kept[i]).record
    BY <1>2 DEF Declared
  <2>2. QED
    BY <2>1, MergeListsArgs DEF RvaTable
<1>4. A = [i \in 1 .. a |-> A[i]]
  BY <1>2
<1>5. B = [i \in DOMAIN left |-> StubRecord(sigs, StubName(rvas, left[i].rva), left[i].rva)]
  BY DEF Stubs
<1>7. StubsFill(rvas, consumed, B)
  BY StubsAreRight
<1> HIDE DEF left, B
<1>6. \A i \in DOMAIN B : IsList(B[i].args)
  BY <1>5, StubListsArgs
<1> HIDE DEF merged, A, M, consumed, a
<1>8. DOMAIN B = 1 .. b /\ b \in Nat /\ B = [i \in 1 .. b |-> B[i]]
  BY <1>7 DEF StubsFill, IsList
<1> HIDE DEF b
<1> DEFINE V == {A[i] : i \in 1 .. a} \cup {B[i] : i \in 1 .. b}
<1>9. /\ (\A i \in 1 .. a : A[i] \in V) /\ (\A i \in 1 .. b : B[i] \in V)
      /\ \A v \in V : IsList(v.args)
  BY <1>3, <1>6, <1>8
<1> HIDE DEF V
<1>10. A \in Seq(V) /\ B \in Seq(V)
  BY <1>2, <1>4, <1>8, <1>9
<1>11. M \in Seq(V)
  BY <1>1, <1>10
<1>12. \A i \in DOMAIN M : M[i] \in V
  BY <1>11
<1>13. QED
  BY <1>9, <1>12 DEF M

LEMMA FunctionsAreSound ==
    ASSUME FlowInv, pc \notin Reading \cup {"merge", "failed"}
    PROVE  /\ IsList(functions)
           /\ \A k \in DOMAIN functions :
                 functions[k].flat \in DOMAIN Rank /\ IsList(functions[k].args)
<1> DEFINE works == input.demangler
           M == MergeFunctions(works, input.functions, rva_map, signatures)
           Flat(k) == FlatName(works, k)
<1>1. /\ input \in Inputs /\ RvasRead /\ SignaturesRead
      /\ functions = SortRecords(ApplyFlatNames(works, M))
  BY DEF FlowInv, Reading, FunctionsMerged, MergedFunctions
<1>2. RvaTable(rva_map) /\ SignedArgs(signatures)
  BY <1>1, RvasAreNamed, SignaturesListArgs
<1>3. IsList(Kept) /\ \A i \in DOMAIN Kept : Declared(Kept[i])
  BY <1>1, KeptAreDeclared
<1>4. MergeFills(rva_map, Kept, M)
  BY <1>2, <1>3, MergeIsRight DEF Kept
<1>5. \A i \in DOMAIN M : IsList(M[i].args)
  BY <1>2, <1>3, MergedListArgs DEF Kept
<1> HIDE DEF M
<1>6. /\ IsList(M)
      /\ \A i \in DOMAIN M : IsRecord(M[i]) /\ M[i].mangled \in DOMAIN Symbol
  BY <1>4 DEF MergeFills
<1>7. IsList(functions) /\ \E from : ComesFrom(works, functions, M, from)
  BY <1>1, <1>6, OutputIsMerged
<1>8. PICK from : ComesFrom(works, functions, M, from)
  BY <1>7
<1>9. \A n \in DOMAIN Symbol : Flat(n) \in DOMAIN Rank
  BY SymbolsAreNames DEF FlatName
<1> HIDE DEF Flat
<1>10. ASSUME NEW k \in DOMAIN functions
       PROVE  functions[k].flat \in DOMAIN Rank /\ IsList(functions[k].args)
  <2> DEFINE r == M[from[k]]
  <2>1. from[k] \in DOMAIN M /\ functions[k] = [r EXCEPT !.flat = Flat(r.mangled)]
    BY <1>8 DEF ComesFrom, Flat
  <2>2. IsRecord(r) /\ r.mangled \in DOMAIN Symbol /\ IsList(r.args)
    BY <1>5, <1>6, <2>1
  <2> HIDE DEF r
  <2>3. functions[k].flat = Flat(r.mangled) /\ functions[k].args = r.args
    BY <2>1, <2>2 DEF IsRecord
  <2>4. QED
    BY <1>9, <2>2, <2>3
<1>11. QED
  BY <1>7, <1>10

LEMMA AppliedStructListsFields ==
    ASSUME NEW s, s = [name |-> s.name, size |-> s.size, fields |-> s.fields],
           IsList(s.fields), NEW layouts
    PROVE  IsList(ApplyToStruct(s, layouts).fields)
<1> DEFINE lay == layouts[s.name]
           fields == [i \in DOMAIN s.fields |-> ApplyToField(s.fields[i], lay)]
           size == IF lay.size # None /\ lay.size > 0 THEN lay.size ELSE s.size
<1>1. \/ ApplyToStruct(s, layouts) = s
      \/ ApplyToStruct(s, layouts) = [s EXCEPT !.fields = fields, !.size = size]
  BY DEF ApplyToStruct
<1>2. DOMAIN s.fields = 1 .. Len(s.fields) /\ Len(s.fields) \in Nat
  BY DEF IsList
<1>3. DOMAIN fields = 1 .. Len(s.fields) /\ fields = [i \in 1 .. Len(s.fields) |-> fields[i]]
  BY <1>2
<1> HIDE DEF fields, size
<1>4. IsList(fields)
  BY <1>2, <1>3, ListedIsList
<1>5. [s EXCEPT !.fields = fields, !.size = size].fields = fields
  OBVIOUS
<1>6. QED
  BY <1>1, <1>4, <1>5

LEMMA InjectedStructListsFields ==
    ASSUME NEW name, NEW lay, IsList(lay.fields)
    PROVE  IsList(InjectedStruct(name, lay).fields)
<1> DEFINE K == {i \in DOMAIN lay.fields : lay.fields[i].offset >= 0}
           fields == Selection(lay.fields, K)
           T == [i \in DOMAIN fields |->
                    [name |-> fields[i].name, offset |-> fields[i].offset,
                     kind |-> EntryKind(fields[i]), len |-> -1, view |-> fields[i].view]]
<1>1. InjectedStruct(name, lay).fields = T
  BY DEF InjectedStruct
<1>2. K \in SUBSET DOMAIN lay.fields
  OBVIOUS
<1> HIDE DEF K
<1>3. DOMAIN fields = 1 .. Cardinality(K) /\ Cardinality(K) \in Nat
  BY <1>2, SelectionSelects, IndicesAreFinite DEF IsList
<1> HIDE DEF fields
<1>4. DOMAIN T = 1 .. Cardinality(K) /\ T = [i \in 1 .. Cardinality(K) |-> T[i]]
  BY <1>3
<1> HIDE DEF T
<1>5. QED
  BY <1>1, <1>3, <1>4, ListedIsList

LEMMA StructsAreSound ==
    ASSUME input \in Inputs, LaidOut(struct_layouts), LayoutsApplied
    PROVE  /\ IsList(structs)
           /\ \A k \in DOMAIN structs :
                 structs[k].name \in DOMAIN Rank /\ IsList(structs[k].fields)
<1> DEFINE base == SortByName(input.structs)
           applied == ApplyStructLayouts(base, struct_layouts)
           N == Injectable(applied, struct_layouts, StructViews(functions))
           names == Alphabetical(N)
           added == [i \in DOMAIN names |-> InjectedStruct(names[i], struct_layouts[names[i]])]
           Fit(s) == s.name \in DOMAIN Rank /\ IsList(s.fields)
           IsStruct(s) == s = [name |-> s.name, size |-> s.size, fields |-> s.fields]
<1>1. IsList(input.structs) /\ \A i \in DOMAIN input.structs :
         Fit(input.structs[i]) /\ IsStruct(input.structs[i])
  BY InputsAreRead, StructsAreFound DEF ToSet
<1>2. IsList(base) /\ \E from : Permutes(from, base, input.structs)
  BY <1>1, SortPermutes
<1>3. PICK from : Permutes(from, base, input.structs)
  BY <1>2
<1>4. \A k \in DOMAIN base : Fit(base[k]) /\ IsStruct(base[k])
  <2> HIDE DEF Fit, IsStruct, base
  <2>1. QED
    BY <1>1, <1>3 DEF Permutes
<1>5. CASE DOMAIN struct_layouts = {}
  BY <1>2, <1>4, <1>5 DEF LayoutsApplied
<1>6. CASE DOMAIN struct_layouts # {}
  <2>1. structs = applied \o added
    BY <1>6 DEF LayoutsApplied, InjectMissing
  <2>2. DOMAIN base = 1 .. Len(base) /\ Len(base) \in Nat
    BY <1>2 DEF IsList
  <2> HIDE DEF base
  <2>3. /\ DOMAIN applied = 1 .. Len(base) /\ applied = [k \in 1 .. Len(base) |-> applied[k]]
        /\ \A k \in DOMAIN applied : applied[k] = ApplyToStruct(base[k], struct_layouts)
    BY <2>2 DEF ApplyStructLayouts
  <2>4. \A k \in DOMAIN applied : Fit(applied[k])
    BY <1>4, <2>2, <2>3, NamesStay, AppliedStructListsFields
  <2>5. N \in SUBSET DOMAIN struct_layouts /\ N \in SUBSET DOMAIN Rank /\ IsFiniteSet(N)
    <3>1. N \in SUBSET DOMAIN struct_layouts
      BY DEF Injectable
    <3> HIDE DEF N
    <3>2. QED
      BY <3>1, FS_Subset DEF LaidOut
  <2> HIDE DEF applied, N
  <2>6. /\ DOMAIN names = 1 .. Cardinality(N) /\ Cardinality(N) \in Nat
        /\ \A l \in DOMAIN names : names[l] \in N
    BY <2>5, AlphabeticalTakesAll
  <2> HIDE DEF names
  <2>7. /\ DOMAIN added = 1 .. Cardinality(N) /\ added = [l \in 1 .. Cardinality(N) |-> added[l]]
        /\ \A l \in DOMAIN added : added[l] = InjectedStruct(names[l], struct_layouts[names[l]])
    BY <2>6
  <2>8. \A l \in DOMAIN added : Fit(added[l])
    <3>1. \A name, lay : InjectedStruct(name, lay).name = name
      BY DEF InjectedStruct
    <3>2. \A l \in DOMAIN added :
             names[l] \in DOMAIN Rank /\ IsList(struct_layouts[names[l]].fields)
      BY <2>5, <2>6, <2>7 DEF LaidOut
    <3> HIDE DEF added
    <3>3. QED
      BY <2>7, <3>1, <3>2, InjectedStructListsFields
  <2> HIDE DEF added, Fit
  <2> DEFINE V == {applied[k] : k \in DOMAIN applied} \cup {added[l] : l \in DOMAIN added}
  <2>9. /\ (\A k \in DOMAIN applied : applied[k] \in V) /\ (\A l \in DOMAIN added : added[l] \in V)
        /\ \A v \in V : Fit(v)
    BY <2>4, <2>8
  <2> HIDE DEF V
  <2>10. applied \in Seq(V) /\ added \in Seq(V)
    BY <2>2, <2>3, <2>6, <2>7, <2>9
  <2>11. structs \in Seq(V)
    BY <2>1, <2>10
  <2>12. IsList(structs) /\ \A k \in DOMAIN structs : structs[k] \in V
    BY <2>11, SequencesAreLists
  <2>13. QED
    BY <2>9, <2>12 DEF Fit
<1>7. QED
  BY <1>5, <1>6

LEMMA AliasesSort ==
    ASSUME NEW records, IsList(records), \A i \in DOMAIN records : records[i].alias \in DOMAIN Rank
    PROVE  LET T == SortByAlias(records)
           IN  IsList(T) /\ \A k \in DOMAIN T : \E i \in DOMAIN records : T[k] = records[i]
<1> DEFINE D == DOMAIN records
           A == {records[i] : i \in DOMAIN records}
           ranks == [i \in D |-> Rank[records[i].alias]]
           R == ByRank(ranks)
           T == SortByAlias(records)
<1>1. D = 1 .. Len(records) /\ Len(records) \in Nat
  BY DEF IsList
<1>2. DOMAIN ranks = D /\ \A i \in D : ranks[i] \in Int /\ i \in Int
  BY <1>1, TextIsOrdered
<1>3. StrictTotalOrder(R, D)
  <2> HIDE DEF ranks, D
  <2>1. QED
    BY <1>2 DEF ByRank, StrictTotalOrder
<1>4. T = Listing(records, D, R)
  BY DEF SortByAlias
<1>5. records \in Seq(A) /\ D \in SUBSET DOMAIN records
  BY DEF IsList
<1> HIDE DEF R, ranks, A, D, T
<1>6. /\ T \in Seq(A) /\ DOMAIN T = 1 .. Cardinality(D)
      /\ \A k \in 1 .. Cardinality(D) : Nth(D, R, k) \in D /\ T[k] = records[Nth(D, R, k)]
  BY <1>3, <1>4, <1>5, ListingSelects
<1>7. IsList(T)
  BY <1>6, SequencesAreLists
<1>8. QED
  BY <1>6, <1>7 DEF T, D

LEMMA IdentityIsSound ==
    ASSUME NEW id
    PROVE  IsList(Identity(id)) /\ \A i \in DOMAIN Identity(id) : Identity(id)[i].name \in DOMAIN Rank
<1>1. DOMAIN Identity(id) = 1 .. 3 /\ Identity(id) = [i \in 1 .. 3 |-> Identity(id)[i]]
  BY DEF Identity
<1>2. \A i \in 1 .. 3 : Identity(id)[i].name = IdentityNames[i] /\ i \in DOMAIN IdentityNames
  BY DEF Identity, IdentityNames
<1>3. QED
  BY <1>1, <1>2, IdentityIsText, ListedIsList DEF ToSet

(* The files have what the manifest was when they were written.            *)
PackedInv ==
    /\ globals \in {<<>>, Identity(input.identity)}
    /\ pc \in {"openbin", "bin", "done"} => json.content = Manifest
    /\ pc = "done" => bin.content = PackManifest(Manifest)

LEMMA PackedInvStep == PackedInv /\ [Next]_vars => PackedInv'
<1> SUFFICES ASSUME PackedInv, [Next]_vars PROVE PackedInv'
  OBVIOUS
<1> USE DEF PackedInv
<1>1. CASE AstUnreadable \/ NoSignatures \/ NoRvas \/ LoadAst
  BY <1>1 DEF AstUnreadable, NoSignatures, NoRvas, Fail, LoadAst, runVars
<1>2. CASE ReadSignatures \/ ReadDwarfRvas \/ ReadPdbRvas \/ MergeAst \/ ReadLayouts
  BY <1>2 DEF ReadSignatures, ReadDwarfRvas, ReadPdbRvas, MergeAst, ReadLayouts
<1>3. CASE ApplyLayouts \/ StampIdentity \/ Restart
  BY <1>3 DEF ApplyLayouts, StampIdentity, Restart, Fresh
<1>4. CASE OpenJson \/ DumpJson \/ OpenBin \/ WriteBin
  <2>1. UNCHANGED <<input, runVars>> /\ Manifest' = Manifest
    BY <1>4 DEF OpenJson, DumpJson, OpenBin, WriteBin, runVars, Manifest
  <2>2. \A content : Whole(content).content = content
    BY DEF Whole
  <2> DEFINE m == Manifest
             q == PackManifest(m)
  <2>3. UNCHANGED <<input, globals>> /\ m' = m /\ q' = q
    BY <2>1 DEF runVars
  <2> HIDE DEF q, m
  <2>4. QED
    BY <1>4, <2>2, <2>3 DEF OpenJson, DumpJson, OpenBin, WriteBin, q, m
<1>5. CASE UNCHANGED vars
  BY <1>5 DEF vars, Manifest
<1>6. QED
  BY <1>1, <1>2, <1>3, <1>4, <1>5 DEF Next

LEMMA ManifestIsSound ==
    ASSUME FlowInv, PackedInv, pc = "done", NEW section \in SectionNames
    PROVE  Sound(Manifest, section)
<1>1. input \in Inputs /\ LayoutsApplied /\ LaidOut(struct_layouts)
  BY LayoutsAreLaidOut DEF FlowInv, Reading, Writing
<1> USE DEF Sound, NameOf, Listed, Manifest
<1>2. CASE section = "functions"
  BY <1>2, FunctionsAreSound DEF Reading
<1>3. CASE section = "structs"
  BY <1>1, <1>3, StructsAreSound
<1>4. CASE section = "enums"
  <2> DEFINE T == SortByName(input.enums)
  <2>1. IsList(input.enums) /\ \A i \in DOMAIN input.enums :
           input.enums[i].name \in DOMAIN Rank /\ IsList(input.enums[i].values)
    BY <1>1, EnumsAreFound DEF ToSet
  <2>2. IsList(T) /\ \E from : Permutes(from, T, input.enums)
    BY <2>1, SortPermutes
  <2> HIDE DEF T
  <2>3. \A k \in DOMAIN T : T[k].name \in DOMAIN Rank /\ IsList(T[k].values)
    BY <2>1, <2>2 DEF Permutes
  <2>4. QED
    BY <1>4, <2>2, <2>3 DEF T
<1>5. CASE section = "globals"
  <2>1. IsList(globals) /\ \A i \in DOMAIN globals : globals[i].name \in DOMAIN Rank
    <3>1. CASE globals = <<>>
      BY <3>1 DEF IsList
    <3>2. CASE globals = Identity(input.identity)
      BY <3>2, IdentityIsSound
    <3>3. QED
      BY <3>1, <3>2 DEF PackedInv
  <2>2. QED
    BY <1>5, <2>1
<1>6. CASE section = "typedefs"
  <2> DEFINE T == SortByAlias(input.typedefs)
  <2>1. IsList(input.typedefs) /\ \A i \in DOMAIN input.typedefs :
           input.typedefs[i].alias \in DOMAIN Rank
    BY <1>1, EnumsAreFound DEF ToSet
  <2>2. IsList(T) /\ \A k \in DOMAIN T : T[k].alias \in DOMAIN Rank
    BY <2>1, AliasesSort
  <2> HIDE DEF T
  <2>3. QED
    BY <1>6, <2>2 DEF T
<1>7. QED
  BY <1>2, <1>3, <1>4, <1>5, <1>6 DEF SectionNames

(* The reader finds in the packed file, by binary search, the records of   *)
(* every name of the JSON file and no others, in their order and with all  *)
(* their words (pack.py:68 against pack.py:125), whatever is packed.       *)
THEOREM PackedFileReadsBack == Spec => []RoundTrip
<1>1. Init => PackedInv
  BY DEF Init, PackedInv
<1>2. FlowInv /\ PackedInv => RoundTrip
  <2> SUFFICES ASSUME FlowInv, PackedInv, pc = "done",
                      NEW section \in SectionNames, NEW name \in DOMAIN Rank
               PROVE  LET packed == Grouped(json.content, section, name)
                      IN  Lookup(bin.content, section, name)
                            = [k \in DOMAIN packed |-> ValuesOf(section, packed[k])]
    BY DEF RoundTrip, Grouped
  <2> DEFINE m == Manifest
  <2>1. json.content = m /\ bin.content = PackManifest(m)
    BY DEF PackedInv
  <2>2. \A s \in SectionNames : Sound(m, s)
    BY ManifestIsSound
  <2> HIDE DEF m
  <2>3. QED
    BY <2>1, <2>2, PackedReads
<1>3. QED
  BY <1>1, <1>2, PackedInvStep, FlowInvHolds, PTL DEF Spec

-----------------------------------------------------------------------------
(* Fields put end to end                                                   *)

(* A dict keeps its first entries, if each is of another name.             *)
LEMMA OnceKeepsHead ==
    ASSUME NEW S, NEW s \in Seq(S), NEW t \in Seq(S), EachNameOnce(s)
    PROVE  ToSet(s) \subseteq ToSet(OncePerName(s \o t))
<1> DEFINE u == s \o t
           F == Firsts(NamesOf(u))
<1>1. u \in Seq(S) /\ DOMAIN s \in SUBSET DOMAIN u /\ \A k \in DOMAIN s : u[k] = s[k]
  <2>1. /\ DOMAIN u = 1 .. Len(s) + Len(t) /\ \A k \in 1 .. Len(s) : u[k] = s[k]
    BY PutEndToEnd
  <2>2. Len(s) \in Nat /\ Len(t) \in Nat /\ DOMAIN s = 1 .. Len(s) /\ u \in Seq(S)
    OBVIOUS
  <2> HIDE DEF u
  <2>3. QED
    BY <2>1, <2>2
<1>2. F \in SUBSET DOMAIN u
  BY DEF Firsts, NamesOf
<1>3. ASSUME NEW i \in DOMAIN s PROVE i \in F
  <2>1. i \in 1 .. Len(s) /\ Len(s) \in Nat /\ DOMAIN s = 1 .. Len(s)
    OBVIOUS
  <2>2. \A j \in DOMAIN u : j \in Nat \ {0}
    <3> HIDE DEF u
    <3>1. QED
      BY <1>1
  <2> HIDE DEF u
  <2>3. ASSUME NEW j \in DOMAIN u, j < i PROVE u[j].name # u[i].name
    <3>1. j \in DOMAIN s /\ j # i
      BY <2>1, <2>2, <2>3
    <3>2. QED
      BY <1>1, <3>1 DEF EachNameOnce
  <2>4. QED
    BY <1>1, <2>3 DEF Firsts, NamesOf
<1> HIDE DEF u, F
<1>4. \A i \in F : \E k \in DOMAIN OncePerName(u) : OncePerName(u)[k] = u[i]
  BY <1>1, <1>2, SelectionElements DEF OncePerName, F
<1>5. QED
  BY <1>1, <1>3, <1>4 DEF ToSet, u

-----------------------------------------------------------------------------
(* The heaviest definition                                                 *)

(* Of finitely many numbers one is the first of the highest.               *)
LEMMA HighestExists ==
    ASSUME NEW K \in SUBSET Int, IsFiniteSet(K), K # {}, NEW f, \A i \in K : f[i] \in Int
    PROVE  \E i \in K : \A j \in K : f[i] > f[j] \/ (f[i] = f[j] /\ i <= j)
<1> DEFINE Before(i, j) == f[i] > f[j] \/ (f[i] = f[j] /\ i < j)
           R == {ij \in K \X K : Before(ij[1], ij[2])}
<1>1. StrictTotalOrder(R, K)
  BY DEF StrictTotalOrder
<1>2. \A i, j \in K : <<i, j>> \in R => Before(i, j)
  OBVIOUS
<1> HIDE DEF R
<1>3. PICK i \in K : \A j \in K : i = j \/ <<i, j>> \in R
  BY <1>1, LeastExists
<1>4. ASSUME NEW j \in K PROVE f[i] > f[j] \/ (f[i] = f[j] /\ i <= j)
  <2>1. i \in Int /\ j \in Int
    OBVIOUS
  <2>2. CASE i = j
    BY <2>1, <2>2
  <2>3. CASE <<i, j>> \in R
    <3>1. Before(i, j)
      BY <1>2, <2>3
    <3>2. QED
      BY <2>1, <3>1
  <2>4. QED
    BY <1>3, <2>2, <2>3
<1>5. QED
  BY <1>4

(* The first of the heaviest is found.                                     *)
LEMMA FirstOfHighestIsHighest ==
    ASSUME NEW numbers \in Seq(Int), numbers # <<>>
    PROVE  /\ FirstOfHighest(numbers) \in DOMAIN numbers
           /\ \A j \in DOMAIN numbers : numbers[j] <= numbers[FirstOfHighest(numbers)]
<1> DEFINE K == DOMAIN numbers
           Over(i, j) == numbers[i] > numbers[j] \/ (numbers[i] = numbers[j] /\ i <= j)
<1>1. K = 1 .. Len(numbers) /\ Len(numbers) \in Nat
      /\ \A i \in K : i \in Int /\ numbers[i] \in Int
  OBVIOUS
<1>2. K # {}
  <2>1. Len(numbers) # 0
    OBVIOUS
  <2>2. 1 \in K
    BY <1>1, <2>1
  <2>3. QED
    BY <2>2
<1>3. IsFiniteSet(K) /\ K \in SUBSET Int
  BY <1>1, FS_Interval
<1> HIDE DEF K
<1>4. \E i \in K : \A j \in K : Over(i, j)
  BY <1>1, <1>2, <1>3, HighestExists
<1>5. FirstOfHighest(numbers) = CHOOSE i \in K : \A j \in K : Over(i, j)
  BY DEF FirstOfHighest, K
<1> HIDE DEF Over
<1>6. FirstOfHighest(numbers) \in K /\ \A j \in K : Over(FirstOfHighest(numbers), j)
  BY <1>4, <1>5
<1>7. QED
  BY <1>1, <1>6 DEF Over, K

(* The definition that is laid out is the heaviest of its class.           *)
LEMMA ChosenIsHeaviest ==
    ASSUME NEW types, Readable(types), NEW c \in Defined(types)
    PROVE  \A i \in DOMAIN Definitions(types, c) :
              Weight(types, Definitions(types, c)[i]) <= Weight(types, Chosen(types, c))
<1> DEFINE defs == Definitions(types, c)
           weights == [i \in DOMAIN defs |-> Weight(types, defs[i])]
           T == {types[i] : i \in DOMAIN types}
           K == {i \in DOMAIN types :
                    /\ types[i].kind \in ClassKinds /\ types[i].name = c
                    /\ ~types[i].fwdref /\ types[i].fieldlist # None}
<1>1. \A r : Weight(types, r) \in Int
  <2> TAKE r
  <2>1. /\ MembersOf(types, r.fieldlist) \in Seq(MembersRead(types))
        /\ BasesOf(types, r.fieldlist) \in Seq(BasesRead(types))
    BY MembersAreRead
  <2>2. Len(MembersOf(types, r.fieldlist)) \in Nat /\ Len(BasesOf(types, r.fieldlist)) \in Nat
    BY <2>1
  <2>3. QED
    BY <2>2 DEF Weight
<1>2. defs \in Seq(T) /\ defs # <<>>
  <2>1. types \in Seq(T) /\ K \in SUBSET DOMAIN types
    BY DEF Readable, IsList
  <2>2. defs = Selection(types, K)
    BY DEF Definitions
  <2>3. Definitions(types, c) # <<>>
    BY DEF Defined
  <2> HIDE DEF K, T
  <2>4. QED
    BY <2>1, <2>2, <2>3, SelectionSelects
<1>3. weights \in Seq(Int) /\ weights # <<>> /\ DOMAIN weights = DOMAIN defs
      /\ \A i \in DOMAIN defs : weights[i] = Weight(types, defs[i])
  <2> HIDE DEF defs, T
  <2>1. DOMAIN defs = 1 .. Len(defs) /\ Len(defs) \in Nat /\ Len(defs) # 0
    BY <1>2
  <2>2. 1 \in DOMAIN weights
    BY <2>1
  <2>3. QED
    BY <1>1, <2>1, <2>2
<1>4. Chosen(types, c) = defs[FirstOfHighest(weights)]
  BY DEF Chosen
<1> HIDE DEF weights, defs
<1>5. FirstOfHighest(weights) \in DOMAIN weights
      /\ \A j \in DOMAIN weights : weights[j] <= weights[FirstOfHighest(weights)]
  BY <1>3, FirstOfHighestIsHighest
<1>6. QED
  BY <1>3, <1>4, <1>5 DEF defs

-----------------------------------------------------------------------------
(* Places of members: the fields of a flatten against them                 *)

(* The names and offsets in a list of members.                             *)
PlacesIn(s) == {[name |-> m.name, offset |-> m.offset] : m \in ToSet(s)}

(* The names of a list are those of its places.                            *)
LEMMA SameNames ==
    ASSUME NEW s
    PROVE  NamesIn(PlacesIn(s)) = {m.name : m \in ToSet(s)}
<1>1. \A m : [name |-> m.name, offset |-> m.offset].name = m.name
  OBVIOUS
<1>2. \A f \in PlacesIn(s) : \E m \in ToSet(s) : f.name = m.name
  BY <1>1 DEF PlacesIn
<1>3. \A m \in ToSet(s) : \E f \in PlacesIn(s) : f.name = m.name
  BY <1>1 DEF PlacesIn
<1>4. QED
  BY <1>2, <1>3 DEF NamesIn

(* Moving the members of a base moves their places.                        *)
LEMMA MovedPlaces ==
    ASSUME NEW s, NEW offset
    PROVE  /\ PlacesIn(Moved(s, offset)) = MovedBy(offset, PlacesIn(s))
           /\ NamesIn(PlacesIn(Moved(s, offset))) = NamesIn(PlacesIn(s))
<1> DEFINE Placed(m) == [name |-> m.name, offset |-> m.offset]
           To(m) == [name |-> m.name, offset |-> m.offset + offset]
<1>1. \A m : /\ Placed(m).name = m.name /\ Placed(m).offset = m.offset
             /\ [Placed(m) EXCEPT !.offset = @ + offset] = To(m) /\ Placed(To(m)) = To(m)
  OBVIOUS
<1>2. ToSet(Moved(s, offset)) = {To(m) : m \in ToSet(s)}
  BY DEF Moved, ToSet
<1> DEFINE Up(f) == [f EXCEPT !.offset = @ + offset]
           S == ToSet(s)
<1>3. PlacesIn(Moved(s, offset)) = {Placed(x) : x \in {To(m) : m \in S}}
  BY <1>2 DEF PlacesIn
<1>4. MovedBy(offset, PlacesIn(s)) = {Up(f) : f \in {Placed(m) : m \in S}}
  BY DEF MovedBy, PlacesIn
<1>5. \A m : Up(Placed(m)) = To(m) /\ Placed(To(m)) = To(m)
  BY <1>1
<1>6. {Placed(x) : x \in {To(m) : m \in S}} = {Up(f) : f \in {Placed(m) : m \in S}}
  <2> HIDE DEF Placed, To, Up, S
  <2>1. \A y : y \in {Placed(x) : x \in {To(m) : m \in S}} <=> \E m \in S : y = To(m)
    BY <1>5
  <2>2. \A y : y \in {Up(f) : f \in {Placed(m) : m \in S}} <=> \E m \in S : y = To(m)
    BY <1>5
  <2>3. QED
    BY <2>1, <2>2
<1>7. {m.name : m \in ToSet(Moved(s, offset))} = {m.name : m \in ToSet(s)}
  <2>1. \A m : To(m).name = m.name
    OBVIOUS
  <2> HIDE DEF To
  <2>2. QED
    BY <1>2, <2>1, Zenon
<1>8. QED
  BY <1>3, <1>4, <1>6, <1>7, SameNames

(* What flatten makes of a class and its bases.                            *)
Above(types, b) == BaseName(types, b.id)

(* What a class and its bases put together is at the places of either.     *)
LEMMA WithBasesPlaces ==
    ASSUME NEW types, Readable(types), NEW c \in Defined(types),
           NEW visited \in SUBSET Defined(types), NEW below \in Flats(types)
    PROVE  LET w == WithBases(types, visited, Chosen(types, c).fieldlist, below)
               bases == {b \in KnownBases(types, c) : Above(types, b) \notin visited}
           IN  /\ OwnPlaces(types, c) \subseteq PlacesIn(w)
               /\ \A f \in PlacesIn(w) :
                    \/ f \in OwnPlaces(types, c)
                    \/ \E b \in bases :
                        f \in MovedBy(b.offset, PlacesIn(below[visited][Above(types, b)]))
               /\ \A b \in bases :
                    NamesIn(PlacesIn(below[visited][Above(types, b)])) \subseteq NamesIn(PlacesIn(w))
<1> DEFINE fid == Chosen(types, c).fieldlist
           E == PdbFields(types)
           own == MembersOf(types, fid)
           parts == PartsOver(types, visited, fid, below)
           flat == FlattenSeq(parts)
           all == own \o flat
           w == OncePerName(all)
           bs == BasesOf(types, fid)
           bases == {b \in KnownBases(types, c) : Above(types, b) \notin visited}
<1>1. WithBases(types, visited, fid, below) = w
  BY DEF WithBases, PartsOver
<1>2. own \in Seq(E) /\ parts \in Seq(Seq(E)) /\ EachNameOnce(own)
  BY PartsAreFields, MembersAreRead
<1>3. OwnPlaces(types, c) = PlacesIn(own)
  BY DEF OwnPlaces, PlacesIn
<1>4. DOMAIN parts = DOMAIN bs
      /\ \A i \in DOMAIN bs : parts[i] = MembersBelow(types, visited, bs[i], below)
  BY DEF PartsOver
<1>5. bases = {b \in ToSet(bs) : Above(types, b) \in Defined(types) /\ Above(types, b) \notin visited}
  BY DEF KnownBases, Above
<1> HIDE DEF own, parts, E, bs, bases
<1>6. flat \in Seq(E) /\ ToSet(flat) = UNION {ToSet(parts[j]) : j \in DOMAIN parts}
  BY <1>2, FlattenTyped, FlattenElements
<1> HIDE DEF flat
<1>7. all \in Seq(E) /\ ToSet(all) = ToSet(own) \cup ToSet(flat)
  BY <1>2, <1>6, ConcatElements
<1>8. ToSet(own) \subseteq ToSet(w)
  BY <1>2, <1>6, OnceKeepsHead
<1> HIDE DEF all
<1>9. /\ \A i \in DOMAIN all : \E k \in DOMAIN w : w[k].name = all[i].name
      /\ \A k \in DOMAIN w : \E j \in DOMAIN all : w[k] = all[j]
  BY <1>7, OnceTakesAll
<1> HIDE DEF w
<1>10. /\ \A m \in ToSet(all) : \E x \in ToSet(w) : x.name = m.name
       /\ \A x \in ToSet(w) : x \in ToSet(all)
  BY <1>9 DEF ToSet
<1>11. ASSUME NEW b \in ToSet(bs)
       PROVE  MembersBelow(types, visited, b, below)
                 = IF b \in bases THEN Moved(below[visited][Above(types, b)], b.offset) ELSE <<>>
  BY <1>5 DEF MembersBelow, Above
<1>12. OwnPlaces(types, c) \subseteq PlacesIn(w)
  BY <1>3, <1>8 DEF PlacesIn
<1>13. ASSUME NEW f \in PlacesIn(w), f \notin OwnPlaces(types, c)
       PROVE  \E b \in bases : f \in MovedBy(b.offset, PlacesIn(below[visited][Above(types, b)]))
  <2>1. PICK m \in ToSet(w) : f = [name |-> m.name, offset |-> m.offset]
    BY DEF PlacesIn
  <2>2. m \in ToSet(flat)
    <3>1. m \notin ToSet(own)
      BY <1>3, <1>13, <2>1 DEF PlacesIn
    <3>2. QED
      BY <1>7, <1>10, <2>1, <3>1
  <2>3. PICK i \in DOMAIN bs : m \in ToSet(parts[i])
    BY <1>4, <1>6, <2>2
  <2>4. bs[i] \in ToSet(bs)
    BY DEF ToSet
  <2>5. parts[i] = MembersBelow(types, visited, bs[i], below)
    BY <1>4
  <2>6. ToSet(<<>>) = {}
    BY DEF ToSet
  <2>7. bs[i] \in bases /\ parts[i] = Moved(below[visited][Above(types, bs[i])], bs[i].offset)
    BY <1>11, <2>3, <2>4, <2>5, <2>6
  <2>8. f \in PlacesIn(parts[i])
    BY <2>1, <2>3 DEF PlacesIn
  <2>9. QED
    BY <2>7, <2>8, MovedPlaces
<1>14. ASSUME NEW b \in bases
       PROVE  NamesIn(PlacesIn(below[visited][Above(types, b)])) \subseteq NamesIn(PlacesIn(w))
  <2>1. b \in ToSet(bs)
    BY <1>5
  <2>2. PICK i \in DOMAIN bs : b = bs[i]
    BY <2>1 DEF ToSet
  <2>3. parts[i] = Moved(below[visited][Above(types, b)], b.offset)
    BY <1>4, <1>11, <2>1, <2>2
  <2>4. NamesIn(PlacesIn(below[visited][Above(types, b)])) = {m.name : m \in ToSet(parts[i])}
    BY <2>3, MovedPlaces, SameNames
  <2>5. \A m \in ToSet(parts[i]) : m \in ToSet(all)
    BY <1>4, <1>6, <1>7
  <2>6. \A m \in ToSet(parts[i]) : \E x \in ToSet(w) : x.name = m.name
    BY <1>10, <2>5
  <2>7. {m.name : m \in ToSet(parts[i])} \subseteq {x.name : x \in ToSet(w)}
    BY <2>6
  <2>8. QED
    BY <2>4, <2>7, SameNames
<1>15. QED
  BY <1>1, <1>12, <1>13, <1>14 DEF bases

-----------------------------------------------------------------------------
(* Classes that bases lead to                                              *)

(* The classes that bases lead to from a class, past those in V.           *)
ClosedBeside(types, V, S) ==
    \A x \in S : \A b \in KnownBases(types, x) : Above(types, b) \notin V => Above(types, b) \in S

Reach(types, V, c) ==
    {x \in Defined(types) : \A S \in SUBSET Defined(types) :
        c \in S /\ ClosedBeside(types, V, S) => x \in S}

NamesOver(types, S) == UNION {NamesIn(OwnPlaces(types, x)) : x \in S}

(* The classes that bases lead to are such a set themselves.               *)
LEMMA ReachIsClosed ==
    ASSUME NEW types, NEW V, NEW c \in Defined(types)
    PROVE  /\ c \in Reach(types, V, c) /\ Reach(types, V, c) \in SUBSET Defined(types)
           /\ ClosedBeside(types, V, Reach(types, V, c))
<1> DEFINE D == Defined(types)
           R == Reach(types, V, c)
<1>1. c \in R /\ R \in SUBSET D
  BY DEF Reach
<1>2. \A x \in R : \A S \in SUBSET D : c \in S /\ ClosedBeside(types, V, S) => x \in S
  BY DEF Reach
<1>3. \A x \in D : (\A S \in SUBSET D : c \in S /\ ClosedBeside(types, V, S) => x \in S) => x \in R
  BY DEF Reach
<1>4. \A x : \A b \in KnownBases(types, x) : Above(types, b) \in D
  BY DEF KnownBases, Above
<1> HIDE DEF R, D
<1>5. ASSUME NEW x \in R, NEW b \in KnownBases(types, x), Above(types, b) \notin V
      PROVE  Above(types, b) \in R
  <2>1. ASSUME NEW S \in SUBSET D, c \in S, ClosedBeside(types, V, S)
        PROVE  Above(types, b) \in S
    <3>1. x \in S
      BY <1>2, <2>1
    <3>2. QED
      BY <1>5, <2>1, <3>1 DEF ClosedBeside
  <2>2. QED
    BY <1>3, <1>4, <2>1
<1>6. QED
  BY <1>1, <1>5 DEF ClosedBeside, R, D

(* They are in every set that has the first and is closed.                 *)
LEMMA ReachIsLeast ==
    ASSUME NEW types, NEW V, NEW c, NEW S \in SUBSET Defined(types), c \in S,
           ClosedBeside(types, V, S)
    PROVE  Reach(types, V, c) \subseteq S
BY DEF Reach

(* Past a class, bases lead nowhere that they do not lead from a base.     *)
LEMMA ReachSplits ==
    ASSUME NEW types, NEW V, NEW c \in Defined(types), NEW x \in Reach(types, V, c), x # c
    PROVE  \E b \in KnownBases(types, c) :
              Above(types, b) \notin V \cup {c} /\ x \in Reach(types, V \cup {c}, Above(types, b))
<1> DEFINE D == Defined(types)
           W == V \cup {c}
           Way(y) == \E b \in KnownBases(types, c) :
                        Above(types, b) \notin W /\ y \in Reach(types, W, Above(types, b))
           S == {c} \cup {y \in D : Way(y)}
<1>1. \A y : \A b \in KnownBases(types, y) : Above(types, b) \in D
  BY DEF KnownBases, Above
<1>2. S \in SUBSET D /\ c \in S
  OBVIOUS
<1>3. ClosedBeside(types, V, S)
  <2> SUFFICES ASSUME NEW y \in S, NEW a \in KnownBases(types, y), Above(types, a) \notin V,
                      Above(types, a) # c
               PROVE  Way(Above(types, a))
    BY <1>1 DEF ClosedBeside
  <2>1. Above(types, a) \in D /\ Above(types, a) \notin W
    BY <1>1
  <2>2. CASE y = c
    <3>1. Above(types, a) \in Reach(types, W, Above(types, a))
      BY <2>1, ReachIsClosed
    <3>2. QED
      BY <2>1, <2>2, <3>1
  <2>3. CASE y # c
    <3>1. PICK b \in KnownBases(types, c) :
             Above(types, b) \notin W /\ y \in Reach(types, W, Above(types, b))
      BY <2>3
    <3>2. ClosedBeside(types, W, Reach(types, W, Above(types, b)))
      <4>1. Above(types, b) \in Defined(types)
        BY <1>1
      <4> HIDE DEF W
      <4>2. QED
        BY <4>1, ReachIsClosed
    <3>3. Above(types, a) \in Reach(types, W, Above(types, b))
      BY <2>1, <3>1, <3>2 DEF ClosedBeside
    <3>4. QED
      BY <3>1, <3>3
  <2>4. QED
    BY <2>2, <2>3
<1> HIDE DEF S, Way
<1>4. x \in S
  BY <1>2, <1>3, ReachIsLeast
<1>5. Way(x)
  BY <1>4 DEF S
<1>6. QED
  BY <1>5 DEF Way

-----------------------------------------------------------------------------
(* Round by round                                                          *)

(* The recursion of MemberPlaces, round by round.                          *)
PlacesRun(g, types) ==
    LET n == Cardinality(Defined(types)) IN
    /\ \A k \in 0 .. n : \A c \in Defined(types) : \A f \in g[k][c] :
          f = [name |-> f.name, offset |-> f.offset]
    /\ \A c \in Defined(types) : g[0][c] = {}
    /\ \A k \in 1 .. n : \A c \in Defined(types) : g[k][c] = PlacesOver(types, c, g[k - 1])
    /\ MemberPlaces(types) = g[n]

(* MemberPlaces is the last of such rounds.                                *)
LEMMA PlacesAreRun ==
    ASSUME NEW types, Readable(types)
    PROVE  \E g : PlacesRun(g, types)
<1> DEFINE n == Cardinality(Defined(types))
           D == Defined(types)
           U == [name : {m.name : m \in MembersRead(types)}, offset : Int]
           S == [D -> SUBSET U]
           start == [c \in D |-> {}]
           Next1(below) == [c \in D |-> PlacesOver(types, c, below)]
           Body(f) == [k \in 0 .. n |-> [c \in D |->
                          IF k = 0 THEN {} ELSE PlacesOver(types, c, f[k - 1])]]
           g == CHOOSE x : x = Body(x)
           H == [i \in 1 .. n |-> [s \in S |-> Next1(s)]]
<1>1. n \in Nat
  BY DefinedAreNamed
<1>2. MemberPlaces(types) = g[n]
  BY DEF MemberPlaces
<1>3. start \in S
  OBVIOUS
<1>4. ASSUME NEW s \in S PROVE Next1(s) \in S
  <2>1. ASSUME NEW c \in D PROVE PlacesOver(types, c, s) \in SUBSET U
    <3>1. MembersOf(types, Chosen(types, c).fieldlist) \in Seq(MembersRead(types))
          /\ BasesOf(types, Chosen(types, c).fieldlist) \in Seq(BasesRead(types))
      BY MembersAreRead
    <3>2. \A m \in MembersRead(types) : m.offset \in Int
      BY DEF Readable, MembersRead
    <3>3. OwnPlaces(types, c) \in SUBSET U
      <4>1. \A m \in ToSet(MembersOf(types, Chosen(types, c).fieldlist)) : m \in MembersRead(types)
        BY <3>1 DEF ToSet
      <4>2. QED
        BY <3>2, <4>1 DEF OwnPlaces
    <3>4. \A b \in BasesRead(types) : b.offset \in Int
      BY DEF Readable, BasesRead
    <3>5. ASSUME NEW b \in KnownBases(types, c)
          PROVE  MovedBy(b.offset, s[BaseName(types, b.id)]) \in SUBSET U
      <4>1. b \in ToSet(BasesOf(types, Chosen(types, c).fieldlist))
            /\ BaseName(types, b.id) \in D
        BY DEF KnownBases
      <4>2. b \in BasesRead(types)
        BY <3>1, <4>1 DEF ToSet
      <4>3. b.offset \in Int /\ s[BaseName(types, b.id)] \in SUBSET U
        BY <3>4, <4>1, <4>2
      <4>4. \A f \in U : [f EXCEPT !.offset = @ + b.offset] \in U
        BY <4>3
      <4>5. QED
        BY <4>3, <4>4 DEF MovedBy
    <3> HIDE DEF U, D
    <3>6. QED
      BY <3>3, <3>5 DEF PlacesOver
  <2> HIDE DEF U, D
  <2>2. QED
    BY <2>1
<1>5. \A f : \A k \in 0 .. n : Body(f)[k] = IF k = 0 THEN start ELSE Next1(f[k - 1])
  <2> TAKE f
  <2> TAKE k \in 0 .. n
  <2>1. CASE k = 0
    BY <2>1
  <2>2. CASE k # 0
    BY <2>2
  <2>3. QED
    BY <2>1, <2>2
<1>6. \A f : DOMAIN Body(f) = 0 .. n /\ Body(f) = [k \in 0 .. n |-> Body(f)[k]]
  OBVIOUS
<1>7. /\ \A c \in D : start[c] = {}
      /\ \A s : \A c \in D : Next1(s)[c] = PlacesOver(types, c, s)
      /\ \A s \in S : \A c \in D : \A f \in s[c] : f = [name |-> f.name, offset |-> f.offset]
  OBVIOUS
<1> HIDE DEF n, S, start, Next1, Body, D
<1>8. H \in [1 .. n -> [S -> S]] /\ \A i \in 1 .. n : \A s \in S : H[i][s] = Next1(s)
  BY <1>4
<1> HIDE DEF H
<1>9. PICK f : IsRun(f, S, start, n, H)
  BY <1>1, <1>3, <1>8, Iterates
<1>10. f = Body(f)
  <2>1. ASSUME NEW k \in 0 .. n PROVE f[k] = Body(f)[k]
    <3>1. CASE k = 0
      BY <1>5, <1>9, <3>1 DEF IsRun
    <3>2. CASE k # 0
      <4>1. k \in 1 .. n /\ k - 1 \in 0 .. n
        BY <1>1, <3>2
      <4>2. f[k] = Next1(f[k - 1])
        BY <1>8, <1>9, <4>1 DEF IsRun
      <4>3. QED
        BY <1>5, <3>2, <4>2
    <3>3. QED
      BY <3>1, <3>2
  <2>2. f = [k \in 0 .. n |-> f[k]]
    BY <1>9 DEF IsRun
  <2>3. QED
    BY <1>6, <2>1, <2>2
<1>11. g = Body(g)
  BY <1>10
<1>12. g[0] = start /\ \A i \in 1 .. n : g[i] = Next1(g[i - 1])
  <2> HIDE DEF g
  <2>1. \A k \in 0 .. n : g[k] = IF k = 0 THEN start ELSE Next1(g[k - 1])
    BY <1>5, <1>11
  <2>2. QED
    BY <1>1, <2>1
<1> HIDE DEF g
<1>13. \A i \in 0 .. n : g[i] \in S
  <2>1. g[0] \in S /\ \A i \in 1 .. n : g[i - 1] \in S => g[i] \in S
    BY <1>3, <1>4, <1>12
  <2>2. QED
    BY <1>1, <2>1, RunStays
<1>14. /\ \A k \in 0 .. n : \A c \in D : \A x \in g[k][c] : x = [name |-> x.name, offset |-> x.offset]
       /\ \A c \in D : g[0][c] = {}
       /\ \A k \in 1 .. n : \A c \in D : g[k][c] = PlacesOver(types, c, g[k - 1])
  BY <1>7, <1>12, <1>13
<1>15. PlacesRun(g, types)
  BY <1>2, <1>14 DEF PlacesRun, n, D
<1>16. QED
  BY <1>15

(* The rounds of a flatten: what the one before gave, with the class       *)
(* visited.                                                                *)
FlatRounds(h, types) ==
    \A k \in 0 .. Cardinality(Defined(types)) - 1 :
       \A V \in SUBSET Defined(types) : \A c \in Defined(types) :
          /\ V \cup {c} \in SUBSET Defined(types)
          /\ h[k] \in Flats(types)
          /\ h[k + 1][V][c] = WithBases(types, V \cup {c}, Chosen(types, c).fieldlist, h[k])

LEMMA FlatRound ==
    ASSUME NEW types, Readable(types), NEW h, FlatRun(h, types)
    PROVE  FlatRounds(h, types)
<1> DEFINE n == Cardinality(Defined(types))
           D == Defined(types)
<1>1. n \in Nat
  BY DefinedAreNamed
<1>2. /\ \A i \in 0 .. n : h[i] \in Flats(types)
      /\ \A i \in 1 .. n : \A X \in SUBSET D : \A x \in D :
            h[i][X][x] = WithBases(types, X \cup {x}, Chosen(types, x).fieldlist, h[i - 1])
  BY Zenon DEF FlatRun
<1>3. SUFFICES ASSUME NEW k \in 0 .. n - 1, NEW V \in SUBSET D, NEW c \in D
               PROVE  /\ V \cup {c} \in SUBSET D
                      /\ h[k] \in Flats(types)
                      /\ h[k + 1][V][c]
                            = WithBases(types, V \cup {c}, Chosen(types, c).fieldlist, h[k])
  BY DEF FlatRounds
<1> DEFINE j == k + 1
<1> HIDE DEF n
<1>4. k \in 0 .. n /\ j \in 1 .. n /\ j - 1 = k
  BY <1>1, <1>3
<1> HIDE DEF j
<1>5. h[j][V][c] = WithBases(types, V \cup {c}, Chosen(types, c).fieldlist, h[j - 1])
  BY <1>2, <1>3, <1>4
<1>6. h[j][V][c] = WithBases(types, V \cup {c}, Chosen(types, c).fieldlist, h[k])
  BY <1>4, <1>5, Zenon
<1>7. V \cup {c} \in SUBSET D /\ h[k] \in Flats(types)
  BY <1>2, <1>4
<1>8. QED
  BY <1>6, <1>7 DEF j

(* What a class is given is at a place that it has.                        *)
LEMMA PlacesAreReal ==
    ASSUME NEW types, Readable(types), NEW h, FlatRun(h, types), NEW g, PlacesRun(g, types)
    PROVE  \A k \in 0 .. Cardinality(Defined(types)) : \A V \in SUBSET Defined(types) :
              \A c \in Defined(types) : PlacesIn(h[k][V][c]) \subseteq g[k][c]
<1> DEFINE n == Cardinality(Defined(types))
           D == Defined(types)
           Fit(k) == \A V \in SUBSET D : \A c \in D : PlacesIn(h[k][V][c]) \subseteq g[k][c]
           P == {k \in 0 .. n : Fit(k)}
<1>0. FlatRounds(h, types)
  BY FlatRound
<1>1. n \in Nat
  BY DefinedAreNamed
<1>2. 0 \in P
  <2>1. PlacesIn(<<>>) = {}
    BY DEF PlacesIn, ToSet
  <2>2. \A V \in SUBSET D : \A c \in D : h[0][V][c] = <<>>
    BY DEF FlatRun
  <2>3. QED
    BY <1>1, <2>1, <2>2
<1>3. ASSUME NEW k \in 0 .. n - 1, k \in P PROVE k + 1 \in P
  <2>1. Fit(k) /\ k + 1 \in 1 .. n /\ k + 1 - 1 = k /\ k \in 0 .. n /\ k + 1 \in 0 .. n
    BY <1>1, <1>3
  <2>2. ASSUME NEW V \in SUBSET D, NEW c \in D, NEW f \in PlacesIn(h[k + 1][V][c])
        PROVE  f \in g[k + 1][c]
    <3> DEFINE W == V \cup {c}
    <3>1. W \in SUBSET D /\ h[k] \in Flats(types)
          /\ h[k + 1][V][c] = WithBases(types, W, Chosen(types, c).fieldlist, h[k])
      BY <1>0, <1>3, <2>2 DEF FlatRounds
    <3>2. g[k + 1][c] = PlacesOver(types, c, g[k])
      BY <2>1 DEF PlacesRun
    <3> HIDE DEF W
    <3>3. \/ f \in OwnPlaces(types, c)
          \/ \E b \in KnownBases(types, c) :
                f \in MovedBy(b.offset, PlacesIn(h[k][W][Above(types, b)]))
      BY <2>2, <3>1, WithBasesPlaces
    <3>4. CASE f \in OwnPlaces(types, c)
      BY <3>2, <3>4 DEF PlacesOver
    <3>5. ASSUME NEW b \in KnownBases(types, c),
                 f \in MovedBy(b.offset, PlacesIn(h[k][W][Above(types, b)]))
          PROVE  f \in g[k + 1][c]
      <4>1. Above(types, b) \in D
        BY DEF KnownBases, Above
      <4>2. PlacesIn(h[k][W][Above(types, b)]) \subseteq g[k][Above(types, b)]
        BY <2>1, <3>1, <4>1
      <4>3. f \in MovedBy(b.offset, g[k][Above(types, b)])
        BY <3>5, <4>2 DEF MovedBy
      <4>4. QED
        BY <3>2, <4>3 DEF PlacesOver, Above
    <3>6. QED
      BY <3>3, <3>4, <3>5
  <2>3. QED
    BY <2>1, <2>2
<1>4. P = 0 .. n
  <2>1. P \in SUBSET (0 .. n)
    OBVIOUS
  <2> HIDE DEF P
  <2>2. QED
    BY <1>1, <1>2, <1>3, <2>1, UpTo
<1>5. QED
  BY <1>4

(* A place is that of a member of a class that bases lead to.              *)
LEMMA PlacesAreReached ==
    ASSUME NEW types, Readable(types), NEW g, PlacesRun(g, types)
    PROVE  \A k \in 0 .. Cardinality(Defined(types)) : \A c \in Defined(types) :
              NamesIn(g[k][c]) \subseteq NamesOver(types, Reach(types, {}, c))
<1> DEFINE n == Cardinality(Defined(types))
           D == Defined(types)
           Fit(k) == \A c \in D : NamesIn(g[k][c]) \subseteq NamesOver(types, Reach(types, {}, c))
           P == {k \in 0 .. n : Fit(k)}
<1>1. n \in Nat
  BY DefinedAreNamed
<1>2. 0 \in P
  <2>1. \A c \in D : g[0][c] = {}
    BY DEF PlacesRun
  <2>2. QED
    BY <1>1, <2>1 DEF NamesIn
<1>3. ASSUME NEW k \in 0 .. n - 1, k \in P PROVE k + 1 \in P
  <2>1. Fit(k) /\ k + 1 \in 1 .. n /\ k + 1 - 1 = k /\ k \in 0 .. n /\ k + 1 \in 0 .. n
    BY <1>1, <1>3
  <2>2. ASSUME NEW c \in D, NEW f \in g[k + 1][c]
        PROVE  f.name \in NamesOver(types, Reach(types, {}, c))
    <3>1. g[k + 1][c] = PlacesOver(types, c, g[k])
      BY <2>1 DEF PlacesRun
    <3>2. c \in Reach(types, {}, c) /\ ClosedBeside(types, {}, Reach(types, {}, c))
          /\ Reach(types, {}, c) \in SUBSET D
      BY ReachIsClosed
    <3>3. CASE f \in OwnPlaces(types, c)
      BY <3>2, <3>3 DEF NamesOver, NamesIn
    <3>4. ASSUME NEW b \in KnownBases(types, c), f \in MovedBy(b.offset, g[k][Above(types, b)])
          PROVE  f.name \in NamesOver(types, Reach(types, {}, c))
      <4> DEFINE a == Above(types, b)
      <4>1. a \in D
        BY DEF KnownBases, Above
      <4>2. PICK e \in g[k][a] : f = [e EXCEPT !.offset = @ + b.offset]
        BY <3>4 DEF MovedBy
      <4>3. e = [name |-> e.name, offset |-> e.offset]
        BY <2>1, <4>1 DEF PlacesRun
      <4>4. f.name = e.name
        BY <4>2, <4>3
      <4>5. e.name \in NamesOver(types, Reach(types, {}, a))
        BY <2>1, <4>1 DEF NamesIn
      <4>6. a \in Reach(types, {}, c)
        BY <3>2 DEF ClosedBeside
      <4>7. Reach(types, {}, a) \subseteq Reach(types, {}, c)
        BY <3>2, <4>6, ReachIsLeast
      <4>8. QED
        BY <4>4, <4>5, <4>7 DEF NamesOver
    <3>5. QED
      BY <3>1, <3>3, <3>4 DEF PlacesOver, Above
  <2>3. QED
    BY <2>1, <2>2 DEF NamesIn
<1>4. P = 0 .. n
  <2>1. P \in SUBSET (0 .. n)
    OBVIOUS
  <2> HIDE DEF P
  <2>2. QED
    BY <1>1, <1>2, <1>3, <2>1, UpTo
<1>5. QED
  BY <1>4

(* Every member of a class that bases lead to is there, also where they    *)
(* lead back: a round is enough for each class that is not being visited.  *)
LEMMA ReachedAreThere ==
    ASSUME NEW types, Readable(types), NEW h, FlatRun(h, types)
    PROVE  \A k \in 0 .. Cardinality(Defined(types)) : \A V \in SUBSET Defined(types) :
              \A c \in Defined(types) \ V : Cardinality(Defined(types) \ V) <= k =>
                 NamesOver(types, Reach(types, V, c)) \subseteq NamesIn(PlacesIn(h[k][V][c]))
<1> DEFINE n == Cardinality(Defined(types))
           D == Defined(types)
           There(k, V, c) == NamesOver(types, Reach(types, V, c)) \subseteq NamesIn(PlacesIn(h[k][V][c]))
           P == {k \in 0 .. n : \A V \in SUBSET D : \A c \in D \ V :
                    Cardinality(D \ V) <= k => There(k, V, c)}
<1>0. FlatRounds(h, types)
  BY FlatRound
<1>1. n \in Nat /\ IsFiniteSet(D)
  BY DefinedAreNamed
<1>2. \A V \in SUBSET D : IsFiniteSet(D \ V) /\ Cardinality(D \ V) \in Nat
  BY <1>1, FS_Subset, FS_CardinalityType
<1>3. 0 \in P
  <2>1. ASSUME NEW V \in SUBSET D, NEW c \in D \ V, Cardinality(D \ V) <= 0 PROVE FALSE
    <3>1. Cardinality(D \ V) = 0
      BY <1>2, <2>1
    <3>2. D \ V = {}
      BY <1>2, <3>1, FS_EmptySet
    <3>3. QED
      BY <3>2
  <2> HIDE DEF There
  <2>2. QED
    BY <1>1, <2>1
<1>4. ASSUME NEW k \in 0 .. n - 1, k \in P PROVE k + 1 \in P
  <2>1. k + 1 \in 1 .. n /\ k + 1 - 1 = k /\ k \in 0 .. n /\ k + 1 \in 0 .. n /\ k \in Nat
    BY <1>1
  <2>2. ASSUME NEW V \in SUBSET D, NEW c \in D \ V, Cardinality(D \ V) <= k + 1
        PROVE  There(k + 1, V, c)
    <3> DEFINE W == V \cup {c}
               w == h[k + 1][V][c]
    <3>1. W \in SUBSET D /\ h[k] \in Flats(types)
          /\ w = WithBases(types, W, Chosen(types, c).fieldlist, h[k])
      BY <1>0, <1>4, <2>2 DEF FlatRounds
    <3>2. Cardinality(D \ W) <= k
      <4>1. D \ W = (D \ V) \ {c}
        OBVIOUS
      <4>2. Cardinality((D \ V) \ {c}) = Cardinality(D \ V) - 1
        BY <1>2, FS_RemoveElement
      <4>3. Cardinality(D \ V) \in Nat /\ Cardinality(D \ V) <= k + 1 /\ k \in Nat
        BY <1>2, <2>1, <2>2
      <4> HIDE DEF D, W
      <4>4. Cardinality(D \ W) = Cardinality(D \ V) - 1
        BY <4>1, <4>2
      <4>5. QED
        BY <4>3, <4>4
    <3>3. \A a \in D \ W : There(k, W, a)
      <4> HIDE DEF There, W
      <4>1. QED
        BY <1>4, <3>1, <3>2
    <3> HIDE DEF W, w
    <3>4. /\ OwnPlaces(types, c) \subseteq PlacesIn(w)
          /\ \A b \in KnownBases(types, c) : Above(types, b) \notin W =>
                NamesIn(PlacesIn(h[k][W][Above(types, b)])) \subseteq NamesIn(PlacesIn(w))
      BY <3>1, WithBasesPlaces
    <3>5. ASSUME NEW x \in Reach(types, V, c)
          PROVE  NamesIn(OwnPlaces(types, x)) \subseteq NamesIn(PlacesIn(w))
      <4>1. CASE x = c
        BY <3>4, <4>1 DEF NamesIn
      <4>2. CASE x # c
        <5>1. PICK b \in KnownBases(types, c) :
                 Above(types, b) \notin W /\ x \in Reach(types, W, Above(types, b))
          BY <4>2, ReachSplits DEF W
        <5>2. Above(types, b) \in D \ W
          BY <5>1 DEF KnownBases, Above
        <5>3. NamesIn(OwnPlaces(types, x)) \subseteq NamesIn(PlacesIn(h[k][W][Above(types, b)]))
          BY <3>3, <5>1, <5>2 DEF NamesOver
        <5>4. QED
          BY <3>4, <5>1, <5>3
      <4>3. QED
        BY <4>1, <4>2
    <3>6. QED
      BY <3>5 DEF NamesOver, w
  <2> HIDE DEF There
  <2>3. QED
    BY <2>1, <2>2
<1>5. P = 0 .. n
  <2>1. P \in SUBSET (0 .. n)
    OBVIOUS
  <2> HIDE DEF P
  <2>2. QED
    BY <1>1, <1>3, <1>4, <2>1, UpTo
<1>6. QED
  BY <1>5

(* A flatten has a class's own members, real places and every name.        *)
LEMMA FlatIsRight ==
    ASSUME NEW types, Readable(types), NEW c \in Defined(types)
    PROVE  LET flat == PlacesIn(Flatten(types, c)) IN
           /\ OwnPlaces(types, c) \subseteq flat
           /\ flat \subseteq MemberPlaces(types)[c]
           /\ NamesIn(flat) = NamesIn(MemberPlaces(types)[c])
<1> DEFINE D == Defined(types)
           n == Cardinality(D)
           s == Flatten(types, c)
<1>1. n \in Nat /\ n \in 0 .. n /\ IsFiniteSet(D)
  BY DefinedAreNamed
<1>2. PICK h : FlatRun(h, types)
  BY FlattenIsRun
<1>3. PICK g : PlacesRun(g, types)
  BY PlacesAreRun
<1>4. s = h[n][{}][c] /\ MemberPlaces(types) = g[n] /\ {} \in SUBSET D
  BY <1>2, <1>3 DEF FlatRun, PlacesRun
<1> HIDE DEF s
<1>5. PlacesIn(s) \subseteq g[n][c]
  BY <1>1, <1>2, <1>3, <1>4, PlacesAreReal
<1>6. NamesIn(g[n][c]) \subseteq NamesOver(types, Reach(types, {}, c))
  BY <1>1, <1>3, PlacesAreReached
<1>7. D \ {} = D /\ Cardinality(D \ {}) <= n
  BY <1>1
<1>8. NamesOver(types, Reach(types, {}, c)) \subseteq NamesIn(PlacesIn(s))
  <2> HIDE DEF n
  <2>1. QED
    BY <1>1, <1>2, <1>4, <1>7, ReachedAreThere DEF n
<1>9. OwnPlaces(types, c) \subseteq PlacesIn(s)
  <2>1. n # 0
    BY <1>1, FS_EmptySet
  <2>2. n \in 1 .. n /\ n - 1 \in 0 .. n
    BY <1>1, <2>1
  <2>3. h[n - 1] \in Flats(types) /\ {} \cup {c} \in SUBSET D
        /\ s = WithBases(types, {} \cup {c}, Chosen(types, c).fieldlist, h[n - 1])
    BY <1>2, <1>4, <2>2 DEF FlatRun
  <2>4. QED
    BY <2>3, WithBasesPlaces
<1>10. NamesIn(PlacesIn(s)) \subseteq NamesIn(g[n][c])
  BY <1>5 DEF NamesIn
<1>11. QED
  BY <1>4, <1>5, <1>6, <1>8, <1>9, <1>10 DEF s

(* The layouts that were read are what flatten made of each class.         *)
LEMMA PdbAgrees ==
    ASSUME FlowInv
    PROVE  PdbFieldsRight
<1> SUFFICES ASSUME pc = "apply", input.format = "pdb", whole PROVE PdbFieldsRight
  BY DEF PdbFieldsRight
<1> DEFINE types == input.types
           L == PdbLayouts(types)
<1>1. input \in Inputs /\ struct_layouts = L
  BY DEF FlowInv, LayoutsRead, Reading
<1>2. Readable(types)
  BY <1>1, InputsAreRead, NamesAreSymbols DEF Readable, ToSet
<1> HIDE DEF types
<1>3. DOMAIN L = {d \in Defined(types) :
                     Flatten(types, d) # <<>> \/ Chosen(types, d).size \notin {0, None}}
  BY DEF PdbLayouts
<1>4. ASSUME NEW c \in DOMAIN L PROVE LayoutFields(c) = PlacesIn(Flatten(types, c))
  <2> DEFINE flat == Flatten(types, c)
             fields == [i \in DOMAIN flat |-> [name |-> flat[i].name, offset |-> flat[i].offset,
                                               kind |-> None, view |-> None]]
  <2>1. struct_layouts[c].fields = fields
    BY <1>1, <1>3 DEF PdbLayouts, LayoutFrom
  <2> HIDE DEF flat
  <2>2. \A i \in DOMAIN flat : fields[i].name = flat[i].name /\ fields[i].offset = flat[i].offset
    OBVIOUS
  <2>3. DOMAIN fields = DOMAIN flat
    OBVIOUS
  <2> HIDE DEF fields
  <2>4. QED
    BY <2>1, <2>2, <2>3 DEF LayoutFields, PlacesIn, ToSet, flat
<1>5. ASSUME NEW c \in Defined(types), MemberPlaces(types)[c] # {} PROVE c \in DOMAIN L
  <2>1. NamesIn(PlacesIn(Flatten(types, c))) = NamesIn(MemberPlaces(types)[c])
    BY <1>2, FlatIsRight
  <2>2. PlacesIn(Flatten(types, c)) # {}
    BY <1>5, <2>1 DEF NamesIn
  <2>3. Flatten(types, c) # <<>>
    BY <2>2 DEF PlacesIn, ToSet
  <2>4. QED
    BY <1>3, <2>3
<1>6. ASSUME NEW c \in DOMAIN L
      PROVE  /\ OwnPlaces(types, c) \subseteq LayoutFields(c)
             /\ LayoutFields(c) \subseteq MemberPlaces(types)[c]
             /\ NamesIn(LayoutFields(c)) = NamesIn(MemberPlaces(types)[c])
  <2>1. c \in Defined(types)
    BY <1>3
  <2>2. QED
    BY <1>2, <1>4, <2>1, FlatIsRight
<1>7. \A c \in Defined(types) : \A i \in DOMAIN Definitions(types, c) :
         Weight(types, Definitions(types, c)[i]) <= Weight(types, Chosen(types, c))
  BY <1>2, ChosenIsHeaviest
<1> HIDE DEF L
<1>8. QED
  BY <1>1, <1>3, <1>5, <1>6, <1>7 DEF PdbFieldsRight, types

(* For any PDB: a class with members is laid out with all the names of its *)
(* hierarchy, each at a place where it really is, a member of its own      *)
(* hiding one of a base (flatten, pdb.py:136), from a definition that no   *)
(* other of the class exceeds.                                             *)
THEOREM PdbFieldsAreRight == Spec => []PdbFieldsRight
<1>1. FlowInv => PdbFieldsRight
  BY PdbAgrees
<1>2. QED
  BY <1>1, FlowInvHolds, PTL

-----------------------------------------------------------------------------
(* Reading a dump in parts                                                 *)

(* There is only one such run.                                             *)
LEMMA RunIsRead ==
    ASSUME NEW dump, Sortable(dump), NEW s \in TypeStates(dump), NEW dies \in Seq(ToSet(dump)),
           NEW r, ReadRun(r, s, dies)
    PROVE  ReadFrom(s, dies) = r[Len(dies)] /\ r[Len(dies)] \in TypeStates(dump)
<1> DEFINE n == Len(dies)
           S == TypeStates(dump)
<1>1. PICK h : /\ ReadRun(h, s, dies) /\ ReadFrom(s, dies) = h[n]
               /\ \A i \in 0 .. n : h[i] \in S
  BY ReadsARun
<1> DEFINE P == {i \in 0 .. n : r[i] = h[i]}
<1>2. n \in Nat /\ n \in 0 .. n
  OBVIOUS
<1>3. /\ r[0] = s /\ \A i \in 1 .. n : r[i] = ReadTypeDie(r[i - 1], dies[i])
      /\ h[0] = s /\ \A i \in 1 .. n : h[i] = ReadTypeDie(h[i - 1], dies[i])
  BY <1>1 DEF ReadRun
<1> HIDE DEF n, S
<1>4. 0 \in P
  BY <1>2, <1>3
<1>5. ASSUME NEW i \in 0 .. n - 1, i \in P PROVE i + 1 \in P
  <2> DEFINE j == i + 1
  <2>1. j \in 1 .. n /\ j \in 0 .. n /\ j - 1 = i /\ r[i] = h[i]
    BY <1>2, <1>5
  <2> HIDE DEF j
  <2>2. r[j] = ReadTypeDie(r[i], dies[j]) /\ h[j] = ReadTypeDie(h[i], dies[j])
    BY <1>3, <2>1
  <2>3. r[j] = h[j]
    BY <2>1, <2>2
  <2>4. QED
    BY <2>1, <2>3 DEF j
<1>6. P = 0 .. n
  <2>1. P \in SUBSET (0 .. n)
    OBVIOUS
  <2> HIDE DEF P
  <2>2. QED
    BY <1>2, <1>4, <1>5, <2>1, UpTo
<1>7. r[n] = h[n]
  BY <1>2, <1>6
<1>8. QED
  BY <1>1, <1>2, <1>7 DEF n, S

(* Two parts are read one after the other.                                 *)
LEMMA ReadsOn ==
    ASSUME NEW dump, Sortable(dump), NEW s \in TypeStates(dump),
           NEW a \in Seq(ToSet(dump)), NEW b \in Seq(ToSet(dump))
    PROVE  /\ ReadFrom(s, a) \in TypeStates(dump)
           /\ ReadFrom(s, a \o b) = ReadFrom(ReadFrom(s, a), b)
<1> DEFINE m == Len(a)
           n == Len(b)
           c == a \o b
           S == TypeStates(dump)
           D == ToSet(dump)
<1>1. m \in Nat /\ n \in Nat /\ c \in Seq(D) /\ Len(c) = m + n
  OBVIOUS
<1>2. /\ \A k \in 1 .. m : c[k] = a[k]
      /\ \A l \in 1 .. n : c[m + l] = b[l]
  BY PutEndToEnd
<1> HIDE DEF c, S, D
<1>3. PICK r : ReadRun(r, s, c) /\ ReadFrom(s, c) = r[Len(c)]
               /\ \A i \in 0 .. Len(c) : r[i] \in S
  BY <1>1, ReadsARun DEF S, D
<1>4. r[0] = s /\ \A i \in 1 .. m + n : r[i] = ReadTypeDie(r[i - 1], c[i])
  BY <1>1, <1>3 DEF ReadRun
<1>5. ReadRun(r, s, a)
  BY <1>1, <1>2, <1>4 DEF ReadRun
<1>6. ReadFrom(s, a) = r[m] /\ r[m] \in S
  BY <1>5, RunIsRead DEF S, D
<1> DEFINE q == [i \in 0 .. n |-> r[m + i]]
<1>7. ReadRun(q, r[m], b)
  <2> HIDE DEF m, n
  <2>1. q[0] = r[m]
    BY <1>1
  <2>2. ASSUME NEW i \in 1 .. n PROVE q[i] = ReadTypeDie(q[i - 1], b[i])
    <3> DEFINE j == m + i
    <3>1. j \in 1 .. m + n /\ j - 1 = m + (i - 1) /\ i - 1 \in 0 .. n /\ i \in 0 .. n
      BY <1>1
    <3>2. q[i] = r[j] /\ q[i - 1] = r[j - 1] /\ c[j] = b[i]
      BY <1>2, <3>1
    <3> HIDE DEF j, q
    <3>3. r[j] = ReadTypeDie(r[j - 1], c[j])
      BY <1>4, <3>1
    <3>4. QED
      BY <3>2, <3>3
  <2>3. QED
    BY <2>1, <2>2 DEF ReadRun, n
<1>8. q[n] = r[m + n]
  BY <1>1
<1> HIDE DEF q
<1>9. ReadFrom(r[m], b) = q[n]
  BY <1>6, <1>7, RunIsRead DEF S, D
<1>10. QED
  BY <1>1, <1>3, <1>6, <1>8, <1>9 DEF c, S

(* A part with one die.                                                    *)
LEMMA ReadsOne ==
    ASSUME NEW dump, Sortable(dump), NEW s \in TypeStates(dump), NEW d \in ToSet(dump)
    PROVE  ReadFrom(s, <<d>>) = ReadTypeDie(s, d)
<1> DEFINE r == [i \in 0 .. 1 |-> IF i = 0 THEN s ELSE ReadTypeDie(s, d)]
           dies == <<d>>
<1>1. dies \in Seq(ToSet(dump)) /\ Len(dies) = 1 /\ dies[1] = d
  OBVIOUS
<1>2. r[0] = s /\ r[1] = ReadTypeDie(s, d)
  OBVIOUS
<1>3. \A i \in 1 .. 1 : i = 1
  OBVIOUS
<1> HIDE DEF r, dies
<1>4. ReadRun(r, s, dies)
  BY <1>1, <1>2, <1>3 DEF ReadRun
<1>5. ReadFrom(s, dies) = r[1]
  BY <1>1, <1>4, RunIsRead
<1>6. QED
  BY <1>2, <1>5 DEF dies

(* A part with none.                                                       *)
LEMMA ReadsNone ==
    ASSUME NEW dump, Sortable(dump), NEW s \in TypeStates(dump)
    PROVE  ReadFrom(s, <<>>) = s
<1> DEFINE r == [i \in 0 .. 0 |-> s]
           dies == <<>>
<1>1. dies \in Seq(ToSet(dump)) /\ Len(dies) = 0 /\ r[0] = s
  OBVIOUS
<1> HIDE DEF r, dies
<1>2. ReadRun(r, s, dies)
  BY <1>1 DEF ReadRun
<1>3. ReadFrom(s, dies) = r[0]
  BY <1>1, <1>2, RunIsRead
<1>4. QED
  BY <1>1, <1>3 DEF dies

(* A dump that is put together is read part by part.                       *)
LEMMA ReadsParts ==
    ASSUME NEW dump, Sortable(dump), NEW s \in TypeStates(dump),
           NEW seqs \in Seq(Seq(ToSet(dump)))
    PROVE  \E mid : /\ mid[0] = s /\ mid[Len(seqs)] = ReadFrom(s, FlattenSeq(seqs))
                    /\ \A i \in 0 .. Len(seqs) : mid[i] \in TypeStates(dump)
                    /\ \A i \in 1 .. Len(seqs) : mid[i] = ReadFrom(mid[i - 1], seqs[i])
<1> DEFINE n == Len(seqs)
           S == TypeStates(dump)
           D == ToSet(dump)
<1>1. n \in Nat /\ \A i \in 1 .. n : seqs[i] \in Seq(D)
  OBVIOUS
<1>2. CASE n = 0
  <2> DEFINE mid == [i \in 0 .. 0 |-> s]
  <2>1. seqs = <<>> /\ FlattenSeq(seqs) = seqs
    BY <1>2 DEF FlattenSeq
  <2>2. ReadFrom(s, FlattenSeq(seqs)) = s
    BY <2>1, ReadsNone
  <2>3. mid[0] = s /\ (\A i \in 0 .. n : mid[i] \in S) /\ 1 .. n = {}
    BY <1>2
  <2>4. QED
    BY <1>2, <2>2, <2>3
<1>3. CASE n # 0
  <2>1. PICK h : PutTogether(h, seqs) /\ \A i \in 1 .. n : h[i] \in Seq(D)
    BY <1>3, FlattenRuns
  <2>2. h[1] = seqs[1] /\ (\A i \in 1 .. n : i # 1 => h[i] = h[i - 1] \o seqs[i])
        /\ FlattenSeq(seqs) = h[n]
    BY <2>1 DEF PutTogether
  <2> HIDE DEF n, S, D
  <2> DEFINE mid == [i \in 0 .. n |-> IF i = 0 THEN s ELSE ReadFrom(s, h[i])]
  <2>3. mid[0] = s /\ \A i \in 1 .. n : mid[i] = ReadFrom(s, h[i])
    BY <1>1
  <2> HIDE DEF mid
  <2>4. \A i \in 1 .. n : mid[i] \in S
    BY <2>1, <2>3, ReadsOn DEF S, D
  <2>5. ASSUME NEW i \in 1 .. n PROVE mid[i] = ReadFrom(mid[i - 1], seqs[i])
    <3>1. CASE i = 1
      BY <2>2, <2>3, <3>1
    <3>2. CASE i # 1
      <4>1. i - 1 \in 1 .. n
        BY <1>1, <3>2
      <4>2. h[i - 1] \in Seq(D) /\ seqs[i] \in Seq(D) /\ h[i] = h[i - 1] \o seqs[i]
        BY <1>1, <2>1, <2>2, <3>2, <4>1
      <4>3. ReadFrom(s, h[i]) = ReadFrom(ReadFrom(s, h[i - 1]), seqs[i])
        BY <4>2, ReadsOn DEF D
      <4>4. QED
        BY <2>3, <4>1, <4>3
    <3>3. QED
      BY <3>1, <3>2
  <2>6. mid[n] = ReadFrom(s, FlattenSeq(seqs))
    BY <1>1, <1>3, <2>2, <2>3
  <2>7. \A i \in 0 .. n : i = 0 \/ i \in 1 .. n
    BY <1>1
  <2>8. s \in S
    BY DEF S
  <2>9. \A i \in 0 .. n : mid[i] \in S
    BY <2>3, <2>4, <2>7, <2>8
  <2>10. QED
    BY <2>3, <2>5, <2>6, <2>9 DEF n, S
<1>4. QED
  BY <1>2, <1>3

-----------------------------------------------------------------------------
(* What a die does to the state                                            *)

(* Until a class has a member, nothing is kept of it but its header.       *)
Quiet(s) == s.header => s.fields = <<>> /\ s.member = NoMember

(* The fields of the class that is open, and the layouts with them.        *)
Gathered(s) == FlushMember(s).fields
Flushed(s) == FlushCompound(s).layouts
Filed(name, size, fields, layouts) ==
    IF /\ name \notin Unnamed \cup {None} /\ fields # <<>>
       /\ name \in DOMAIN layouts => Len(fields) > Len(layouts[name].fields)
    THEN Put(layouts, name, [size |-> IF size = None THEN 0 ELSE size, fields |-> fields])
    ELSE layouts

(* A member that is open is added to the fields, and nothing else changes. *)
LEMMA FlushMemberLeaves ==
    ASSUME NEW dump, NEW s \in TypeStates(dump)
    PROVE  LET t == FlushMember(s) IN
           /\ t.member = NoMember /\ t.fields = Gathered(s) /\ Gathered(t) = t.fields
           /\ t.name = s.name /\ t.size = s.size /\ t.header = s.header /\ t.layouts = s.layouts
           /\ t.state = IF s.state = "member" THEN "compound" ELSE s.state
<1> DEFINE t == FlushMember(s)
<1>1. t \in TypeStates(dump)
  BY FlushMemberKeeps
<1>2. /\ t.member = NoMember
      /\ t.name = s.name /\ t.size = s.size /\ t.header = s.header /\ t.layouts = s.layouts
      /\ t.state = IF s.state = "member" THEN "compound" ELSE s.state
  BY DEF FlushMember, TypeStates
<1> HIDE DEF t
<1>3. NoMember.name = None
  BY DEF NoMember
<1>4. FlushMember(t).fields = t.fields
  BY <1>1, <1>2, <1>3 DEF FlushMember, TypeStates
<1>5. QED
  BY <1>2, <1>4 DEF Gathered, t

(* What is gathered, with the open member or without one.                  *)
LEMMA GatheredIs ==
    ASSUME NEW dump, NEW s \in TypeStates(dump)
    PROVE  LET m == s.member
               f == [name |-> m.name, offset |-> m.location,
                     kind |-> DwarfTypeKind(m.type).kind, view |-> DwarfTypeKind(m.type).view]
           IN  /\ Gathered(s) = IF m.name # None /\ m.location # None THEN PutField(s.fields, f)
                                ELSE s.fields
               /\ Gathered(s) \in FieldLists(Entries(dump))
<1>1. FlushMember(s) \in TypeStates(dump)
  BY FlushMemberKeeps
<1>2. QED
  BY <1>1 DEF FlushMember, TypeStates, Gathered

(* A class of which only the header was read has no fields.                *)
LEMMA NothingGathered ==
    ASSUME NEW dump, NEW s \in TypeStates(dump), s.member = NoMember
    PROVE  Gathered(s) = s.fields
<1>1. s.member.name = None
  BY DEF NoMember
<1>2. QED
  BY <1>1 DEF Gathered, FlushMember, TypeStates

(* Flushing files what is gathered of the class that is open, if one is.   *)
LEMMA FlushedIs ==
    ASSUME NEW dump, NEW s \in TypeStates(dump)
    PROVE  /\ Flushed(s) = Filed(s.name, s.size, Gathered(s), s.layouts)
           /\ FlushCompound(s) = [NoType EXCEPT !.layouts = Flushed(s)]
<1> DEFINE t == FlushMember(s)
           layouts == IF Richer(t) THEN Put(t.layouts, t.name,
                         [size |-> IF t.size = None THEN 0 ELSE t.size, fields |-> t.fields])
                      ELSE t.layouts
<1>1. FlushCompound(s) = [NoType EXCEPT !.layouts = layouts]
  BY DEF FlushCompound
<1>2. t.fields = Gathered(s) /\ t.name = s.name /\ t.size = s.size /\ t.layouts = s.layouts
  BY FlushMemberLeaves
<1>3. layouts = Filed(s.name, s.size, Gathered(s), s.layouts)
  <2> HIDE DEF t
  <2>1. Richer(t) <=> /\ s.name \notin Unnamed \cup {None} /\ Gathered(s) # <<>>
                      /\ s.name \in DOMAIN s.layouts =>
                            Len(Gathered(s)) > Len(s.layouts[s.name].fields)
    BY <1>2 DEF Richer
  <2>2. QED
    BY <1>2, <2>1 DEF Filed
<1> HIDE DEF layouts
<1>4. [NoType EXCEPT !.layouts = layouts].layouts = layouts
  BY DEF NoType
<1>5. QED
  BY <1>1, <1>3, <1>4 DEF Flushed

(* A die that is no member leaves the layouts as they are with the class   *)
(* that was open.                                                          *)
LEMMA OthersKeep ==
    ASSUME NEW dump, Sortable(dump), NEW s \in TypeStates(dump), Quiet(s),
           NEW d \in ToSet(dump), d.tag # "member"
    PROVE  LET t == ReadTypeDie(s, d) IN
           /\ Quiet(t) /\ Flushed(t) = Flushed(s)
           /\ d.tag \in CompoundTags =>
                /\ InCompound(t) /\ t.name = d.name /\ t.layouts = Flushed(s)
                /\ t.fields = <<>> /\ t.member = NoMember
<1> DEFINE t == ReadTypeDie(s, d)
           u == FlushMember(s)
           w == FlushCompound(s)
<1>1. t \in TypeStates(dump) /\ u \in TypeStates(dump) /\ w \in TypeStates(dump)
  BY DieKeeps, FlushMemberKeeps, FlushCompoundKeeps
<1>2. \A v \in TypeStates(dump) : v.fields = <<>> /\ v.member = NoMember => Flushed(v) = v.layouts
  <2> TAKE v \in TypeStates(dump)
  <2> HAVE v.fields = <<>> /\ v.member = NoMember
  <2>1. Gathered(v) = <<>>
    BY NothingGathered
  <2>2. QED
    BY <2>1, FlushedIs DEF Filed
<1>3. /\ w.layouts = Flushed(s) /\ w.fields = <<>> /\ w.member = NoMember /\ ~w.header
      /\ w.name = None
  BY FlushedIs DEF NoType
<1>4. /\ u.member = NoMember /\ u.fields = Gathered(s) /\ Gathered(u) = u.fields
      /\ u.name = s.name /\ u.size = s.size /\ u.header = s.header /\ u.layouts = s.layouts
  BY FlushMemberLeaves
<1>5. CASE d.tag \in CompoundTags
  <2> DEFINE v == [w EXCEPT !.state = "compound", !.header = TRUE]
  <2>1. t = TakeHeader(v, d)
    BY <1>5 DEF ReadTypeDie, CompoundTags, EndTags
  <2>2. /\ v.state = "compound" /\ v.header /\ v.layouts = Flushed(s) /\ v.fields = <<>>
        /\ v.member = NoMember /\ v.name = None
    BY <1>1, <1>3 DEF TypeStates
  <2>3. v \in TypeStates(dump)
    BY <1>1 DEF TypeStates
  <2> HIDE DEF v
  <2>4. /\ t.state = "compound" /\ t.header /\ t.layouts = Flushed(s) /\ t.fields = <<>>
        /\ t.member = NoMember /\ t.name = d.name
    BY <2>1, <2>2, <2>3 DEF TakeHeader, TypeStates
  <2> HIDE DEF t
  <2>5. QED
    BY <1>1, <1>2, <2>4 DEF Quiet, InCompound, t
<1>6. CASE d.tag \in EndTags /\ d.tag \notin CompoundTags
  <2>1. t = w
    BY <1>6 DEF ReadTypeDie, EndTags
  <2> HIDE DEF t, w
  <2>2. QED
    BY <1>1, <1>2, <1>3, <1>6, <2>1 DEF Quiet, t
<1>7. CASE d.tag \notin EndTags \cup CompoundTags /\ InCompound(s)
  <2>1. t = TakeHeader(u, d)
    BY <1>7 DEF ReadTypeDie
  <2> HIDE DEF t, u, w
  <2>2. CASE ~s.header
    <3>1. t = u
      BY <1>4, <2>1, <2>2 DEF TakeHeader
    <3>2. Flushed(u) = Filed(u.name, u.size, Gathered(u), u.layouts)
          /\ Flushed(s) = Filed(s.name, s.size, Gathered(s), s.layouts)
      BY <1>1, FlushedIs
    <3>3. QED
      BY <1>4, <1>7, <2>2, <3>1, <3>2 DEF Quiet, t
  <2>3. CASE s.header
    <3>1. s.fields = <<>> /\ s.member = NoMember
      BY <2>3 DEF Quiet
    <3>2. Gathered(s) = <<>>
      BY <3>1, NothingGathered
    <3>3. t.fields = <<>> /\ t.member = NoMember /\ t.layouts = s.layouts
      BY <1>1, <1>4, <2>1, <3>2 DEF TakeHeader, TypeStates
    <3>4. Flushed(t) = s.layouts /\ Flushed(s) = s.layouts
      BY <1>1, <1>2, <3>1, <3>3
    <3>5. QED
      BY <1>7, <3>3, <3>4 DEF Quiet, t
  <2>4. QED
    BY <2>2, <2>3
<1>8. CASE d.tag \notin EndTags \cup CompoundTags /\ ~InCompound(s)
  <2>1. t = s
    BY <1>8 DEF ReadTypeDie
  <2>2. QED
    BY <1>8, <2>1
<1>9. QED
  BY <1>5, <1>6, <1>7, <1>8

-----------------------------------------------------------------------------
(* The members of a class                                                  *)

(* A dict of fields has each name of the members, at a place of one.       *)
Gathers(fields, places) ==
    /\ EachNameOnce(fields) /\ PlacesIn(fields) \subseteq places
    /\ NamesIn(PlacesIn(fields)) = NamesIn(places)

(* A member that is put into the dict is gathered.                         *)
LEMMA PutGathers ==
    ASSUME NEW E, NEW fields \in FieldLists(E), NEW f \in E, NEW places, Gathers(fields, places)
    PROVE  Gathers(PutField(fields, f), places \cup {[name |-> f.name, offset |-> f.offset]})
<1> DEFINE t == PutField(fields, f)
           place == [name |-> f.name, offset |-> f.offset]
<1>1. /\ t \in FieldLists(E)
      /\ \A k \in DOMAIN t : t[k] = f \/ \E l \in DOMAIN fields : t[k] = fields[l]
      /\ \E k \in DOMAIN t : t[k] = f
      /\ \A l \in DOMAIN fields : \E k \in DOMAIN t : t[k].name = fields[l].name
  BY PutFieldKeeps
<1> HIDE DEF t
<1>2. EachNameOnce(t)
  BY <1>1 DEF FieldLists
<1>3. PlacesIn(t) \subseteq PlacesIn(fields) \cup {place}
  BY <1>1 DEF PlacesIn, ToSet
<1>4. NamesIn(PlacesIn(t)) = {t[k].name : k \in DOMAIN t}
      /\ NamesIn(PlacesIn(fields)) = {fields[k].name : k \in DOMAIN fields}
  BY SameNames DEF ToSet
<1>5. NamesIn(PlacesIn(t)) = NamesIn(PlacesIn(fields)) \cup {f.name}
  <2>1. \A x \in NamesIn(PlacesIn(t)) : x \in NamesIn(PlacesIn(fields)) \cup {f.name}
    BY <1>1, <1>4
  <2>2. \A x \in NamesIn(PlacesIn(fields)) \cup {f.name} : x \in NamesIn(PlacesIn(t))
    BY <1>1, <1>4
  <2>3. QED
    BY <2>1, <2>2
<1>6. NamesIn(places \cup {place}) = NamesIn(places) \cup {f.name}
  <2>1. place.name = f.name
    OBVIOUS
  <2> HIDE DEF place
  <2>2. QED
    BY <2>1 DEF NamesIn
<1>7. QED
  BY <1>2, <1>3, <1>5, <1>6 DEF Gathers, t

(* The places of the first k children that are members.                    *)
FieldsTo(unit, k) ==
    {[name |-> Children(unit)[i].name, offset |-> Children(unit)[i].location] :
        i \in {j \in 1 .. k : HasPlace(Children(unit)[j])}}

(* A class is open, k of its children were read, and the layouts were kept *)
(* before it.                                                              *)
Opened(s, unit, k, layouts) ==
    /\ InCompound(s) /\ Quiet(s) /\ s.name = unit.die.name /\ s.layouts = layouts
    /\ Gathers(Gathered(s), FieldsTo(unit, k))

(* The header of a class opens it and files the one before.                *)
LEMMA ClassOpens ==
    ASSUME NEW dump, Sortable(dump), NEW s \in TypeStates(dump), Quiet(s),
           NEW unit, unit.die \in ToSet(dump), unit.die.tag \in CompoundTags
    PROVE  Opened(ReadTypeDie(s, unit.die), unit, 0, Flushed(s))
<1> DEFINE t == ReadTypeDie(s, unit.die)
<1>1. unit.die.tag # "member"
  BY DEF CompoundTags
<1>2. /\ Quiet(t) /\ InCompound(t) /\ t.name = unit.die.name /\ t.layouts = Flushed(s)
      /\ t.fields = <<>> /\ t.member = NoMember
  BY <1>1, OthersKeep
<1>3. t \in TypeStates(dump)
  BY DieKeeps
<1> HIDE DEF t
<1>4. Gathered(t) = <<>>
  BY <1>2, <1>3, NothingGathered
<1>5. FieldsTo(unit, 0) = {}
  BY DEF FieldsTo
<1>6. Gathers(<<>>, {})
  BY DEF Gathers, EachNameOnce, PlacesIn, NamesIn, ToSet
<1>7. QED
  BY <1>2, <1>4, <1>5, <1>6 DEF Opened, t

(* A child of the open class is gathered if it is a member with a place.   *)
LEMMA ChildIsRead ==
    ASSUME NEW dump, Sortable(dump), NEW unit, NEW k \in Nat, NEW layouts,
           NEW s \in TypeStates(dump), Opened(s, unit, k, layouts),
           NEW d \in ToSet(dump), d = Children(unit)[k + 1],
           \/ d.tag = "member"
           \/ d.tag = "inheritance" /\ d.name = None
    PROVE  Opened(ReadTypeDie(s, d), unit, k + 1, layouts)
<1> DEFINE t == ReadTypeDie(s, d)
           u == FlushMember(s)
           place == [name |-> d.name, offset |-> d.location]
<1>1. t \in TypeStates(dump) /\ u \in TypeStates(dump)
  BY DieKeeps, FlushMemberKeeps
<1>2. /\ u.member = NoMember /\ u.fields = Gathered(s) /\ Gathered(u) = u.fields
      /\ u.name = s.name /\ u.size = s.size /\ u.header = s.header /\ u.layouts = s.layouts
      /\ u.state = IF s.state = "member" THEN "compound" ELSE s.state
  BY FlushMemberLeaves
<1>3. InCompound(s) /\ Quiet(s) /\ s.name = unit.die.name /\ s.layouts = layouts
      /\ Gathers(Gathered(s), FieldsTo(unit, k))
  BY DEF Opened
<1>4. FieldsTo(unit, k + 1) = FieldsTo(unit, k) \cup (IF HasPlace(d) THEN {place} ELSE {})
  <2> DEFINE K(m) == {j \in 1 .. m : HasPlace(Children(unit)[j])}
             At1(i) == [name |-> Children(unit)[i].name, offset |-> Children(unit)[i].location]
  <2>1. K(k + 1) = K(k) \cup (IF HasPlace(d) THEN {k + 1} ELSE {})
    OBVIOUS
  <2>2. At1(k + 1) = place
    OBVIOUS
  <2>3. \A m : FieldsTo(unit, m) = {At1(i) : i \in K(m)}
    BY DEF FieldsTo
  <2> HIDE DEF K, At1, place
  <2>4. QED
    BY <2>1, <2>2, <2>3
<1>5. CASE d.tag = "member"
  <2> DEFINE member == [name |-> d.name, location |-> d.location, type |-> d.type]
             f == [name |-> d.name, offset |-> d.location,
                   kind |-> DwarfTypeKind(d.type).kind, view |-> DwarfTypeKind(d.type).view]
  <2>1. t = [u EXCEPT !.header = FALSE, !.state = "member", !.member = member]
    BY <1>3, <1>5 DEF ReadTypeDie, CompoundTags, EndTags
  <2>2. t.header = FALSE /\ t.state = "member" /\ t.member = member
        /\ t.fields = u.fields /\ t.name = u.name /\ t.layouts = u.layouts
    BY <1>1, <2>1 DEF TypeStates
  <2>3. member.name = d.name /\ member.location = d.location /\ member.type = d.type
    OBVIOUS
  <2> HIDE DEF t, u, member, f
  <2>4. Gathered(t) = IF d.name # None /\ d.location # None THEN PutField(u.fields, f)
                      ELSE u.fields
    BY <1>1, <2>2, <2>3, GatheredIs DEF f
  <2>5. CASE HasPlace(d)
    <3>1. PICK i \in DOMAIN dump : d = dump[i]
      BY DEF ToSet
    <3>2. f \in Entries(dump)
      BY <3>1, Zenon DEF Entries, f
    <3>3. u.fields \in FieldLists(Entries(dump))
      BY <1>1 DEF TypeStates
    <3>4. f.name = d.name /\ f.offset = d.location
      BY DEF f
    <3>5. Gathers(PutField(u.fields, f), FieldsTo(unit, k) \cup {place})
      BY <1>2, <1>3, <3>2, <3>3, <3>4, PutGathers
    <3>6. Gathers(Gathered(t), FieldsTo(unit, k + 1))
      BY <1>4, <2>4, <2>5, <3>5 DEF HasPlace
    <3>7. QED
      BY <1>2, <1>3, <2>2, <3>6 DEF Opened, InCompound, Quiet, t
  <2>6. CASE ~HasPlace(d)
    <3>1. Gathers(Gathered(t), FieldsTo(unit, k + 1))
      BY <1>2, <1>3, <1>4, <1>5, <2>4, <2>6 DEF HasPlace
    <3>2. QED
      BY <1>2, <1>3, <2>2, <3>1 DEF Opened, InCompound, Quiet, t
  <2>7. QED
    BY <2>5, <2>6
<1>6. CASE d.tag = "inheritance" /\ d.name = None
  <2>1. t = TakeHeader(u, d)
    BY <1>3, <1>6 DEF ReadTypeDie, CompoundTags, EndTags
  <2>2. Quiet(t)
    BY <1>3, <1>6, OthersKeep
  <2>3. ~HasPlace(d)
    BY <1>6 DEF HasPlace
  <2> HIDE DEF t, u
  <2>4. t.name = u.name /\ t.layouts = u.layouts /\ t.fields = u.fields /\ t.member = NoMember
        /\ t.state = u.state
    BY <1>1, <1>2, <1>6, <2>1 DEF TakeHeader, TypeStates
  <2>5. Gathered(t) = t.fields
    BY <1>1, <2>4, NothingGathered
  <2>6. QED
    BY <1>2, <1>3, <1>4, <2>2, <2>3, <2>4, <2>5 DEF Opened, InCompound, t
<1>7. QED
  BY <1>5, <1>6

-----------------------------------------------------------------------------
(* Classes filed                                                           *)

(* What is to hold of the layouts when the classes in units were printed:  *)
(* DwarfFieldsRight, said of any layouts and classes.                      *)
Filing(layouts, units) ==
    /\ \A u \in units : Cardinality(NamesIn(MemberFields(u))) \in Nat
    /\ \A n \in DOMAIN layouts :
        /\ n \notin Unnamed \cup {None}
        /\ \E u \in units : u.die.name = n /\ PlacesIn(layouts[n].fields) \subseteq MemberFields(u)
        /\ \A v \in units : v.die.name = n =>
            Cardinality(NamesIn(MemberFields(v))) <= Len(layouts[n].fields)
    /\ \A u \in units : u.die.name \notin Unnamed \cup {None} /\ MemberFields(u) # {} =>
        u.die.name \in DOMAIN layouts

(* A flush now would leave the layouts of these classes.                   *)
Settled(s, units) == Quiet(s) /\ Filing(Flushed(s), units)

(* A class is filed under its name if it has more fields than the one that *)
(* is there.                                                               *)
LEMMA FilesOneMore ==
    ASSUME NEW layouts, NEW units, Filing(layouts, units), NEW unit, NEW size, NEW fields,
           Len(fields) \in Nat, fields = <<>> <=> Len(fields) = 0,
           \A n \in DOMAIN layouts : Len(layouts[n].fields) \in Nat,
           PlacesIn(fields) \subseteq MemberFields(unit),
           Cardinality(NamesIn(MemberFields(unit))) = Len(fields),
           MemberFields(unit) = {} <=> fields = <<>>
    PROVE  Filing(Filed(unit.die.name, size, fields, layouts), units \cup {unit})
<1> DEFINE name == unit.die.name
           count(u) == Cardinality(NamesIn(MemberFields(u)))
           value == [size |-> IF size = None THEN 0 ELSE size, fields |-> fields]
           new == Filed(name, size, fields, layouts)
           ok(n) == n \notin Unnamed \cup {None}
           richer == name \in DOMAIN layouts => Len(fields) > Len(layouts[name].fields)
<1>1. /\ \A u \in units : count(u) \in Nat
      /\ \A n \in DOMAIN layouts :
            /\ ok(n)
            /\ \E u \in units : u.die.name = n /\ PlacesIn(layouts[n].fields) \subseteq MemberFields(u)
            /\ \A v \in units : v.die.name = n => count(v) <= Len(layouts[n].fields)
      /\ \A u \in units : ok(u.die.name) /\ MemberFields(u) # {} => u.die.name \in DOMAIN layouts
  BY Zenon DEF Filing
<1>2. count(unit) = Len(fields)
  OBVIOUS
<1>3. \A u : MemberFields(u) = {} => count(u) = 0
  BY FS_EmptySet DEF NamesIn
<1>4. value.fields = fields
  OBVIOUS
<1>5. new = IF ok(name) /\ fields # <<>> /\ richer THEN Put(layouts, name, value) ELSE layouts
  BY DEF Filed
<1>6. Put(layouts, name, value) =
         [k \in DOMAIN layouts \cup {name} |-> IF k = name THEN value ELSE layouts[k]]
  BY DEF Put
<1> HIDE DEF count, value, new, ok
<1>7. CASE ok(name) /\ fields # <<>> /\ richer
  <2>1. /\ DOMAIN new = DOMAIN layouts \cup {name} /\ new[name].fields = fields
        /\ \A k \in DOMAIN layouts : k # name => new[k] = layouts[k]
    BY <1>4, <1>5, <1>6, <1>7
  <2>2. ASSUME NEW v \in units, v.die.name = name PROVE count(v) <= Len(fields)
    <3>1. count(v) \in Nat
      BY <1>1
    <3>2. CASE name \in DOMAIN layouts
      <4>1. count(v) <= Len(layouts[name].fields) /\ Len(layouts[name].fields) \in Nat
            /\ Len(fields) > Len(layouts[name].fields)
        BY <1>1, <1>7, <2>2, <3>2
      <4>2. QED
        BY <3>1, <4>1
    <3>3. CASE name \notin DOMAIN layouts
      <4>1. MemberFields(v) = {}
        BY <1>1, <1>7, <2>2, <3>3
      <4>2. QED
        BY <1>3, <4>1
    <3>4. QED
      BY <3>2, <3>3
  <2>3. ASSUME NEW n \in DOMAIN new
        PROVE  /\ ok(n)
               /\ \E u \in units \cup {unit} :
                     u.die.name = n /\ PlacesIn(new[n].fields) \subseteq MemberFields(u)
               /\ \A v \in units \cup {unit} : v.die.name = n => count(v) <= Len(new[n].fields)
    <3>1. CASE n = name
      <4>1. new[n].fields = fields /\ unit.die.name = n
        BY <2>1, <3>1
      <4>2. count(unit) <= Len(fields)
        BY <1>2
      <4>3. QED
        BY <1>7, <2>2, <3>1, <4>1, <4>2
    <3>2. CASE n # name
      <4>1. n \in DOMAIN layouts /\ new[n] = layouts[n]
        BY <2>1, <3>2
      <4>2. QED
        BY <1>1, <3>2, <4>1
    <3>3. QED
      BY <3>1, <3>2
  <2>4. \A u \in units \cup {unit} : ok(u.die.name) /\ MemberFields(u) # {} => u.die.name \in DOMAIN new
    BY <1>1, <2>1
  <2>5. \A u \in units \cup {unit} : count(u) \in Nat
    BY <1>1, <1>2
  <2>6. QED
    BY <2>3, <2>4, <2>5 DEF Filing, count, ok, new
<1>8. CASE ~(ok(name) /\ fields # <<>> /\ richer)
  <2>1. new = layouts
    BY <1>5, <1>8
  <2>2. ASSUME name \in DOMAIN layouts PROVE count(unit) <= Len(layouts[name].fields)
    <3>1. ok(name) /\ Len(layouts[name].fields) \in Nat
      BY <1>1, <2>2
    <3>2. CASE fields = <<>>
      BY <1>2, <3>1, <3>2
    <3>3. CASE fields # <<>>
      BY <1>2, <1>8, <3>1, <3>3
    <3>4. QED
      BY <3>2, <3>3
  <2>3. ASSUME ok(name), MemberFields(unit) # {} PROVE name \in DOMAIN layouts
    BY <1>8, <2>3
  <2>4. \A u \in units \cup {unit} : count(u) \in Nat
    BY <1>1, <1>2
  <2>5. \A u \in units \cup {unit} : ok(u.die.name) /\ MemberFields(u) # {} => u.die.name \in DOMAIN new
    BY <1>1, <2>1, <2>3
  <2>6. \A n \in DOMAIN new :
            /\ ok(n)
            /\ \E u \in units \cup {unit} :
                  u.die.name = n /\ PlacesIn(new[n].fields) \subseteq MemberFields(u)
            /\ \A v \in units \cup {unit} : v.die.name = n => count(v) <= Len(new[n].fields)
    BY <1>1, <2>1, <2>2
  <2>7. QED
    BY <2>4, <2>5, <2>6 DEF Filing, count, ok, new
<1>9. QED
  BY <1>7, <1>8

(* When its members were read, flushing files the class.                   *)
LEMMA ClassIsFiled ==
    ASSUME NEW dump, NEW s \in TypeStates(dump), NEW unit, NEW k, NEW layouts, NEW units,
           Opened(s, unit, k, layouts), FieldsTo(unit, k) = MemberFields(unit),
           Filing(layouts, units)
    PROVE  Settled(s, units \cup {unit})
<1> DEFINE fields == Gathered(s)
           E == Entries(dump)
<1>1. /\ Quiet(s) /\ s.name = unit.die.name /\ s.layouts = layouts
      /\ Gathers(fields, MemberFields(unit))
  BY DEF Opened
<1>2. Flushed(s) = Filed(unit.die.name, s.size, fields, layouts)
  BY <1>1, FlushedIs
<1>3. fields \in FieldLists(E)
  BY GatheredIs
<1>4. layouts \in LayoutsWith(Sizes(dump), E)
  BY <1>1 DEF TypeStates
<1> HIDE DEF fields, E
<1>5. \A n \in DOMAIN layouts : Len(layouts[n].fields) \in Nat
  <2> DEFINE Z == Sizes(dump)
  <2> HIDE DEF Z
  <2>1. PICK D : layouts \in [D -> [size : Z, fields : FieldLists(E)]]
    BY <1>4 DEF LayoutsWith, Z
  <2>2. \A n \in DOMAIN layouts : layouts[n].fields \in FieldLists(E)
    BY <2>1
  <2>3. QED
    BY <2>2 DEF FieldLists
<1>6. fields \in Seq(E) /\ EachNameOnce(fields) /\ Len(fields) \in Nat
  BY <1>3 DEF FieldLists
<1>7. fields = <<>> <=> Len(fields) = 0
  BY <1>6
<1>8. NamesIn(MemberFields(unit)) = {fields[i].name : i \in DOMAIN fields}
      /\ PlacesIn(fields) \subseteq MemberFields(unit)
  BY <1>1, SameNames DEF Gathers, ToSet
<1>9. Cardinality(NamesIn(MemberFields(unit))) = Len(fields)
  BY <1>6, <1>8, NamesAreCounted, SequencesAreLists
<1>10. MemberFields(unit) = {} <=> fields = <<>>
  <2>1. MemberFields(unit) = {} <=> NamesIn(MemberFields(unit)) = {}
    BY DEF NamesIn
  <2>2. DOMAIN fields = {} <=> fields = <<>>
    BY <1>6
  <2>3. QED
    BY <1>8, <2>1, <2>2
<1>11. Filing(Filed(unit.die.name, s.size, fields, layouts), units \cup {unit})
  BY <1>5, <1>6, <1>7, <1>8, <1>9, <1>10, FilesOneMore
<1>12. QED
  BY <1>1, <1>2, <1>11 DEF Settled

(* A die that is no member and no class leaves what is settled.            *)
LEMMA OthersSettle ==
    ASSUME NEW dump, Sortable(dump), NEW s \in TypeStates(dump), NEW units, Settled(s, units),
           NEW d \in ToSet(dump), d.tag # "member"
    PROVE  Settled(ReadTypeDie(s, d), units)
<1>1. Quiet(s) /\ Filing(Flushed(s), units)
  BY DEF Settled
<1>2. Quiet(ReadTypeDie(s, d)) /\ Flushed(ReadTypeDie(s, d)) = Flushed(s)
  BY <1>1, OthersKeep
<1>3. QED
  BY <1>1, <1>2 DEF Settled

(* All the children have the places of MemberFields.                       *)
LEMMA AllFields ==
    ASSUME NEW unit, IsList(unit.children), NEW k \in 0 .. Len(unit.children),
           \A j \in k + 1 .. Len(unit.children) : Children(unit)[j].tag # "member"
    PROVE  FieldsTo(unit, k) = MemberFields(unit)
<1> DEFINE n == Len(unit.children)
           K == {j \in 1 .. k : HasPlace(Children(unit)[j])}
           M == {e \in ToSet(Children(unit)) : HasPlace(e)}
           Placed(e) == [name |-> e.name, offset |-> e.location]
<1>1. n \in Nat /\ DOMAIN Children(unit) = 1 .. n
  BY DEF IsList, Children
<1>2. \A j \in 1 .. n : HasPlace(Children(unit)[j]) => j \in 1 .. k
  <2>1. \A j \in 1 .. n : j \in 1 .. k \/ j \in k + 1 .. n
    BY <1>1
  <2>2. QED
    BY <2>1 DEF HasPlace
<1>3. M = {Children(unit)[j] : j \in K}
  <2>1. \A j \in 1 .. k : j \in 1 .. n
    BY <1>1
  <2>2. QED
    BY <1>1, <1>2, <2>1 DEF ToSet
<1>4. FieldsTo(unit, k) = {Placed(Children(unit)[j]) : j \in K}
  BY DEF FieldsTo
<1>5. MemberFields(unit) = {Placed(e) : e \in M}
  BY DEF MemberFields
<1> HIDE DEF K, M, Placed
<1>6. QED
  BY <1>3, <1>4, <1>5

(* The children of a class, of which what follows the last member is read  *)
(* as if it was outside.                                                   *)
LEMMA ChildrenSettle ==
    ASSUME NEW dump, Sortable(dump), NEW unit, IsList(unit.children), Orderly(unit),
           \A d \in ToSet(Children(unit)) :
              d \in ToSet(dump) /\ (d.tag = "inheritance" => d.name = None),
           NEW layouts, NEW units, Filing(layouts, units), NEW mid, NEW inner,
           \A i \in 0 .. Len(unit.children) : mid[i] \in TypeStates(dump),
           Opened(mid[0], unit, 0, layouts), inner[0] = {},
           \A i \in 1 .. Len(unit.children) : Children(unit)[i].tag \in {"member", "inheritance"} =>
              mid[i] = ReadTypeDie(mid[i - 1], Children(unit)[i]) /\ inner[i] = inner[i - 1],
           \A i \in 1 .. Len(unit.children) :
              (/\ Children(unit)[i].tag # "member"
               /\ Settled(mid[i - 1], units \cup {unit} \cup inner[i - 1]))
              => Settled(mid[i], units \cup {unit} \cup inner[i])
    PROVE  Settled(mid[Len(unit.children)], units \cup {unit} \cup inner[Len(unit.children)])
<1> DEFINE n == Len(unit.children)
           kids == Children(unit)
           All == units \cup {unit}
           More(i) == \E j \in i + 1 .. n : kids[j].tag = "member"
           P == {i \in 0 .. n : IF More(i) THEN Opened(mid[i], unit, i, layouts) /\ inner[i] = {}
                                ELSE Settled(mid[i], All \cup inner[i])}
<1>1. n \in Nat /\ DOMAIN kids = 1 .. n
  BY DEF IsList, Children
<1>2. \A i \in 1 .. n : kids[i] \in ToSet(dump) /\ (kids[i].tag = "inheritance" => kids[i].name = None)
  BY <1>1 DEF ToSet
<1>3. ASSUME NEW i \in 0 .. n, Opened(mid[i], unit, i, layouts), ~More(i), inner[i] = {}
      PROVE  Settled(mid[i], All \cup inner[i])
  <2>1. FieldsTo(unit, i) = MemberFields(unit)
    BY <1>3, AllFields
  <2>2. Settled(mid[i], All)
    BY <1>3, <2>1, ClassIsFiled
  <2>3. All \cup inner[i] = All
    BY <1>3
  <2>4. QED
    BY <2>2, <2>3
<1>4. 0 \in P
  <2>1. 0 \in 0 .. n
    BY <1>1
  <2>2. Opened(mid[0], unit, 0, layouts) /\ inner[0] = {}
    OBVIOUS
  <2> HIDE DEF More, All, n
  <2>3. QED
    BY <1>3, <2>1, <2>2
<1>5. ASSUME NEW i \in 0 .. n - 1, i \in P PROVE i + 1 \in P
  <2> DEFINE k == i + 1
             d == kids[k]
  <2>1. k \in 1 .. n /\ k \in 0 .. n /\ i \in 0 .. n /\ k - 1 = i /\ i \in Nat
    BY <1>1, <1>5
  <2>2. d \in ToSet(dump) /\ (d.tag = "inheritance" => d.name = None)
    BY <1>2, <2>1
  <2>3. mid[i] \in TypeStates(dump)
    BY <2>1
  <2>4. CASE More(k) \/ d.tag = "member"
    <3>1. More(i) /\ d.tag \in {"member", "inheritance"}
      <4>1. CASE d.tag = "member"
        BY <2>1, <4>1
      <4>2. CASE More(k)
        <5>1. PICK j \in k + 1 .. n : kids[j].tag = "member"
          BY <4>2
        <5>2. j \in i + 1 .. n /\ j \in DOMAIN unit.children /\ k \in DOMAIN unit.children /\ k < j
          BY <1>1, <2>1, <5>1 DEF Children
        <5>3. kids[k].tag \in {"member", "inheritance"}
          BY <5>1, <5>2 DEF Orderly
        <5>4. QED
          BY <5>1, <5>2, <5>3
      <4>3. QED
        BY <2>4, <4>1, <4>2
    <3>2. Opened(mid[i], unit, i, layouts) /\ inner[i] = {}
      BY <1>5, <3>1
    <3>3. mid[k] = ReadTypeDie(mid[i], d) /\ inner[k] = {}
      BY <2>1, <3>1, <3>2
    <3> HIDE DEF P, More, kids, d, All
    <3>4. Opened(ReadTypeDie(mid[i], d), unit, i + 1, layouts)
      BY <2>1, <2>2, <2>3, <3>1, <3>2, ChildIsRead DEF d, kids
    <3>5. Opened(mid[k], unit, k, layouts)
      BY <3>3, <3>4
    <3>6. CASE More(k)
      BY <2>1, <3>3, <3>5, <3>6 DEF P
    <3>7. CASE ~More(k)
      BY <1>3, <2>1, <3>3, <3>5, <3>7 DEF P
    <3>8. QED
      BY <3>6, <3>7
  <2>5. CASE ~More(k) /\ d.tag # "member"
    <3>1. ~More(i)
      <4>1. \A j \in i + 1 .. n : j = k \/ j \in k + 1 .. n
        BY <1>1, <2>1
      <4>2. QED
        BY <2>5, <4>1
    <3>2. Settled(mid[i], All \cup inner[i])
      BY <1>5, <3>1
    <3>3. Settled(mid[k - 1], All \cup inner[k - 1]) => Settled(mid[k], All \cup inner[k])
      BY <2>1, <2>5
    <3>4. Settled(mid[k], All \cup inner[k])
      BY <2>1, <3>2, <3>3
    <3> HIDE DEF More, All
    <3>5. QED
      BY <2>1, <2>5, <3>4
  <2>6. QED
    BY <2>4, <2>5
<1>6. P = 0 .. n
  <2>1. P \in SUBSET (0 .. n)
    OBVIOUS
  <2> HIDE DEF P
  <2>2. QED
    BY <1>1, <1>4, <1>5, <2>1, UpTo
<1>7. n \in P /\ n + 1 .. n = {}
  <2> HIDE DEF P
  <2>1. QED
    BY <1>1, <1>6
<1>8. ~More(n)
  BY <1>7
<1>9. QED
  BY <1>7, <1>8

-----------------------------------------------------------------------------
(* Dumps of classes                                                        *)

(* What is to hold of the dies of a class and of what is nested in one.    *)
Proper(dump, unit) ==
    /\ IsList(unit.children) /\ unit.die \in ToSet(dump) /\ unit.die.tag # "member"
    /\ \A d \in ToSet(Children(unit)) :
        /\ d \in ToSet(dump) /\ (d.tag = "inheritance" => d.name = None)
        /\ d.tag = "member" => unit.die.tag \in CompoundTags
    /\ unit.die.tag \in CompoundTags => Orderly(unit)
ClassesOf(units) == {u \in units : u.die.tag \in CompoundTags}

(* The first die of a unit, and what is known then.                        *)
LEMMA UnitOpens ==
    ASSUME NEW dump, Sortable(dump), NEW unit, Proper(dump, unit),
           NEW s \in TypeStates(dump), NEW units, Settled(s, units)
    PROVE  LET t == ReadTypeDie(s, unit.die) IN
           /\ t \in TypeStates(dump) /\ Filing(Flushed(s), units)
           /\ unit.die.tag \in CompoundTags => Opened(t, unit, 0, Flushed(s))
           /\ unit.die.tag \notin CompoundTags => Settled(t, units)
<1>1. unit.die \in ToSet(dump) /\ unit.die.tag # "member" /\ Quiet(s) /\ Filing(Flushed(s), units)
  BY DEF Proper, Settled
<1>2. ReadTypeDie(s, unit.die) \in TypeStates(dump)
  BY <1>1, DieKeeps
<1>3. unit.die.tag \in CompoundTags => Opened(ReadTypeDie(s, unit.die), unit, 0, Flushed(s))
  BY <1>1, ClassOpens
<1>4. Settled(ReadTypeDie(s, unit.die), units)
  BY <1>1, OthersSettle
<1>5. QED
  BY <1>1, <1>2, <1>3, <1>4

(* The children of a class have no name unless they are members or classes.*)
LEMMA ChildIsProper ==
    ASSUME NEW dump, NEW unit, Proper(dump, unit)
    PROVE  /\ Len(unit.children) \in Nat /\ DOMAIN unit.children = 1 .. Len(unit.children)
           /\ Children(unit) \in Seq(ToSet(dump)) /\ Len(Children(unit)) = Len(unit.children)
           /\ DOMAIN Children(unit) = 1 .. Len(unit.children)
           /\ \A i \in 1 .. Len(unit.children) :
                /\ Children(unit)[i] = unit.children[i].die
                /\ Children(unit)[i] \in ToSet(Children(unit)) /\ Children(unit)[i] \in ToSet(dump)
                /\ unit.children[i] \in ToSet(unit.children)
<1> DEFINE n == Len(unit.children)
           kids == Children(unit)
           D == ToSet(dump)
<1>1. n \in Nat /\ DOMAIN unit.children = 1 .. n
  BY DEF Proper, IsList
<1>2. kids = [i \in 1 .. n |-> unit.children[i].die]
  BY <1>1 DEF Children
<1>3. \A d \in ToSet(kids) : d \in D
  BY DEF Proper
<1> HIDE DEF kids, n, D
<1>4. DOMAIN kids = 1 .. n /\ \A i \in 1 .. n : kids[i] = unit.children[i].die
  BY <1>2
<1>5. \A i \in 1 .. n : kids[i] \in ToSet(kids) /\ kids[i] \in D
  BY <1>3, <1>4 DEF ToSet
<1>6. kids \in Seq(D) /\ Len(kids) = n
  BY <1>1, <1>2, <1>5
<1>7. \A i \in 1 .. n : unit.children[i] \in ToSet(unit.children)
  BY <1>1 DEF ToSet
<1>8. QED
  BY <1>1, <1>4, <1>5, <1>6, <1>7 DEF kids, n, D

(* What is nested in a class, with nothing in it that has children.        *)
LEMMA BlockSettles ==
    ASSUME NEW dump, Sortable(dump), NEW unit, Proper(dump, unit),
           NEW s \in TypeStates(dump), NEW units, Settled(s, units)
    PROVE  Settled(ReadFrom(s, <<unit.die>> \o Children(unit)), units \cup ClassesOf({unit}))
<1> DEFINE n == Len(unit.children)
           kids == Children(unit)
           t == ReadTypeDie(s, unit.die)
           S == TypeStates(dump)
<1>1. /\ n \in Nat /\ kids \in Seq(ToSet(dump)) /\ Len(kids) = n /\ DOMAIN kids = 1 .. n
      /\ \A i \in 1 .. n : kids[i] \in ToSet(kids) /\ kids[i] \in ToSet(dump)
  BY ChildIsProper
<1>2. unit.die \in ToSet(dump) /\ IsList(unit.children)
  BY DEF Proper
<1>3. /\ t \in S /\ Filing(Flushed(s), units)
      /\ unit.die.tag \in CompoundTags => Opened(t, unit, 0, Flushed(s))
      /\ unit.die.tag \notin CompoundTags => Settled(t, units)
  BY UnitOpens
<1>4. ReadFrom(s, <<unit.die>> \o kids) = ReadFrom(t, kids)
  <2> DEFINE first == <<unit.die>>
  <2>1. first \in Seq(ToSet(dump))
    BY <1>2
  <2>2. ReadFrom(s, first) = t
    BY <1>2, ReadsOne
  <2> HIDE DEF kids, first, t
  <2>3. ReadFrom(s, first \o kids) = ReadFrom(ReadFrom(s, first), kids)
    BY <1>1, <2>1, ReadsOn
  <2>4. QED
    BY <2>2, <2>3 DEF first
<1> HIDE DEF t, kids, n
<1>5. PICK r : /\ ReadRun(r, t, kids) /\ ReadFrom(t, kids) = r[Len(kids)]
               /\ \A i \in 0 .. Len(kids) : r[i] \in S
  BY <1>1, <1>3, ReadsARun
<1>6. r[0] = t /\ \A i \in 1 .. n : r[i] = ReadTypeDie(r[i - 1], kids[i])
  BY <1>1, <1>5 DEF ReadRun
<1>7. \A i \in 0 .. n : r[i] \in S
  BY <1>1, <1>5
<1>8. ASSUME NEW i \in 1 .. n, NEW all, kids[i].tag # "member", Settled(r[i - 1], all)
      PROVE  Settled(r[i], all)
  <2>1. i - 1 \in 0 .. n
    BY <1>1
  <2>2. QED
    BY <1>1, <1>6, <1>7, <1>8, <2>1, OthersSettle
<1>9. CASE unit.die.tag \in CompoundTags
  <2> DEFINE inner == [i \in 0 .. n |-> {}]
             all == units \cup {unit}
  <2>1. inner[0] = {} /\ inner[n] = {} /\ \A i \in 1 .. n : inner[i] = {} /\ inner[i - 1] = {}
    BY <1>1
  <2>2. Orderly(unit) /\ \A d \in ToSet(kids) :
           d \in ToSet(dump) /\ (d.tag = "inheritance" => d.name = None)
    BY <1>9 DEF Proper, kids
  <2>3. Opened(r[0], unit, 0, Flushed(s))
    BY <1>3, <1>6, <1>9
  <2> HIDE DEF inner
  <2>4. \A i \in 1 .. n : kids[i].tag \in {"member", "inheritance"} =>
           r[i] = ReadTypeDie(r[i - 1], kids[i]) /\ inner[i] = inner[i - 1]
    BY <1>6, <2>1
  <2>5. \A i \in 1 .. n : all \cup inner[i] = all /\ all \cup inner[i - 1] = all
    BY <2>1
  <2> HIDE DEF all
  <2>6. \A i \in 1 .. n : kids[i].tag # "member" /\ Settled(r[i - 1], all \cup inner[i - 1])
           => Settled(r[i], all \cup inner[i])
    BY <1>8, <2>5
  <2>7. Settled(r[n], all \cup inner[n])
    BY <1>2, <1>3, <1>7, <2>1, <2>2, <2>3, <2>4, <2>6, ChildrenSettle DEF all, kids, n
  <2>8. all \cup inner[n] = units \cup ClassesOf({unit})
    BY <1>9, <2>1 DEF ClassesOf, all
  <2>9. QED
    BY <1>1, <1>4, <1>5, <2>7, <2>8 DEF kids
<1>10. CASE unit.die.tag \notin CompoundTags
  <2> DEFINE Q == {v \in S : Settled(v, units)}
  <2>1. \A i \in 1 .. n : kids[i].tag # "member"
    BY <1>1, <1>10 DEF Proper, kids
  <2>2. r[0] \in Q
    BY <1>3, <1>6, <1>10
  <2>3. \A i \in 1 .. n : r[i - 1] \in Q => r[i] \in Q
    <3>1. \A i \in 1 .. n : i \in 0 .. n
      BY <1>1
    <3>2. QED
      BY <1>7, <1>8, <2>1, <3>1
  <2> HIDE DEF Q
  <2>4. \A i \in 0 .. n : r[i] \in Q
    BY <1>1, <2>2, <2>3, RunStays
  <2>5. r[n] \in Q
    BY <1>1, <2>4
  <2>6. Settled(r[n], units)
    BY <2>5 DEF Q
  <2>7. units \cup ClassesOf({unit}) = units
    BY <1>10 DEF ClassesOf
  <2>8. QED
    BY <1>1, <1>4, <1>5, <2>6, <2>7 DEF kids
<1>11. QED
  BY <1>9, <1>10

(* A class at the top, with the classes in it.                             *)
LEMMA UnitSettles ==
    ASSUME NEW dump, Sortable(dump), NEW unit, Proper(dump, unit),
           \A c \in ToSet(unit.children) :
              /\ IsList(c.children) /\ ToSet(Children(c)) \subseteq ToSet(dump)
              /\ c.die.tag # "member" => Proper(dump, c)
              /\ c.die.tag \in {"member", "inheritance"} => c.children = <<>>,
           NEW s \in TypeStates(dump), NEW units, Settled(s, units)
    PROVE  Settled(ReadFrom(s, Printed(unit)),
                   units \cup ClassesOf({unit} \cup ToSet(unit.children)))
<1> DEFINE n == Len(unit.children)
           kids == Children(unit)
           blocks == Blocks(unit)
           t == ReadTypeDie(s, unit.die)
           S == TypeStates(dump)
           D == ToSet(dump)
           first == <<unit.die>>
           all == units \cup ClassesOf({unit})
           inner == [i \in 0 .. n |-> ClassesOf({unit.children[j] : j \in 1 .. i})]
<1>1. /\ n \in Nat /\ kids \in Seq(D) /\ Len(kids) = n /\ DOMAIN kids = 1 .. n
      /\ DOMAIN unit.children = 1 .. n
      /\ \A i \in 1 .. n : /\ kids[i] \in ToSet(kids) /\ kids[i] \in D
                           /\ kids[i] = unit.children[i].die
                           /\ unit.children[i] \in ToSet(unit.children)
  BY ChildIsProper
<1>2. unit.die \in D /\ IsList(unit.children)
  BY DEF Proper
<1>3. /\ t \in S /\ Filing(Flushed(s), units)
      /\ unit.die.tag \in CompoundTags => Opened(t, unit, 0, Flushed(s))
      /\ unit.die.tag \notin CompoundTags => Settled(t, units)
  BY UnitOpens
<1>4. DiesOf(unit) \subseteq D
  <2>1. ASSUME NEW c \in ToSet(unit.children) PROVE c.die \in D
    <3>1. PICK i \in 1 .. n : c = unit.children[i]
      BY <1>1 DEF ToSet
    <3>2. QED
      BY <1>1, <3>1
  <2> HIDE DEF D
  <2>2. \A c \in ToSet(unit.children) : ToSet(Children(c)) \subseteq D
    BY DEF D
  <2>3. QED
    BY <1>2, <2>1, <2>2 DEF DiesOf
<1>5. /\ Printed(unit) = first \o FlattenSeq(blocks)
      /\ blocks \in Seq(Seq(D)) /\ Len(blocks) = n
  BY <1>2, <1>4, UnitPrints
<1>6. \A i \in 1 .. n : blocks[i] = <<unit.children[i].die>> \o Children(unit.children[i])
  BY <1>1 DEF Blocks
<1>7. inner[0] = {} /\ \A i \in 1 .. n : inner[i] = inner[i - 1] \cup ClassesOf({unit.children[i]})
  <2>1. ASSUME NEW i \in 1 .. n
        PROVE  /\ {unit.children[j] : j \in 1 .. i}
                     = {unit.children[j] : j \in 1 .. i - 1} \cup {unit.children[i]}
               /\ i \in 0 .. n /\ i - 1 \in 0 .. n
    <3>1. 1 .. i = (1 .. i - 1) \cup {i} /\ i \in 0 .. n /\ i - 1 \in 0 .. n
      BY <1>1
    <3>2. QED
      BY <3>1
  <2>2. inner[0] = {}
    BY <1>1 DEF ClassesOf
  <2>3. \A A, B : ClassesOf(A \cup B) = ClassesOf(A) \cup ClassesOf(B)
    BY DEF ClassesOf
  <2>4. QED
    BY <2>1, <2>2, <2>3
<1>8. inner[n] = ClassesOf(ToSet(unit.children))
  BY <1>1 DEF ToSet
<1>9. all \cup inner[n] = units \cup ClassesOf({unit} \cup ToSet(unit.children))
  BY <1>8 DEF ClassesOf
<1>10. first \in Seq(D) /\ ReadFrom(s, first) = t
  BY <1>2, ReadsOne
<1>11. FlattenSeq(blocks) \in Seq(D)
  BY <1>5, FlattenTyped
<1> HIDE DEF t, kids, n, blocks, first, all, inner, S, D
<1>12. ReadFrom(s, Printed(unit)) = ReadFrom(t, FlattenSeq(blocks))
  <2>1. ReadFrom(s, first \o FlattenSeq(blocks)) = ReadFrom(ReadFrom(s, first), FlattenSeq(blocks))
    BY <1>10, <1>11, ReadsOn DEF D, S
  <2>2. QED
    BY <1>5, <1>10, <2>1
<1>13. PICK mid : /\ mid[0] = t /\ mid[n] = ReadFrom(t, FlattenSeq(blocks))
                  /\ \A i \in 0 .. n : mid[i] \in S
                  /\ \A i \in 1 .. n : mid[i] = ReadFrom(mid[i - 1], blocks[i])
  BY <1>3, <1>5, ReadsParts DEF D, S
<1>14. ASSUME NEW i \in 1 .. n, kids[i].tag # "member", NEW some, Settled(mid[i - 1], some)
       PROVE  Settled(mid[i], some \cup ClassesOf({unit.children[i]}))
  <2>1. i - 1 \in 0 .. n
    BY <1>1
  <2>2. Proper(dump, unit.children[i])
    BY <1>1, <1>14
  <2>3. mid[i - 1] \in TypeStates(dump)
    BY <1>13, <2>1 DEF S
  <2>4. Settled(ReadFrom(mid[i - 1], blocks[i]), some \cup ClassesOf({unit.children[i]}))
    BY <1>6, <1>14, <2>2, <2>3, BlockSettles
  <2>5. QED
    BY <1>13, <2>4
<1>15. ASSUME NEW i \in 1 .. n, kids[i].tag \in {"member", "inheritance"}
       PROVE  mid[i] = ReadTypeDie(mid[i - 1], kids[i]) /\ inner[i] = inner[i - 1]
  <2>1. i - 1 \in 0 .. n /\ mid[i - 1] \in TypeStates(dump)
    BY <1>1, <1>13 DEF S
  <2>2. unit.children[i].children = <<>>
    BY <1>1, <1>15
  <2>3. Children(unit.children[i]) = <<>>
    BY <2>2 DEF Children
  <2>4. blocks[i] = <<kids[i]>>
    <3>1. \A x : <<x>> \o <<>> = <<x>>
      OBVIOUS
    <3>2. blocks[i] = <<kids[i]>> \o <<>>
      BY <1>1, <1>6, <2>3
    <3>3. QED
      BY <3>1, <3>2, Zenon
  <2>5. ReadFrom(mid[i - 1], <<kids[i]>>) = ReadTypeDie(mid[i - 1], kids[i])
    BY <1>1, <2>1, ReadsOne DEF D
  <2>6. ClassesOf({unit.children[i]}) = {}
    BY <1>1, <1>15 DEF ClassesOf, CompoundTags
  <2>7. QED
    BY <1>7, <1>13, <2>4, <2>5, <2>6
<1>16. CASE unit.die.tag \in CompoundTags
  <2>1. Orderly(unit) /\ \A d \in ToSet(kids) :
           d \in D /\ (d.tag = "inheritance" => d.name = None)
    BY <1>16 DEF Proper, kids, D
  <2>2. Opened(mid[0], unit, 0, Flushed(s)) /\ all = units \cup {unit}
    BY <1>3, <1>13, <1>16 DEF all, ClassesOf
  <2>3. \A i \in 1 .. n : kids[i].tag # "member" /\ Settled(mid[i - 1], all \cup inner[i - 1])
           => Settled(mid[i], all \cup inner[i])
    <3>1. ASSUME NEW i \in 1 .. n, kids[i].tag # "member", Settled(mid[i - 1], all \cup inner[i - 1])
          PROVE  Settled(mid[i], all \cup inner[i])
      <4>1. Settled(mid[i], (all \cup inner[i - 1]) \cup ClassesOf({unit.children[i]}))
        BY <1>14, <3>1
      <4>2. (all \cup inner[i - 1]) \cup ClassesOf({unit.children[i]}) = all \cup inner[i]
        BY <1>7
      <4>3. QED
        BY <4>1, <4>2
    <3>2. QED
      BY <3>1
  <2>4. Settled(mid[n], units \cup {unit} \cup inner[n])
    BY <1>2, <1>3, <1>7, <1>13, <1>15, <2>1, <2>2, <2>3, ChildrenSettle DEF kids, n, D, S
  <2>5. QED
    BY <1>9, <1>12, <1>13, <2>2, <2>4
<1>17. CASE unit.die.tag \notin CompoundTags
  <2> DEFINE P == {i \in 0 .. n : Settled(mid[i], all \cup inner[i])}
  <2>1. \A i \in 1 .. n : kids[i].tag # "member"
    BY <1>1, <1>17 DEF Proper, kids
  <2>2. 0 \in P
    <3>1. all = units /\ Settled(mid[0], units) /\ 0 \in 0 .. n /\ all \cup inner[0] = all
      BY <1>1, <1>3, <1>7, <1>13, <1>17 DEF all, ClassesOf
    <3>2. QED
      BY <3>1
  <2>3. ASSUME NEW i \in 0 .. n - 1, i \in P PROVE i + 1 \in P
    <3> DEFINE k == i + 1
    <3>1. k \in 1 .. n /\ k \in 0 .. n /\ k - 1 = i
      BY <1>1, <2>3
    <3>2. Settled(mid[i], all \cup inner[i])
      BY <2>3
    <3> HIDE DEF k, P
    <3>3. Settled(mid[k], (all \cup inner[i]) \cup ClassesOf({unit.children[k]}))
      BY <1>14, <2>1, <3>1, <3>2
    <3>4. (all \cup inner[i]) \cup ClassesOf({unit.children[k]}) = all \cup inner[k]
      BY <1>7, <3>1
    <3>5. Settled(mid[k], all \cup inner[k])
      BY <3>3, <3>4
    <3>6. QED
      BY <3>1, <3>5 DEF k, P
  <2>4. P = 0 .. n
    <3>1. P \in SUBSET (0 .. n)
      OBVIOUS
    <3> HIDE DEF P
    <3>2. QED
      BY <1>1, <2>2, <2>3, <3>1, UpTo
  <2>5. n \in P
    <3> HIDE DEF P
    <3>1. QED
      BY <1>1, <2>4
  <2>6. QED
    BY <1>9, <1>12, <1>13, <2>5
<1>18. QED
  BY <1>16, <1>17

(* The units of an input are as MembersAreOfClasses has them.              *)
LEMMA InputIsProper ==
    ASSUME NEW in \in Inputs, \A u \in UnitsIn(in.units) : Orderly(u),
           NEW unit \in ToSet(in.units)
    PROVE  /\ Proper(DumpOf(in.units), unit)
           /\ \A c \in ToSet(unit.children) :
              /\ IsList(c.children) /\ ToSet(Children(c)) \subseteq ToSet(DumpOf(in.units))
              /\ c.die.tag # "member" => Proper(DumpOf(in.units), c)
              /\ c.die.tag \in {"member", "inheritance"} => c.children = <<>>
<1> DEFINE units == in.units
           dump == DumpOf(units)
           D == ToSet(dump)
<1>1. /\ IsList(units) /\ \A u \in ToSet(units) : IsList(u.children)
      /\ \A u \in ToSet(units) : \A c \in ToSet(u.children) : IsList(c.children)
  BY InputsAreRead
<1>2. /\ unit.die.tag # "member" /\ Nested(unit)
      /\ \A c \in ToSet(unit.children) :
            /\ Nested(c)
            /\ c.die.tag \in {"member", "inheritance"} => c.children = <<>>
            /\ \A d \in ToSet(Children(c)) \cup {c.die} : d.tag = "inheritance" => d.name = None
  BY MembersAreOfClasses
<1>3. D = UNION {DiesOf(u) : u \in ToSet(units)}
  BY <1>1, DumpPrints
<1>4. DiesOf(unit) \subseteq D
  BY <1>3
<1> HIDE DEF D, dump
<1>5. /\ unit.die \in D
      /\ \A c \in ToSet(unit.children) : c.die \in D /\ ToSet(Children(c)) \subseteq D
  BY <1>4 DEF DiesOf
<1>6. \A d \in ToSet(Children(unit)) : \E c \in ToSet(unit.children) : d = c.die
  BY DEF ToSet, Children
<1>7. IsList(unit.children) /\ \A c \in ToSet(unit.children) : IsList(c.children)
  BY <1>1
<1>8. unit.die.tag \in CompoundTags => Orderly(unit)
  BY DEF UnitsIn
<1>9. \A c \in ToSet(unit.children) : c.die.tag \in CompoundTags => Orderly(c)
  BY DEF UnitsIn
<1>10. Proper(dump, unit)
  <2>1. \A d \in ToSet(Children(unit)) :
          /\ d \in D /\ (d.tag = "inheritance" => d.name = None)
          /\ d.tag = "member" => unit.die.tag \in CompoundTags
    BY <1>2, <1>5, <1>6 DEF Nested
  <2>2. QED
    BY <1>2, <1>5, <1>7, <1>8, <2>1 DEF Proper, D
<1>11. ASSUME NEW c \in ToSet(unit.children), c.die.tag # "member"
       PROVE  Proper(dump, c)
  <2>1. \A d \in ToSet(Children(c)) :
          /\ d \in D /\ (d.tag = "inheritance" => d.name = None)
          /\ d.tag = "member" => c.die.tag \in CompoundTags
    BY <1>2, <1>5 DEF Nested
  <2>2. QED
    BY <1>5, <1>7, <1>9, <1>11, <2>1 DEF Proper, D
<1>12. QED
  BY <1>2, <1>5, <1>7, <1>10, <1>11 DEF D, dump

(* The layouts of a whole dump are those of its classes.                   *)
LEMMA DumpSettles ==
    ASSUME NEW in \in Inputs, \A u \in UnitsIn(in.units) : Orderly(u)
    PROVE  Filing(DwarfLayouts(DumpOf(in.units)), UnitsIn(in.units))
<1> DEFINE units == in.units
           n == Len(units)
           dump == DumpOf(units)
           S == TypeStates(dump)
           prints == [i \in DOMAIN units |-> Printed(units[i])]
           Own(i) == {units[i]} \cup ToSet(units[i].children)
           seen == [i \in 0 .. n |-> ClassesOf(UNION {Own(j) : j \in 1 .. i})]
<1>1. /\ IsList(units) /\ \A u \in ToSet(units) : IsList(u.children)
      /\ \A u \in ToSet(units) : \A c \in ToSet(u.children) : IsList(c.children)
  BY InputsAreRead
<1>2. n \in Nat /\ DOMAIN units = 1 .. n /\ \A i \in 1 .. n : units[i] \in ToSet(units)
  BY <1>1 DEF IsList, ToSet
<1>3. Sortable(dump)
  BY NamesAreSymbols DEF Sortable
<1>4. prints \in Seq(Seq(ToSet(dump))) /\ Len(prints) = n
  <2> DEFINE D == UNION {DiesOf(u) : u \in ToSet(units)}
  <2>1. prints \in Seq(Seq(D)) /\ Len(prints) = n /\ ToSet(dump) = D
    BY <1>1, DumpPrints
  <2>2. QED
    BY <2>1
<1>5. dump = FlattenSeq(prints) /\ \A i \in 1 .. n : prints[i] = Printed(units[i])
  BY <1>2 DEF DumpOf
<1>6. seen[0] = {} /\ \A i \in 1 .. n : seen[i] = seen[i - 1] \cup ClassesOf(Own(i))
  <2> HIDE DEF Own
  <2>1. ASSUME NEW i \in 1 .. n
        PROVE  /\ UNION {Own(j) : j \in 1 .. i} = (UNION {Own(j) : j \in 1 .. i - 1}) \cup Own(i)
               /\ i \in 0 .. n /\ i - 1 \in 0 .. n
    <3>1. 1 .. i = (1 .. i - 1) \cup {i} /\ i \in 0 .. n /\ i - 1 \in 0 .. n
      BY <1>2
    <3>2. QED
      BY <3>1
  <2>2. seen[0] = {}
    BY <1>2 DEF ClassesOf
  <2>3. \A A, B : ClassesOf(A \cup B) = ClassesOf(A) \cup ClassesOf(B)
    BY DEF ClassesOf
  <2>4. ASSUME NEW i \in 1 .. n PROVE seen[i] = seen[i - 1] \cup ClassesOf(Own(i))
    <3>1. /\ seen[i] = ClassesOf(UNION {Own(j) : j \in 1 .. i})
          /\ seen[i - 1] = ClassesOf(UNION {Own(j) : j \in 1 .. i - 1})
      BY <2>1
    <3> HIDE DEF seen
    <3>2. QED
      BY <2>1, <2>3, <3>1
  <2>5. QED
    BY <2>2, <2>4
<1>7. seen[n] = UnitsIn(units)
  <2>1. UNION {Own(j) : j \in 1 .. n} = ToSet(units) \cup UNION {ToSet(t.children) : t \in ToSet(units)}
    BY <1>2 DEF ToSet
  <2>2. n \in 0 .. n
    BY <1>2
  <2> HIDE DEF Own, n
  <2>3. QED
    BY <2>1, <2>2 DEF ClassesOf, UnitsIn
<1>8. NoType \in S
  BY NoTypeIsState
<1>9. Settled(NoType, {})
  <2>1. NoType.fields = <<>> /\ NoType.member = NoMember /\ NoType.layouts = <<>> /\ ~NoType.header
    BY DEF NoType
  <2>2. Gathered(NoType) = <<>>
    BY <1>8, <2>1, NothingGathered
  <2>3. Flushed(NoType) = <<>>
    BY <1>8, <2>1, <2>2, FlushedIs DEF Filed
  <2>4. QED
    BY <2>1, <2>3 DEF Settled, Quiet, Filing
<1>10. DwarfLayouts(dump) = Flushed(ReadFrom(NoType, dump))
  BY DEF DwarfLayouts, Flushed, ReadFrom
<1> HIDE DEF n, dump, S, prints, Own, seen
<1>11. PICK mid : /\ mid[0] = NoType /\ mid[n] = ReadFrom(NoType, FlattenSeq(prints))
                  /\ \A i \in 0 .. n : mid[i] \in S
                  /\ \A i \in 1 .. n : mid[i] = ReadFrom(mid[i - 1], prints[i])
  BY <1>3, <1>4, <1>8, ReadsParts DEF S
<1> DEFINE P == {i \in 0 .. n : Settled(mid[i], seen[i])}
<1>12. 0 \in P
  <2>1. 0 \in 0 .. n
    BY <1>2
  <2>2. mid[0] = NoType /\ seen[0] = {}
    BY <1>6, <1>11
  <2>3. Settled(mid[0], seen[0])
    BY <1>9, <2>2
  <2>4. QED
    BY <2>1, <2>3
<1>13. ASSUME NEW i \in 0 .. n - 1, i \in P PROVE i + 1 \in P
  <2> DEFINE k == i + 1
             unit == units[k]
  <2>1. k \in 1 .. n /\ k \in 0 .. n /\ k - 1 = i /\ i \in 0 .. n
    BY <1>2, <1>13
  <2>2. Settled(mid[i], seen[i]) /\ mid[i] \in TypeStates(dump)
    BY <1>11, <1>13, <2>1 DEF S
  <2>3. unit \in ToSet(units)
    BY <1>2, <2>1
  <2> HIDE DEF P, k, unit
  <2>4. Settled(ReadFrom(mid[i], Printed(unit)), seen[i] \cup ClassesOf({unit} \cup ToSet(unit.children)))
    BY <1>3, <2>2, <2>3, InputIsProper, UnitSettles DEF dump
  <2>5. mid[k] = ReadFrom(mid[i], Printed(unit))
    BY <1>5, <1>11, <2>1 DEF unit
  <2>6. seen[k] = seen[i] \cup ClassesOf({unit} \cup ToSet(unit.children))
    BY <1>6, <2>1 DEF Own, unit
  <2>7. Settled(mid[k], seen[k])
    BY <2>4, <2>5, <2>6
  <2>8. QED
    BY <2>1, <2>7 DEF P, k
<1>14. P = 0 .. n
  <2>1. P \in SUBSET (0 .. n)
    OBVIOUS
  <2> HIDE DEF P
  <2>2. QED
    BY <1>2, <1>12, <1>13, <2>1, UpTo
<1>15. n \in P
  <2> HIDE DEF P
  <2>1. QED
    BY <1>2, <1>14
<1>16. Settled(ReadFrom(NoType, dump), UnitsIn(units))
  BY <1>5, <1>7, <1>11, <1>15
<1>17. QED
  BY <1>10, <1>16 DEF Settled, dump

(* What the extractor keeps is what was read of the whole dump.            *)
LEMMA DwarfAgrees ==
    ASSUME FlowInv
    PROVE  DwarfFieldsRight
<1> SUFFICES ASSUME pc = "apply", input.format = "dwarf", whole, \A u \in Units : Orderly(u)
             PROVE  DwarfFieldsRight
  BY DEF DwarfFieldsRight
<1>1. input \in Inputs /\ LayoutsRead
  BY DEF FlowInv, Reading
<1>2. struct_layouts = DwarfLayouts(DumpOf(input.units))
  <2>1. input.format # "pdb"
    OBVIOUS
  <2>2. QED
    BY <1>1, <2>1 DEF LayoutsRead, Dump
<1>3. Filing(struct_layouts, Units)
  BY <1>1, <1>2, DumpSettles DEF Units
<1>4. \A n : LayoutFields(n) = PlacesIn(struct_layouts[n].fields)
  BY DEF LayoutFields, PlacesIn
<1>5. \A n : DefinitionsOf(n) = {u \in Units : u.die.name = n}
  BY DEF DefinitionsOf
<1>6. QED
  BY <1>3, <1>4, <1>5 DEF Filing, DwarfFieldsRight

(* For any dump in which the members of each class come first: a class is  *)
(* laid out with its own members at their offsets (dwarf.py:131), those of *)
(* a definition with the most of them, and none with a member is missed.   *)
THEOREM DwarfFieldsAreRight == Spec => []DwarfFieldsRight
<1>1. FlowInv => DwarfFieldsRight
  BY DwarfAgrees
<1>2. QED
  BY <1>1, FlowInvHolds, PTL

=============================================================================
