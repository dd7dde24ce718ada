----------------------------- MODULE MCRegistry -----------------------------
(* Instances of RegistryProperties for TLC. *)
EXTENDS RegistryProperties, TLC

CONSTANTS A, B, hp, s1, s2, t1, t2, a1, a2, p1, p2

Entry(phase, priority, id, writes) ==
    [phase |-> phase, priority |-> priority, id |-> id,
     reads |-> {}, writes |-> writes]

(* The first and the third cannot live together; two owners. *)
MCCatalog ==
    { Entry("before",  0, A, {hp}),
      Entry("replace", 1, B, {}),
      Entry("after",   0, B, {hp}) }

(* Hooks of one phase at two priorities, and of two phases at one. *)
MCOrderCatalog ==
    { Entry("before",  0, A, {hp}),
      Entry("before",  1, B, {}),
      Entry("after",   0, B, {hp}) }

(* Enough for a call to fire something before and after. *)
MCShortCatalog ==
    { Entry("before",  0, A, {hp}), Entry("after",   0, B, {}) }

(* s1 is exported; s2 is only in the manifest. *)
MCExported == (s1 :> t1) @@ (s2 :> None)
MCExportedOne == [s \in {s1} |-> t1]
MCLocated == (s1 :> None) @@ (s2 :> t2)
MCSharedTarget == (s1 :> t1) @@ (s2 :> t1)

(* Admins run the same code, and no safety property names one of them. *)
AdminSymmetry == Permutations(Admins)

=============================================================================
