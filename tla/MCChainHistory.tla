--------------------------- MODULE MCChainHistory ---------------------------
(* A catalogue in which every rule of conflict_check has a pair to decide. *)
EXTENDS ChainHistory

CONSTANTS A, B, hp, mana

Entry(phase, priority, id, reads, writes) ==
    [phase |-> phase, priority |-> priority, id |-> id,
     reads |-> reads, writes |-> writes]

MCCatalog ==
    { Entry("before",  0, A, {},     {hp}),
      Entry("before",  1, B, {},     {hp, mana}),
      Entry("before",  0, B, {mana}, {}),
      Entry("replace", 0, A, {hp},   {}),
      Entry("replace", 1, B, {},     {}),
      Entry("after",   1, A, {hp},   {mana}) }

=============================================================================
