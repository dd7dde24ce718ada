-------------------------------- MODULE Chain --------------------------------
(***************************************************************************)
(* The ordered list of hooks of one symbol: src/runtime/chain.cpp.         *)
(*                                                                         *)
(* Chain::sort and Chain::remove_augment both rearrange a vector, so both  *)
(* are the enumeration of a set of its indices under a strict order.       *)
(***************************************************************************)
EXTENDS Contract, Listings

(* The comparison the other way round. *)
LowestFirst(s) ==
    {ij \in (DOMAIN s) \X (DOMAIN s) :
        \/ s[ij[1]].priority < s[ij[2]].priority
        \/ s[ij[1]].priority = s[ij[2]].priority /\ ij[1] < ij[2]}

(* std::stable_sort by descending priority: ties keep their position. *)
Precedence(s) ==
    {ij \in (DOMAIN s) \X (DOMAIN s) :
        \/ s[ij[1]].priority > s[ij[2]].priority
        \/ s[ij[1]].priority = s[ij[2]].priority /\ ij[1] < ij[2]}

(* A sort that lets the newest entry of a priority run first. *)
NewestFirstSort(s) ==
    Listing(s, DOMAIN s,
            {ij \in (DOMAIN s) \X (DOMAIN s) :
                \/ s[ij[1]].priority > s[ij[2]].priority
                \/ s[ij[1]].priority = s[ij[2]].priority /\ ij[1] > ij[2]})

StableSort(s) == Listing(s, DOMAIN s, Precedence(s))

(* A removal that stops at the first entry of the augment. *)
RemoveOneOf(s, id) ==
    Selection(s, {i \in DOMAIN s : s[i].id # id \/ \E j \in 1 .. i - 1 : s[j].id = id})

(* Chain::remove_augment *)
RemoveAugment(s, id) ==
    Selection(s, {i \in DOMAIN s : s[i].id # id})

(* The indices from position k on whose entry belongs to a phase: what is  *)
(* left of the loops of run_before and run_after.                          *)
Remaining(s, phase, k) == {i \in DOMAIN s : i >= k /\ s[i].phase = phase}

(* The entries are in the order in which they run. *)
InRunOrder(s) ==
    \A i, j \in DOMAIN s : i < j => s[i].priority >= s[j].priority

=============================================================================
