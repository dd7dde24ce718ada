------------------------------ MODULE Contract ------------------------------
(***************************************************************************)
(* The conflict rules of src/runtime/conflict.cpp: what conflict_check     *)
(* answers when a hook entry is offered to the chain of a symbol.          *)
(*                                                                         *)
(* An entry is a record [phase, priority, id, reads, writes].  The arrays  *)
(* of domain names in AugmentContract are sets of domains: the code only   *)
(* asks whether two of them share a name.  "affects" is never consulted.   *)
(***************************************************************************)
EXTENDS Integers, Sequences

Phases == {"before", "after", "replace"}

(* domains_intersect *)
Intersects(a, b) == a \cap b # {}

(* A slip in the comparison of priorities: only a newcomer that would run  *)
(* later is refused.                                                       *)
OneSidedHardPair(incoming, e) ==
    \/ incoming.phase = "replace" /\ e.phase = "replace"
    \/ /\ Intersects(incoming.writes, e.writes)
       /\ incoming.priority < e.priority

(* Class 3: two REPLACE hooks, or one domain written twice at one priority. *)
HardPair(incoming, e) ==
    \/ incoming.phase = "replace" /\ e.phase = "replace"
    \/ /\ Intersects(incoming.writes, e.writes)
       /\ incoming.priority = e.priority

(* Class 2: one domain written twice at two priorities, or read by one and *)
(* written by the other at the same priority.                              *)
OrderPair(incoming, e) ==
    \/ /\ Intersects(incoming.writes, e.writes)
       /\ incoming.priority # e.priority
    \/ /\ \/ Intersects(incoming.reads, e.writes)
          \/ Intersects(incoming.writes, e.reads)
       /\ incoming.priority = e.priority

(* The worst class over the chain; the loop returns early on class 3.      *)
ConflictCheck(chain, incoming) ==
    IF \E i \in DOMAIN chain : HardPair(incoming, chain[i]) THEN "hard"
    ELSE IF \E i \in DOMAIN chain : OrderPair(incoming, chain[i]) THEN "order"
    ELSE "none"

=============================================================================
