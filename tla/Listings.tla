------------------------------ MODULE Listings -------------------------------
(***************************************************************************)
(* The sequences that go through a set of indices of a sequence: what a    *)
(* stable sort, a removal, a filter or a loop over "not seen yet" makes of *)
(* a list.                                                                 *)
(***************************************************************************)
EXTENDS Integers, Sequences, FiniteSets

(* A list has places 1, 2, ... up to its length. *)
IsList(s) == s \in Seq({s[i] : i \in DOMAIN s})

(* The members of K that come before i in the order R. *)
Earlier(K, R, i) == {j \in K : <<j, i>> \in R}

(* The k-th member of K in the order R. *)
Nth(K, R, k) == CHOOSE i \in K : Cardinality(Earlier(K, R, i)) = k - 1

(* The entries of s whose index is in K, in the order R. *)
Listing(s, K, R) == [k \in 1 .. Cardinality(K) |-> s[Nth(K, R, k)]]

(* The order of the sequence itself. *)
Position(s) == {ij \in (DOMAIN s) \X (DOMAIN s) : ij[1] < ij[2]}

(* The entries of s whose index is in K, as they stand. *)
Selection(s, K) == Listing(s, K, Position(s))

(* The indices at which a value appears for the first time. *)
Firsts(s) == {i \in DOMAIN s : \A j \in DOMAIN s : j < i => s[j] # s[i]}

(* The least member of a set of indices. *)
First(K) == CHOOSE i \in K : \A j \in K : i <= j

=============================================================================
