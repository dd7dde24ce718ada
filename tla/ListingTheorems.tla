--------------------------- MODULE ListingTheorems ---------------------------
(***************************************************************************)
(* What a listing of indices is, for every sequence and every strict total *)
(* order.  The heart of the matter is that the number of predecessors in   *)
(* such an order numbers the members 1, 2, ... without gaps (Ranks), so    *)
(* that Nth is defined.                                                    *)
(***************************************************************************)
EXTENDS Listings, SequencesExt, FiniteSetTheorems, SequenceTheorems, TLAPS

StrictTotalOrder(R, K) ==
    /\ \A i \in K : <<i, i>> \notin R
    /\ \A i, j, k \in K : <<i, j>> \in R /\ <<j, k>> \in R => <<i, k>> \in R
    /\ \A i, j \in K : i = j \/ <<i, j>> \in R \/ <<j, i>> \in R

(* The domain of a sequence is finite, and so is every set of its indices. *)
LEMMA IndicesAreFinite ==
    ASSUME NEW S, NEW s \in Seq(S), NEW K \in SUBSET DOMAIN s
    PROVE  IsFiniteSet(K) /\ Cardinality(K) \in Nat
<1>1. DOMAIN s = 1 .. Len(s) /\ Len(s) \in Nat
  OBVIOUS
<1>2. IsFiniteSet(DOMAIN s)
  BY <1>1, FS_Interval
<1>3. IsFiniteSet(K)
  BY <1>2, FS_Subset
<1>4. QED
  BY <1>3, FS_CardinalityType

(* Predecessors are few, and an earlier member has fewer of them. *)
LEMMA EarlierGrows ==
    ASSUME NEW K, IsFiniteSet(K), NEW R, StrictTotalOrder(R, K), NEW j \in K
    PROVE  /\ Cardinality(Earlier(K, R, j)) \in 0 .. Cardinality(K) - 1
           /\ \A i \in K : <<i, j>> \in R =>
                 Cardinality(Earlier(K, R, i)) < Cardinality(Earlier(K, R, j))
<1>1. \A i \in K : /\ IsFiniteSet(Earlier(K, R, i))
                   /\ Cardinality(Earlier(K, R, i)) \in Nat
  BY FS_Subset, FS_CardinalityType DEF Earlier
<1>2. Cardinality(K) \in Nat
  BY FS_CardinalityType
<1>3. Earlier(K, R, j) \in SUBSET (K \ {j})
  BY DEF Earlier, StrictTotalOrder
<1>4. IsFiniteSet(K \ {j}) /\ Cardinality(K \ {j}) = Cardinality(K) - 1
  BY FS_RemoveElement
<1>5. Cardinality(Earlier(K, R, j)) <= Cardinality(K) - 1
  BY <1>3, <1>4, FS_Subset
<1>6. ASSUME NEW i \in K, <<i, j>> \in R
      PROVE  Cardinality(Earlier(K, R, i)) < Cardinality(Earlier(K, R, j))
  <2>1. i \notin Earlier(K, R, i)
    BY DEF Earlier, StrictTotalOrder
  <2>2. Earlier(K, R, i) \cup {i} \in SUBSET Earlier(K, R, j)
    BY <1>6 DEF Earlier, StrictTotalOrder
  <2>3. Cardinality(Earlier(K, R, i) \cup {i}) = Cardinality(Earlier(K, R, i)) + 1
    BY <1>1, <2>1, FS_AddElement
  <2>4. Cardinality(Earlier(K, R, i) \cup {i}) <= Cardinality(Earlier(K, R, j))
    BY <1>1, <2>2, FS_Subset
  <2>5. QED
    BY <1>1, <2>3, <2>4
<1>7. QED
  BY <1>1, <1>2, <1>5, <1>6

(* Every number from 1 to the size of K is the rank of a member of K. *)
LEMMA Ranks ==
    ASSUME NEW K, IsFiniteSet(K), NEW R, StrictTotalOrder(R, K),
           NEW k \in 1 .. Cardinality(K)
    PROVE  Nth(K, R, k) \in K /\ Cardinality(Earlier(K, R, Nth(K, R, k))) = k - 1
<1> DEFINE T == 0 .. Cardinality(K) - 1
           rank == [i \in K |-> Cardinality(Earlier(K, R, i))]
<1>1. Cardinality(K) \in Nat
  BY FS_CardinalityType
<1>2. IsFiniteSet(T) /\ Cardinality(T) = Cardinality(K)
  <2>1. 0 \in Int /\ Cardinality(K) - 1 \in Int
    BY <1>1
  <2>2. IsFiniteSet(T)
    BY <2>1, FS_Interval
  <2>3. Cardinality(T) = IF 0 > Cardinality(K) - 1 THEN 0
                         ELSE (Cardinality(K) - 1) - 0 + 1
    BY <2>1, FS_Interval
  <2>4. QED
    BY <1>1, <2>2, <2>3
<1>3. rank \in [K -> T]
  BY EarlierGrows
<1>4. \A i, j \in K : i # j => rank[i] # rank[j]
  <2> SUFFICES ASSUME NEW i \in K, NEW j \in K, i # j
               PROVE  rank[i] # rank[j]
    OBVIOUS
  <2>1. rank[i] \in Int /\ rank[j] \in Int
    BY <1>1, <1>3
  <2>2. CASE <<i, j>> \in R
    BY <2>1, <2>2, EarlierGrows
  <2>3. CASE <<j, i>> \in R
    BY <2>1, <2>3, EarlierGrows
  <2>4. QED
    BY <2>2, <2>3 DEF StrictTotalOrder
<1>5. rank \in Injection(K, T)
  BY <1>3, <1>4 DEF Injection, IsInjective
<1>6. rank \in Surjection(K, T)
  BY <1>2, <1>5, FS_Injection
<1>7. k - 1 \in T
  BY <1>1
<1>8. \E i \in K : rank[i] = k - 1
  BY <1>6, <1>7 DEF Surjection
<1>9. \E i \in K : Cardinality(Earlier(K, R, i)) = k - 1
  BY <1>8
<1>10. QED
  BY <1>9 DEF Nth

(* A listing takes distinct members of K, in the order R. *)
LEMMA NthFollowsOrder ==
    ASSUME NEW K, IsFiniteSet(K), NEW R, StrictTotalOrder(R, K),
           NEW k \in 1 .. Cardinality(K), NEW l \in 1 .. Cardinality(K), k < l
    PROVE  /\ Nth(K, R, k) # Nth(K, R, l)
           /\ <<Nth(K, R, k), Nth(K, R, l)>> \in R
<1>1. /\ Nth(K, R, k) \in K /\ Nth(K, R, l) \in K
      /\ Cardinality(Earlier(K, R, Nth(K, R, k))) = k - 1
      /\ Cardinality(Earlier(K, R, Nth(K, R, l))) = l - 1
  BY Ranks
<1>2. Cardinality(K) \in Nat
  BY FS_CardinalityType
<1>3. k \in Int /\ l \in Int /\ k - 1 < l - 1
  BY <1>2
<1>4. Nth(K, R, k) # Nth(K, R, l)
  BY <1>1, <1>3
<1>5. <<Nth(K, R, l), Nth(K, R, k)>> \notin R
  <2> SUFFICES ASSUME <<Nth(K, R, l), Nth(K, R, k)>> \in R PROVE FALSE
    OBVIOUS
  <2>1. Cardinality(Earlier(K, R, Nth(K, R, l)))
           < Cardinality(Earlier(K, R, Nth(K, R, k)))
    BY <1>1, EarlierGrows
  <2>2. QED
    BY <2>1, <1>1, <1>3
<1>6. QED
  BY <1>1, <1>4, <1>5 DEF StrictTotalOrder

(* A listing leaves no member of K out.                                    *)
LEMMA NthIsOnto ==
    ASSUME NEW K, IsFiniteSet(K), NEW R, StrictTotalOrder(R, K), NEW i \in K
    PROVE  \E k \in 1 .. Cardinality(K) : Nth(K, R, k) = i
<1> DEFINE rank == Cardinality(Earlier(K, R, i))
           k == rank + 1
<1>1. rank \in 0 .. Cardinality(K) - 1 /\ Cardinality(K) \in Nat
  BY EarlierGrows, FS_CardinalityType
<1> HIDE DEF rank
<1>2. k \in 1 .. Cardinality(K) /\ k - 1 = rank
  BY <1>1
<1> HIDE DEF k
<1>3. Nth(K, R, k) \in K /\ Cardinality(Earlier(K, R, Nth(K, R, k))) = rank
  BY <1>2, Ranks
<1>4. Nth(K, R, k) = i \/ <<Nth(K, R, k), i>> \in R \/ <<i, Nth(K, R, k)>> \in R
  BY <1>3 DEF StrictTotalOrder
<1>5. ~(rank < rank)
  BY <1>1
<1>6. Nth(K, R, k) = i
  BY <1>3, <1>4, <1>5, EarlierGrows DEF rank
<1>7. QED
  BY <1>2, <1>6

(* A listing is a sequence of entries of s, each from an index in K.       *)
LEMMA ListingSelects ==
    ASSUME NEW S, NEW s \in Seq(S), NEW K \in SUBSET DOMAIN s,
           NEW R, StrictTotalOrder(R, K)
    PROVE  /\ Listing(s, K, R) \in Seq(S)
           /\ DOMAIN Listing(s, K, R) = 1 .. Cardinality(K)
           /\ \A k \in 1 .. Cardinality(K) :
                 Nth(K, R, k) \in K /\ Listing(s, K, R)[k] = s[Nth(K, R, k)]
<1>1. IsFiniteSet(K) /\ Cardinality(K) \in Nat
  BY IndicesAreFinite
<1>2. \A k \in 1 .. Cardinality(K) : Nth(K, R, k) \in K
  BY <1>1, Ranks
<1>3. \A k \in 1 .. Cardinality(K) : s[Nth(K, R, k)] \in S
  BY <1>2
<1>4. QED
  BY <1>1, <1>2, <1>3 DEF Listing

(* First picks the least index.                                            *)
LEMMA FirstIsLeast ==
    ASSUME NEW S, NEW s \in Seq(S), NEW K \in SUBSET DOMAIN s, K # {}
    PROVE  First(K) \in K /\ \A j \in K : First(K) <= j
<1> DEFINE R == {ij \in K \X K : ij[1] < ij[2]}
<1>1. \A i \in K : i \in Int
  OBVIOUS
<1>2. StrictTotalOrder(R, K)
  BY <1>1 DEF StrictTotalOrder
<1>3. IsFiniteSet(K) /\ Cardinality(K) \in Nat
  BY IndicesAreFinite
<1>4. Cardinality(K) # 0
  BY <1>3, FS_EmptySet
<1>5. 1 \in 1 .. Cardinality(K)
  BY <1>3, <1>4
<1>6. Nth(K, R, 1) \in K /\ Cardinality(Earlier(K, R, Nth(K, R, 1))) = 1 - 1
  BY <1>2, <1>3, <1>5, Ranks
<1>7. Earlier(K, R, Nth(K, R, 1)) \in SUBSET K
  BY DEF Earlier
<1>8. Earlier(K, R, Nth(K, R, 1)) = {}
  <2>1. IsFiniteSet(Earlier(K, R, Nth(K, R, 1)))
    BY <1>3, <1>7, FS_Subset
  <2>2. Cardinality(Earlier(K, R, Nth(K, R, 1))) = 0
    BY <1>6
  <2>3. QED
    BY <2>1, <2>2, FS_EmptySet, Zenon
<1>9. \A j \in K : Nth(K, R, 1) <= j
  <2>1. \A j \in K : <<j, Nth(K, R, 1)>> \notin R
    BY <1>8 DEF Earlier
  <2>2. \A j \in K : ~(j < Nth(K, R, 1))
    BY <1>6, <2>1
  <2> HIDE DEF R
  <2>3. QED
    BY <1>1, <1>6, <2>2
<1>10. QED
  BY <1>6, <1>9 DEF First

(* There is one way to go through K along R.                               *)
LEMMA IncreasingIsNth ==
    ASSUME NEW K, IsFiniteSet(K), NEW R, StrictTotalOrder(R, K),
           NEW f \in [1 .. Cardinality(K) -> K],
           \A k, l \in 1 .. Cardinality(K) : k < l => <<f[k], f[l]>> \in R,
           NEW k \in 1 .. Cardinality(K)
    PROVE  Nth(K, R, k) = f[k]
<1> DEFINE n == Cardinality(K)
           I == 1 .. n
           before == 1 .. k - 1
           g == [j \in before |-> f[j]]
<1>1. n \in Nat /\ k \in Nat /\ k - 1 \in Nat /\ before \in SUBSET I
  BY FS_CardinalityType
<1>2. \A i, j \in I : i # j => f[i] # f[j]
  <2> SUFFICES ASSUME NEW i \in I, NEW j \in I, i < j PROVE f[i] # f[j]
    BY <1>1
  <2>1. QED
    BY DEF StrictTotalOrder
<1>3. f \in Surjection(I, K)
  <2>1. f \in Injection(I, K)
    BY <1>2 DEF Injection, IsInjective
  <2>2. IsFiniteSet(I) /\ Cardinality(I) = n
    <3>1. Cardinality(I) = IF 1 > n THEN 0 ELSE n - 1 + 1
      BY <1>1, FS_Interval
    <3>2. IsFiniteSet(I)
      BY <1>1, FS_Interval
    <3>3. QED
      BY <1>1, <3>1, <3>2
  <2>3. QED
    BY <2>1, <2>2, FS_Injection
<1> HIDE DEF I, n, before
<1>4. \A i \in K : \E j \in I : f[j] = i
  BY <1>3 DEF Surjection, I, n
<1>5. f[k] \in K /\ k \in I /\ \A j \in I : f[j] \in K
  BY DEF I, n
<1>6. Earlier(K, R, f[k]) = {f[j] : j \in before}
  <2>1. ASSUME NEW j \in I, <<f[j], f[k]>> \in R PROVE j \in before
    <3>1. CASE j = k
      BY <1>5, <2>1, <3>1 DEF StrictTotalOrder
    <3>2. CASE k < j
      <4>1. <<f[k], f[j]>> \in R
        BY <3>2, <1>5 DEF I, n
      <4>2. QED
        BY <1>5, <2>1, <4>1 DEF StrictTotalOrder
    <3>3. QED
      BY <1>1, <3>1, <3>2 DEF I, before
  <2>2. \A j \in before : <<f[j], f[k]>> \in R
    BY <1>1 DEF I, n, before
  <2>3. QED
    BY <1>1, <1>4, <1>5, <2>1, <2>2 DEF Earlier
<1>7. g \in Bijection(before, Earlier(K, R, f[k]))
  BY <1>1, <1>2, <1>6 DEF Bijection, Injection, Surjection, IsInjective
<1>8. Cardinality(Earlier(K, R, f[k])) = k - 1
  <2>1. ExistsBijection(1 .. k - 1, Earlier(K, R, f[k]))
    BY <1>7 DEF ExistsBijection, before
  <2>2. QED
    BY <1>1, <2>1, FS_CountingElements
<1>9. Nth(K, R, k) \in K /\ Cardinality(Earlier(K, R, Nth(K, R, k))) = k - 1
  BY Ranks
<1>10. Nth(K, R, k) = f[k] \/ <<Nth(K, R, k), f[k]>> \in R \/ <<f[k], Nth(K, R, k)>> \in R
  BY <1>5, <1>9 DEF StrictTotalOrder
<1>11. ~(k - 1 < k - 1)
  BY <1>1
<1>12. QED
  BY <1>5, <1>8, <1>9, <1>10, <1>11, EarlierGrows

(* The length of a set of indices: how many entries a listing has.         *)
LEMMA LengthCounts ==
    ASSUME NEW S, NEW s \in Seq(S)
    PROVE  IsFiniteSet(DOMAIN s) /\ Cardinality(DOMAIN s) = Len(s)
<1>1. DOMAIN s = 1 .. Len(s) /\ Len(s) \in Nat
  OBVIOUS
<1>2. Cardinality(1 .. Len(s)) = IF 1 > Len(s) THEN 0 ELSE Len(s) - 1 + 1
  BY <1>1, FS_Interval
<1>3. QED
  BY <1>1, <1>2, FS_Interval

(* A selection goes through K upwards, past no index twice and none left   *)
(* out.                                                                    *)
LEMMA SelectionSelects ==
    ASSUME NEW S, NEW s \in Seq(S), NEW K \in SUBSET DOMAIN s
    PROVE  /\ Selection(s, K) \in Seq(S)
           /\ DOMAIN Selection(s, K) = 1 .. Cardinality(K)
           /\ \E pick \in [1 .. Cardinality(K) -> K] :
                 /\ \A k \in 1 .. Cardinality(K) : Selection(s, K)[k] = s[pick[k]]
                 /\ \A k, l \in 1 .. Cardinality(K) : k < l => pick[k] < pick[l]
                 /\ \A i \in K : \E k \in 1 .. Cardinality(K) : pick[k] = i
<1> DEFINE R == Position(s)
           n == Cardinality(K)
           pick == [k \in 1 .. n |-> Nth(K, R, k)]
<1>1. \A i \in DOMAIN s : i \in Int
  OBVIOUS
<1>2. StrictTotalOrder(R, K)
  BY <1>1 DEF StrictTotalOrder, Position
<1>3. \A i, j \in K : <<i, j>> \in R => i < j
  BY DEF Position
<1>4. IsFiniteSet(K) /\ n \in Nat
  BY IndicesAreFinite
<1> HIDE DEF R, n
<1>5. /\ Selection(s, K) \in Seq(S) /\ DOMAIN Selection(s, K) = 1 .. n
      /\ \A k \in 1 .. n : pick[k] \in K /\ Selection(s, K)[k] = s[pick[k]]
  BY <1>2, ListingSelects DEF Selection, R, n
<1>6. \A k, l \in 1 .. n : k < l => pick[k] < pick[l]
  BY <1>2, <1>3, <1>4, <1>5, NthFollowsOrder DEF n
<1>7. \A i \in K : \E k \in 1 .. n : pick[k] = i
  BY <1>2, <1>4, NthIsOnto DEF n
<1>8. pick \in [1 .. n -> K]
  BY <1>5
<1> HIDE DEF pick
<1>9. QED
  BY <1>5, <1>6, <1>7, <1>8 DEF n

(* The entries of a selection are those at the indices of K.               *)
LEMMA SelectionElements ==
    ASSUME NEW S, NEW s \in Seq(S), NEW K \in SUBSET DOMAIN s
    PROVE  /\ \A k \in DOMAIN Selection(s, K) : \E i \in K : Selection(s, K)[k] = s[i]
           /\ \A i \in K : \E k \in DOMAIN Selection(s, K) : Selection(s, K)[k] = s[i]
<1> DEFINE T == Selection(s, K)
           n == Cardinality(K)
<1>1. PICK pick \in [1 .. n -> K] :
         /\ \A k \in 1 .. n : T[k] = s[pick[k]]
         /\ \A i \in K : \E k \in 1 .. n : pick[k] = i
  BY SelectionSelects
<1>2. DOMAIN T = 1 .. n
  BY SelectionSelects
<1> HIDE DEF T, n
<1>3. QED
  BY <1>1, <1>2 DEF T

(* Every value of a sequence has one first place, and no other value has   *)
(* that place.                                                             *)
LEMMA FirstsCoverAll ==
    ASSUME NEW S, NEW s \in Seq(S)
    PROVE  /\ Firsts(s) \in SUBSET DOMAIN s
           /\ \A i \in DOMAIN s : \E j \in Firsts(s) : s[j] = s[i] /\ j <= i
           /\ \A i, j \in Firsts(s) : s[i] = s[j] => i = j
<1>1. ASSUME NEW i \in DOMAIN s PROVE \E j \in Firsts(s) : s[j] = s[i] /\ j <= i
  <2> DEFINE same == {j \in DOMAIN s : s[j] = s[i]}
  <2>1. First(same) \in same /\ \A j \in same : First(same) <= j
    BY FirstIsLeast
  <2>2. \A j \in DOMAIN s : j \in Int
    OBVIOUS
  <2> DEFINE m == First(same)
  <2> HIDE DEF m
  <2>3. m \in Firsts(s)
    <3>1. m \in DOMAIN s /\ s[m] = s[i]
      BY <2>1 DEF m
    <3>2. ASSUME NEW j \in DOMAIN s, s[j] = s[m] PROVE ~(j < m)
      <4>1. m <= j
        BY <2>1, <3>1, <3>2 DEF m
      <4>2. QED
        BY <2>2, <3>1, <4>1
    <3>3. QED
      BY <3>1, <3>2 DEF Firsts
  <2>4. QED
    BY <2>1, <2>3 DEF m
<1>2. \A i, j \in Firsts(s) : s[i] = s[j] => i = j
  <2>1. \A i \in DOMAIN s : i \in Int
    OBVIOUS
  <2>2. QED
    BY <2>1 DEF Firsts
<1>3. QED
  BY <1>1, <1>2 DEF Firsts

(* A sequence has no more values than places.                              *)
LEMMA ValuesAreFew ==
    ASSUME NEW S, NEW s \in Seq(S), NEW V, V = {s[i] : i \in DOMAIN s}
    PROVE  s \in Seq(V) /\ IsFiniteSet(V) /\ Cardinality(V) <= Len(s)
<1>1. s \in Surjection(DOMAIN s, V)
  BY DEF Surjection
<1>2. IsFiniteSet(DOMAIN s) /\ Cardinality(DOMAIN s) = Len(s)
  BY LengthCounts
<1>3. IsFiniteSet(V) /\ Cardinality(V) <= Len(s)
  BY <1>1, <1>2, FS_Surjection
<1>4. s \in Seq(V)
  OBVIOUS
<1>5. QED
  BY <1>3, <1>4

(* The same, with a name for the way through K.                            *)
GoesThrough(pick, s, K) ==
    /\ pick \in [1 .. Cardinality(K) -> K]
    /\ \A k \in 1 .. Cardinality(K) : Selection(s, K)[k] = s[pick[k]]
    /\ \A k, l \in 1 .. Cardinality(K) : k < l => pick[k] < pick[l]
    /\ \A i \in K : \E k \in 1 .. Cardinality(K) : pick[k] = i

LEMMA SelectionFollows ==
    ASSUME NEW S, NEW s \in Seq(S), NEW K \in SUBSET DOMAIN s
    PROVE  DOMAIN Selection(s, K) = 1 .. Cardinality(K) /\ \E pick : GoesThrough(pick, s, K)
<1>1. PICK pick \in [1 .. Cardinality(K) -> K] :
         /\ \A k \in 1 .. Cardinality(K) : Selection(s, K)[k] = s[pick[k]]
         /\ \A k, l \in 1 .. Cardinality(K) : k < l => pick[k] < pick[l]
         /\ \A i \in K : \E k \in 1 .. Cardinality(K) : pick[k] = i
  BY SelectionSelects, SMTT(60)
<1>2. GoesThrough(pick, s, K)
  BY <1>1 DEF GoesThrough
<1>3. QED
  BY <1>2, SelectionSelects

LEMMA SequencesAreLists ==
    ASSUME NEW S, NEW F \in Seq(S)
    PROVE  IsList(F)
<1>1. F = [i \in 1 .. Len(F) |-> F[i]] /\ Len(F) \in Nat /\ DOMAIN F = 1 .. Len(F)
  OBVIOUS
<1>2. \A i \in 1 .. Len(F) : F[i] \in {F[j] : j \in DOMAIN F}
  BY <1>1
<1>3. QED
  BY <1>1, <1>2 DEF IsList

(* A function over 1, 2, ... up to n is a list.                            *)
LEMMA ListedIsList ==
    ASSUME NEW s, NEW n \in Nat, DOMAIN s = 1 .. n, s = [i \in 1 .. n |-> s[i]]
    PROVE  IsList(s)
<1> DEFINE V == {s[i] : i \in DOMAIN s}
<1>1. \A i \in 1 .. n : s[i] \in V
  OBVIOUS
<1> HIDE DEF V
<1>2. s \in Seq(V)
  BY <1>1
<1>3. QED
  BY <1>2 DEF IsList, V

-----------------------------------------------------------------------------
(* Loops                                                                   *)

(* Induction up to a bound, with the set of the numbers reached.           *)
LEMMA UpTo ==
    ASSUME NEW n \in Nat, NEW P \in SUBSET (0 .. n), 0 \in P,
           \A i \in 0 .. n - 1 : i \in P => i + 1 \in P
    PROVE  P = 0 .. n
<1> SUFFICES ASSUME P # 0 .. n PROVE FALSE
  OBVIOUS
<1> DEFINE s == [i \in 1 .. n |-> i]
           K == {i \in 1 .. n : i \notin P}
           m == First(K)
<1>1. s \in Seq(1 .. n) /\ DOMAIN s = 1 .. n
  OBVIOUS
<1>2. K # {} /\ K \in SUBSET DOMAIN s
  <2>1. PICK i \in 0 .. n : i \notin P
    OBVIOUS
  <2>2. i \in K
    BY <2>1
  <2>3. QED
    BY <1>1, <2>2
<1>3. m \in K /\ \A j \in K : m <= j
  <2> HIDE DEF s, K
  <2>1. QED
    BY <1>1, <1>2, FirstIsLeast
<1> HIDE DEF m
<1>4. m - 1 \in P
  BY <1>3
<1>5. QED
  BY <1>3, <1>4

(* A loop that makes of each state the next has states up to the end.      *)
IsRun(f, S, a, n, H) ==
    f \in [0 .. n -> S] /\ f[0] = a /\ \A i \in 1 .. n : f[i] = H[i][f[i - 1]]

LEMMA Iterates ==
    ASSUME NEW S, NEW a \in S, NEW n \in Nat, NEW H \in [1 .. n -> [S -> S]]
    PROVE  \E f : IsRun(f, S, a, n, H)
<1> DEFINE Runs(m, f) == f[0] = a /\ \A i \in 1 .. m : f[i] = H[i][f[i - 1]]
           P == {m \in 0 .. n : \E f \in [0 .. m -> S] : Runs(m, f)}
<1>1. 0 \in P
  <2> DEFINE f == [i \in 0 .. 0 |-> a]
  <2>1. f \in [0 .. 0 -> S] /\ Runs(0, f)
    OBVIOUS
  <2> HIDE DEF f, Runs
  <2>2. QED
    BY <2>1
<1>2. ASSUME NEW m \in 0 .. n - 1, m \in P PROVE m + 1 \in P
  <2>1. PICK f \in [0 .. m -> S] : Runs(m, f)
    BY <1>2
  <2> DEFINE g == [i \in 0 .. m + 1 |-> IF i = m + 1 THEN H[m + 1][f[m]] ELSE f[i]]
  <2>2. g \in [0 .. m + 1 -> S]
    OBVIOUS
  <2>3. Runs(m + 1, g)
    <3>1. g[0] = a
      BY <2>1
    <3>2. ASSUME NEW i \in 1 .. m + 1 PROVE g[i] = H[i][g[i - 1]]
      <4>1. CASE i = m + 1
        BY <4>1
      <4>2. CASE i # m + 1
        <5>1. i \in 1 .. m /\ g[i] = f[i] /\ g[i - 1] = f[i - 1]
          BY <4>2
        <5>2. QED
          BY <5>1, <2>1
      <4>3. QED
        BY <4>1, <4>2
    <3>3. QED
      BY <3>1, <3>2
  <2>4. m + 1 \in 0 .. n
    OBVIOUS
  <2> HIDE DEF g, Runs
  <2>5. QED
    BY <2>2, <2>3, <2>4
<1>3. P = 0 .. n
  <2>1. P \in SUBSET (0 .. n)
    OBVIOUS
  <2> HIDE DEF P
  <2>2. QED
    BY <1>1, <1>2, <2>1, UpTo
<1>4. n \in P
  BY <1>3
<1>5. QED
  BY <1>4 DEF IsRun

(* What every round keeps holds up to the end.                             *)
LEMMA RunStays ==
    ASSUME NEW S, NEW n \in Nat, NEW h, h[0] \in S,
           \A i \in 1 .. n : h[i - 1] \in S => h[i] \in S
    PROVE  \A i \in 0 .. n : h[i] \in S
<1> DEFINE P == {i \in 0 .. n : h[i] \in S}
<1>1. 0 \in P
  OBVIOUS
<1>2. ASSUME NEW i \in 0 .. n - 1, i \in P PROVE i + 1 \in P
  <2>1. i + 1 \in 1 .. n /\ i + 1 - 1 = i
    OBVIOUS
  <2> DEFINE j == i + 1
  <2> HIDE DEF j
  <2>2. j \in 1 .. n /\ j - 1 = i
    BY <2>1 DEF j
  <2>3. h[j] \in S
    BY <1>2, <2>2
  <2>4. QED
    BY <2>2, <2>3 DEF j
<1>3. P \in SUBSET (0 .. n)
  OBVIOUS
<1> HIDE DEF P
<1>4. P = 0 .. n
  BY <1>1, <1>2, <1>3, UpTo
<1>5. QED
  BY <1>4 DEF P

(* The least member of a set in a strict total order.                      *)
LEMMA LeastExists ==
    ASSUME NEW K, IsFiniteSet(K), K # {}, NEW R, StrictTotalOrder(R, K)
    PROVE  \E i \in K : \A j \in K : i = j \/ <<i, j>> \in R
<1>1. Cardinality(K) \in Nat /\ Cardinality(K) # 0
  BY FS_CardinalityType, FS_EmptySet
<1>2. 1 \in 1 .. Cardinality(K)
  BY <1>1
<1> DEFINE i == Nth(K, R, 1)
<1>3. i \in K /\ Cardinality(Earlier(K, R, i)) = 0
  BY <1>2, Ranks
<1>4. IsFiniteSet(Earlier(K, R, i))
  BY FS_Subset DEF Earlier
<1>5. Earlier(K, R, i) = {}
  BY <1>3, <1>4, FS_EmptySet, Zenon
<1>6. \A j \in K : <<j, i>> \notin R
  BY <1>5 DEF Earlier
<1> HIDE DEF i
<1>7. QED
  BY <1>3, <1>6 DEF StrictTotalOrder

-----------------------------------------------------------------------------
(* Lists put end to end                                                    *)

(* Two lists end to end.                                                   *)
LEMMA PutEndToEnd ==
    ASSUME NEW S, NEW T, NEW s \in Seq(S), NEW t \in Seq(T)
    PROVE  /\ DOMAIN (s \o t) = 1 .. Len(s) + Len(t)
           /\ \A k \in 1 .. Len(s) : (s \o t)[k] = s[k]
           /\ \A l \in 1 .. Len(t) : (s \o t)[Len(s) + l] = t[l]
<1>1. Len(s) \in Nat /\ Len(t) \in Nat
  OBVIOUS
<1>2. Len(s \o t) = Len(s) + Len(t) /\ s \o t \in Seq(S \cup T)
  OBVIOUS
<1>3. DOMAIN (s \o t) = 1 .. Len(s) + Len(t)
  BY <1>1, <1>2
<1>4. ASSUME NEW k \in 1 .. Len(s) PROVE (s \o t)[k] = s[k]
  BY <1>1
<1>5. ASSUME NEW l \in 1 .. Len(t) PROVE (s \o t)[Len(s) + l] = t[l]
  BY <1>1
<1>6. QED
  BY <1>3, <1>4, <1>5

(* The elements of lists put end to end.                                   *)
LEMMA ConcatElements ==
    ASSUME NEW S, NEW s \in Seq(S), NEW t \in Seq(S)
    PROVE  ToSet(s \o t) = ToSet(s) \cup ToSet(t)
<1>1. /\ DOMAIN s = 1 .. Len(s) /\ DOMAIN t = 1 .. Len(t) /\ Len(s) \in Nat /\ Len(t) \in Nat
  OBVIOUS
<1>2. /\ DOMAIN (s \o t) = 1 .. Len(s) + Len(t)
      /\ \A k \in 1 .. Len(s) : (s \o t)[k] = s[k]
      /\ \A l \in 1 .. Len(t) : (s \o t)[Len(s) + l] = t[l]
  BY PutEndToEnd
<1> DEFINE u == s \o t
<1> HIDE DEF u
<1>3. ASSUME NEW k \in DOMAIN u PROVE u[k] \in ToSet(s) \cup ToSet(t)
  <2>1. CASE k \in 1 .. Len(s)
    BY <1>1, <1>2, <2>1 DEF u, ToSet
  <2>2. CASE k \notin 1 .. Len(s)
    <3>1. k - Len(s) \in 1 .. Len(t) /\ k = Len(s) + (k - Len(s))
      BY <1>1, <1>2, <2>2 DEF u
    <3>2. u[k] = t[k - Len(s)]
      BY <1>2, <3>1 DEF u
    <3>3. QED
      BY <1>1, <3>1, <3>2 DEF ToSet
  <2>3. QED
    BY <2>1, <2>2
<1>4. ASSUME NEW k \in DOMAIN s PROVE s[k] \in ToSet(u)
  <2>1. k \in DOMAIN u /\ u[k] = s[k]
    BY <1>1, <1>2 DEF u
  <2>2. QED
    BY <2>1 DEF ToSet
<1>5. ASSUME NEW l \in DOMAIN t PROVE t[l] \in ToSet(u)
  <2>1. Len(s) + l \in DOMAIN u /\ u[Len(s) + l] = t[l]
    BY <1>1, <1>2 DEF u
  <2>2. QED
    BY <2>1 DEF ToSet
<1>6. \A x : x \in ToSet(u) <=> x \in ToSet(s) \cup ToSet(t)
  BY <1>3, <1>4, <1>5 DEF ToSet
<1>7. QED
  BY <1>6 DEF u

(* Lists are put end to end one after the other.                           *)
PutTogether(h, seqs) ==
    /\ h[1] = seqs[1]
    /\ \A i \in 1 .. Len(seqs) : i # 1 => h[i] = h[i - 1] \o seqs[i]
    /\ FlattenSeq(seqs) = h[Len(seqs)]

LEMMA FlattenRuns ==
    ASSUME NEW S, NEW seqs \in Seq(Seq(S)), Len(seqs) # 0
    PROVE  \E h : PutTogether(h, seqs) /\ \A i \in 1 .. Len(seqs) : h[i] \in Seq(S)
<1> DEFINE n == Len(seqs)
           T == Seq(S)
           Body(f) == [i \in 1 .. n |-> IF i = 1 THEN seqs[i] ELSE f[i - 1] \o seqs[i]]
           m == n - 1
           H == [i \in 1 .. m |-> [s \in T |-> s \o seqs[i + 1]]]
           h == CHOOSE x : x = Body(x)
<1>1. /\ n \in Nat /\ m \in Nat /\ n = m + 1
      /\ \A i \in 1 .. n : seqs[i] \in T
      /\ \A s, t \in T : s \o t \in T
  OBVIOUS
<1>2. FlattenSeq(seqs) = h[n]
  BY DEF FlattenSeq
<1> HIDE DEF n, m, T
<1>3. /\ H \in [1 .. m -> [T -> T]]
      /\ \A i \in 1 .. m : \A s \in T : H[i][s] = s \o seqs[i + 1]
  <2>1. \A i \in 1 .. m : seqs[i + 1] \in T
    BY <1>1
  <2>2. QED
    BY <1>1, <2>1
<1> HIDE DEF H
<1>4. PICK f \in [0 .. m -> T] :
         f[0] = seqs[1] /\ \A i \in 1 .. m : f[i] = H[i][f[i - 1]]
  <2>1. seqs[1] \in T
    BY <1>1
  <2>2. \E f : IsRun(f, T, seqs[1], m, H)
    BY <1>1, <1>3, <2>1, Iterates
  <2>3. QED
    BY <2>2 DEF IsRun
<1> DEFINE g == [i \in 1 .. n |-> f[i - 1]]
<1>5. g = Body(g)
  <2>1. ASSUME NEW i \in 1 .. n, i # 1 PROVE g[i] = g[i - 1] \o seqs[i]
    <3>1. /\ i - 1 \in 1 .. m /\ i - 1 \in 1 .. n /\ i - 1 - 1 \in 0 .. m /\ i - 1 + 1 = i
      BY <1>1, <2>1
    <3>2. f[i - 1] = f[i - 1 - 1] \o seqs[i]
      BY <1>3, <1>4, <3>1
    <3>3. QED
      BY <3>1, <3>2
  <2>2. g[1] = seqs[1]
    BY <1>1, <1>4
  <2> HIDE DEF g
  <2>3. g = [i \in 1 .. n |-> g[i]]
    BY DEF g
  <2>4. QED
    BY <2>1, <2>2, <2>3
<1> HIDE DEF g, Body
<1>6. h = Body(h)
  BY <1>5
<1> HIDE DEF h
<1>7. ASSUME NEW i \in 1 .. n
      PROVE  h[i] = IF i = 1 THEN seqs[i] ELSE h[i - 1] \o seqs[i]
  <2>1. Body(h)[i] = IF i = 1 THEN seqs[i] ELSE h[i - 1] \o seqs[i]
    BY DEF Body
  <2>2. QED
    BY <1>6, <2>1
<1>8. PutTogether(h, seqs)
  <2>1. h[1] = seqs[1]
    BY <1>1, <1>7
  <2>2. QED
    BY <1>2, <1>7, <2>1 DEF PutTogether, n
<1> DEFINE P == {i \in 0 .. m : h[i + 1] \in T}
<1>9. 0 \in P
  BY <1>1, <1>7
<1>10. ASSUME NEW i \in 0 .. m - 1, i \in P PROVE i + 1 \in P
  <2>1. i + 2 \in 1 .. n /\ i + 2 # 1 /\ i + 2 - 1 = i + 1 /\ i + 1 + 1 = i + 2 /\ i + 1 \in 0 .. m
    BY <1>1
  <2> DEFINE j == i + 2
  <2> HIDE DEF j
  <2>2. j \in 1 .. n /\ j # 1 /\ j - 1 = i + 1 /\ j = i + 2
    BY <2>1 DEF j
  <2>3. h[j] = h[j - 1] \o seqs[j]
    BY <1>7, <2>2
  <2>4. QED
    BY <1>1, <1>10, <2>1, <2>2, <2>3
<1>11. P = 0 .. m
  <2>1. P \in SUBSET (0 .. m)
    OBVIOUS
  <2> HIDE DEF P
  <2>2. QED
    BY <1>1, <1>9, <1>10, <2>1, UpTo
<1>12. ASSUME NEW i \in 1 .. n PROVE h[i] \in T
  <2>1. i - 1 \in 0 .. m /\ i - 1 + 1 = i
    BY <1>1
  <2>2. i - 1 \in P
    BY <1>11, <2>1
  <2>3. QED
    BY <2>1, <2>2
<1>13. QED
  BY <1>8, <1>12 DEF n, T

(* They make a list, whose length is that of the parts if they are equal.  *)
LEMMA FlattenTyped ==
    ASSUME NEW S, NEW seqs \in Seq(Seq(S))
    PROVE  FlattenSeq(seqs) \in Seq(S)
<1>1. CASE Len(seqs) = 0
  BY <1>1 DEF FlattenSeq
<1>2. CASE Len(seqs) # 0
  <2>1. PICK h : PutTogether(h, seqs) /\ \A i \in 1 .. Len(seqs) : h[i] \in Seq(S)
    BY <1>2, FlattenRuns
  <2>2. Len(seqs) \in 1 .. Len(seqs)
    BY <1>2
  <2>3. QED
    BY <2>1, <2>2 DEF PutTogether
<1>3. QED
  BY <1>1, <1>2

(* A field of a list of lists is in one of them.                           *)
LEMMA FlattenElements ==
    ASSUME NEW S, NEW seqs \in Seq(Seq(S))
    PROVE  ToSet(FlattenSeq(seqs)) = UNION {ToSet(seqs[j]) : j \in DOMAIN seqs}
<1> DEFINE n == Len(seqs)
           Parts(i) == UNION {ToSet(seqs[j]) : j \in 1 .. i}
<1>0. n \in Nat /\ DOMAIN seqs = 1 .. n /\ \A j \in 1 .. n : seqs[j] \in Seq(S)
  OBVIOUS
<1>1. CASE n = 0
  <2>1. FlattenSeq(seqs) = seqs
    BY <1>1 DEF FlattenSeq
  <2>2. DOMAIN seqs = {}
    BY <1>0, <1>1
  <2>3. QED
    BY <2>1, <2>2 DEF ToSet
<1>2. CASE n # 0
  <2>1. PICK h : PutTogether(h, seqs) /\ \A i \in 1 .. n : h[i] \in Seq(S)
    BY <1>2, FlattenRuns
  <2>2. h[1] = seqs[1] /\ (\A i \in 1 .. n : i # 1 => h[i] = h[i - 1] \o seqs[i])
        /\ FlattenSeq(seqs) = h[n]
    BY <2>1 DEF PutTogether
  <2> HIDE DEF n
  <2> DEFINE m == n - 1
             P == {i \in 0 .. m : ToSet(h[i + 1]) = Parts(i + 1)}
  <2>3. m \in Nat /\ n = m + 1
    BY <1>0, <1>2
  <2> HIDE DEF m
  <2>4. 0 \in P
    <3>1. \A j : j \in 1 .. 0 + 1 <=> j = 1
      OBVIOUS
    <3>2. Parts(0 + 1) = ToSet(seqs[1]) /\ 0 + 1 = 1 /\ 0 \in 0 .. m
      BY <2>3, <3>1
    <3>3. QED
      BY <2>2, <3>2
  <2>5. ASSUME NEW i \in 0 .. m - 1, i \in P PROVE i + 1 \in P
    <3> DEFINE j == i + 1 + 1
    <3>1. j \in 1 .. n /\ j # 1 /\ j - 1 = i + 1 /\ i + 1 \in 1 .. n /\ i + 1 \in 0 .. m
      BY <2>3
    <3>2. 1 .. j = (1 .. i + 1) \cup {j}
      BY <2>3
    <3> HIDE DEF j
    <3>3. Parts(j) = Parts(i + 1) \cup ToSet(seqs[j])
      BY <3>2
    <3>4. h[j] = h[i + 1] \o seqs[j] /\ h[i + 1] \in Seq(S) /\ seqs[j] \in Seq(S)
      BY <1>0, <2>1, <2>2, <3>1
    <3>5. ToSet(h[i + 1]) = Parts(i + 1)
      BY <2>5
    <3> HIDE DEF Parts
    <3>6. ToSet(h[j]) = Parts(j)
      BY <3>3, <3>4, <3>5, ConcatElements
    <3>7. QED
      BY <3>1, <3>6 DEF j
  <2>6. P = 0 .. m
    <3>1. P \in SUBSET (0 .. m)
      OBVIOUS
    <3> HIDE DEF P
    <3>2. QED
      BY <2>3, <2>4, <2>5, <3>1, UpTo
  <2>7. m \in P
    <3> HIDE DEF P
    <3>1. QED
      BY <2>3, <2>6
  <2>8. QED
    BY <1>0, <2>2, <2>3, <2>7
<1>3. QED
  BY <1>1, <1>2

(* Where the elements of lists end up when these are put end to end.       *)
PutAt(at, seqs) ==
    /\ at \in [0 .. Len(seqs) -> Nat] /\ at[0] = 0
    /\ \A i \in 1 .. Len(seqs) : at[i] = at[i - 1] + Len(seqs[i])
    /\ DOMAIN FlattenSeq(seqs) = 1 .. at[Len(seqs)]
    /\ \A i \in 1 .. Len(seqs) : \A k \in 1 .. Len(seqs[i]) :
         /\ at[i - 1] + k \in 1 .. at[Len(seqs)]
         /\ FlattenSeq(seqs)[at[i - 1] + k] = seqs[i][k]
    /\ \A p \in 1 .. at[Len(seqs)] : \E i \in 1 .. Len(seqs) : \E k \in 1 .. Len(seqs[i]) :
         p = at[i - 1] + k

LEMMA FlattenPlaces ==
    ASSUME NEW S, NEW seqs \in Seq(Seq(S))
    PROVE  \E at : PutAt(at, seqs)
<1> DEFINE n == Len(seqs)
<1>1. n \in Nat /\ \A i \in 1 .. n : seqs[i] \in Seq(S) /\ Len(seqs[i]) \in Nat
  OBVIOUS
<1>2. CASE n = 0
  <2> DEFINE at == [i \in 0 .. n |-> 0]
  <2>1. FlattenSeq(seqs) = seqs /\ seqs = <<>>
    BY <1>2 DEF FlattenSeq
  <2>2. at \in [0 .. n -> Nat] /\ at[0] = 0 /\ at[n] = 0 /\ 1 .. n = {} /\ 1 .. at[n] = {}
    BY <1>2
  <2>3. FlattenSeq(seqs) \in Seq(S) /\ DOMAIN FlattenSeq(seqs) = {}
    BY <2>1
  <2> HIDE DEF at
  <2>4. PutAt(at, seqs)
    BY <2>2, <2>3 DEF PutAt
  <2>5. QED
    BY <2>4
<1>3. CASE n # 0
  <2>1. PICK h : PutTogether(h, seqs) /\ \A i \in 1 .. n : h[i] \in Seq(S)
    BY <1>3, FlattenRuns
  <2>2. h[1] = seqs[1] /\ (\A i \in 1 .. n : i # 1 => h[i] = h[i - 1] \o seqs[i])
        /\ FlattenSeq(seqs) = h[n]
    BY <2>1 DEF PutTogether
  <2> DEFINE at == [i \in 0 .. n |-> IF i = 0 THEN 0 ELSE Len(h[i])]
             m == n - 1
             Placed(i) ==
                /\ \A j \in 1 .. i : \A k \in 1 .. Len(seqs[j]) :
                     at[j - 1] + k \in 1 .. at[i] /\ h[i][at[j - 1] + k] = seqs[j][k]
                /\ \A p \in 1 .. at[i] : \E j \in 1 .. i : \E k \in 1 .. Len(seqs[j]) : p = at[j - 1] + k
             P == {i \in 0 .. m : Placed(i + 1)}
  <2> HIDE DEF n
  <2>3. m \in Nat /\ n = m + 1 /\ 1 \in 1 .. n /\ n \in 1 .. n
    BY <1>1, <1>3
  <2>4. at \in [0 .. n -> Nat] /\ at[0] = 0 /\ \A i \in 1 .. n : at[i] = Len(h[i]) /\ DOMAIN h[i] = 1 .. at[i]
    <3>1. \A i \in 1 .. n : Len(h[i]) \in Nat /\ DOMAIN h[i] = 1 .. Len(h[i])
      BY <2>1
    <3>2. QED
      BY <1>1, <3>1
  <2> HIDE DEF m, at
  <2>5. ASSUME NEW i \in 1 .. n, i # 1
        PROVE  /\ at[i] = at[i - 1] + Len(seqs[i]) /\ i - 1 \in 1 .. n
               /\ \A k \in 1 .. at[i - 1] : h[i][k] = h[i - 1][k]
               /\ \A k \in 1 .. Len(seqs[i]) : h[i][at[i - 1] + k] = seqs[i][k]
    <3> DEFINE j == i - 1
    <3>0. j \in 1 .. n
      BY <1>1, <2>5
    <3>1. j \in 1 .. n /\ h[i] = h[j] \o seqs[i]
      <4>1. h[i] = h[i - 1] \o seqs[i]
        BY <2>2, <2>5
      <4>2. QED
        BY <3>0, <4>1
    <3> HIDE DEF j
    <3>2. h[j] \in Seq(S) /\ seqs[i] \in Seq(S) /\ at[j] = Len(h[j]) /\ at[i] = Len(h[i])
      BY <1>1, <2>1, <2>4, <3>1
    <3>3. /\ DOMAIN h[i] = 1 .. at[j] + Len(seqs[i])
          /\ \A k \in 1 .. at[j] : h[i][k] = h[j][k]
          /\ \A k \in 1 .. Len(seqs[i]) : h[i][at[j] + k] = seqs[i][k]
      <4> DEFINE s == h[j]
                 t == seqs[i]
      <4>1. s \in Seq(S) /\ t \in Seq(S) /\ at[j] = Len(s) /\ h[i] = s \o t
        BY <3>1, <3>2
      <4> HIDE DEF s, t
      <4>2. /\ DOMAIN (s \o t) = 1 .. Len(s) + Len(t)
            /\ \A k \in 1 .. Len(s) : (s \o t)[k] = s[k]
            /\ \A k \in 1 .. Len(t) : (s \o t)[Len(s) + k] = t[k]
        BY <4>1, PutEndToEnd
      <4>3. QED
        BY <4>1, <4>2 DEF s, t
    <3>4. Len(h[i]) = at[j] + Len(seqs[i])
      BY <1>1, <2>1, <2>4, <3>1, <3>2, <3>3
    <3>5. QED
      BY <3>1, <3>2, <3>3, <3>4 DEF j
  <2>6. at[1] = at[0] + Len(seqs[1])
    BY <1>1, <2>2, <2>3, <2>4
  <2>7. 0 \in P
    <3>1. \A j \in 1 .. 1 : j = 1 /\ j - 1 = 0
      OBVIOUS
    <3>2. at[0] = 0 /\ at[1] = Len(seqs[1]) /\ h[1] = seqs[1] /\ Len(seqs[1]) \in Nat
      BY <1>1, <2>2, <2>3, <2>4
    <3>3. Placed(1)
      BY <3>1, <3>2
    <3> HIDE DEF Placed
    <3>4. QED
      BY <2>3, <3>3
  <2>8. ASSUME NEW l \in 0 .. m - 1, l \in P PROVE l + 1 \in P
    <3> DEFINE e == l + 1
               i == l + 2
    <3>1. e \in 1 .. n /\ i \in 1 .. n /\ i # 1 /\ i - 1 = e /\ e + 1 = i /\ e \in 0 .. m /\ e \in Nat
          /\ 1 .. i = (1 .. e) \cup {i}
      BY <2>3
    <3>2. Placed(e)
      BY <2>8
    <3> HIDE DEF e, i, P
    <3>3. at[e] \in Nat /\ Len(seqs[i]) \in Nat
      BY <1>1, <2>4, <3>1
    <3>4. /\ at[i] = at[e] + Len(seqs[i])
          /\ \A k \in 1 .. at[e] : h[i][k] = h[e][k]
          /\ \A k \in 1 .. Len(seqs[i]) : h[i][at[e] + k] = seqs[i][k]
      BY <2>5, <3>1
    <3>5. ASSUME NEW j \in 1 .. i, NEW k \in 1 .. Len(seqs[j])
          PROVE  at[j - 1] + k \in 1 .. at[i] /\ h[i][at[j - 1] + k] = seqs[j][k]
      <4>1. CASE j \in 1 .. e
        <5>1. at[j - 1] + k \in 1 .. at[e] /\ h[e][at[j - 1] + k] = seqs[j][k]
          BY <3>2, <4>1
        <5>2. QED
          BY <3>3, <3>4, <5>1
      <4>2. CASE j = i
        BY <3>1, <3>3, <3>4, <4>2
      <4>3. QED
        BY <3>1, <4>1, <4>2
    <3>6. ASSUME NEW p \in 1 .. at[i]
          PROVE  \E j \in 1 .. i : \E k \in 1 .. Len(seqs[j]) : p = at[j - 1] + k
      <4>1. CASE p \in 1 .. at[e]
        BY <3>1, <3>2, <4>1
      <4>2. CASE p \notin 1 .. at[e]
        <5>1. p - at[e] \in 1 .. Len(seqs[i]) /\ p = at[e] + (p - at[e])
          BY <3>3, <3>4, <4>2
        <5>2. i \in 1 .. i /\ p = at[i - 1] + (p - at[e])
          BY <3>1, <5>1
        <5>3. QED
          BY <5>1, <5>2
      <4>3. QED
        BY <4>1, <4>2
    <3>7. Placed(i)
      BY <3>5, <3>6
    <3> HIDE DEF Placed
    <3>8. QED
      BY <3>1, <3>7 DEF P, e
  <2>9. P = 0 .. m
    <3>1. P \in SUBSET (0 .. m)
      OBVIOUS
    <3> HIDE DEF P
    <3>2. QED
      BY <2>3, <2>7, <2>8, <3>1, UpTo
  <2>10. Placed(n)
    <3>1. m \in P
      <4> HIDE DEF P
      <4>1. QED
        BY <2>3, <2>9
    <3> HIDE DEF Placed
    <3>2. QED
      BY <2>3, <3>1
  <2>11. \A i \in 1 .. n : at[i] = at[i - 1] + Len(seqs[i])
    <3> SUFFICES ASSUME NEW i \in 1 .. n PROVE at[i] = at[i - 1] + Len(seqs[i])
      OBVIOUS
    <3>1. CASE i = 1
      BY <2>6, <3>1
    <3>2. CASE i # 1
      BY <2>5, <3>2
    <3>3. QED
      BY <3>1, <3>2
  <2>12. FlattenSeq(seqs) \in Seq(S) /\ DOMAIN FlattenSeq(seqs) = 1 .. at[n]
    BY <2>1, <2>2, <2>3, <2>4
  <2> HIDE DEF P
  <2>13. PutAt(at, seqs)
    BY <2>2, <2>4, <2>10, <2>11, <2>12 DEF PutAt, n
  <2>14. QED
    BY <2>13
<1>4. QED
  BY <1>2, <1>3

(* A list ends before the next one begins.                                 *)
LEMMA PlacesGrow ==
    ASSUME NEW S, NEW seqs \in Seq(Seq(S)), NEW at, PutAt(at, seqs),
           NEW j \in 0 .. Len(seqs), NEW k \in j .. Len(seqs)
    PROVE  at[j] <= at[k]
<1> DEFINE n == Len(seqs)
           m == n - j
           P == {i \in 0 .. m : at[j] <= at[j + i]}
<1>1. n \in Nat /\ \A i \in 1 .. n : Len(seqs[i]) \in Nat
  OBVIOUS
<1>2. /\ \A i \in 0 .. n : at[i] \in Nat
      /\ \A i \in 1 .. n : at[i] = at[i - 1] + Len(seqs[i])
  BY DEF PutAt
<1> HIDE DEF n
<1>3. m \in Nat /\ j \in 0 .. n /\ k \in j .. n
  BY <1>1 DEF n
<1>4. 0 \in P
  BY <1>2, <1>3
<1>5. ASSUME NEW i \in 0 .. m - 1, i \in P PROVE i + 1 \in P
  <2> DEFINE l == j + (i + 1)
  <2>1. l \in 1 .. n /\ l - 1 = j + i /\ l - 1 \in 0 .. n /\ l \in 0 .. n /\ i + 1 \in 0 .. m
    BY <1>1, <1>3
  <2>2. at[j] <= at[l - 1]
    BY <1>5, <2>1
  <2> HIDE DEF l
  <2>3. at[l] = at[l - 1] + Len(seqs[l]) /\ Len(seqs[l]) \in Nat /\ at[l] \in Nat /\ at[l - 1] \in Nat
    BY <1>1, <1>2, <2>1
  <2>4. at[j] <= at[l] /\ at[j] \in Nat
    BY <1>2, <1>3, <2>2, <2>3
  <2>5. QED
    BY <2>1, <2>4 DEF l
<1>6. P = 0 .. m
  <2>1. P \in SUBSET (0 .. m)
    OBVIOUS
  <2> HIDE DEF P
  <2>2. QED
    BY <1>3, <1>4, <1>5, <2>1, UpTo
<1>7. k - j \in P
  <2> HIDE DEF P
  <2>1. QED
    BY <1>1, <1>3, <1>6
<1>8. QED
  BY <1>3, <1>7

=============================================================================
