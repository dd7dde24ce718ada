---------------------------- MODULE ChainTheorems ----------------------------
(***************************************************************************)
(* What Chain::sort and Chain::remove_augment return, for every chain.     *)
(* Both are listings of indices under a strict total order.                *)
(***************************************************************************)
EXTENDS Chain, ListingTheorems

(* The two orders by which chains are rearranged are strict and total.     *)
LEMMA Orders ==
    ASSUME NEW S, \A e \in S : e.priority \in Int,
           NEW s \in Seq(S), NEW K \in SUBSET DOMAIN s
    PROVE  StrictTotalOrder(Position(s), K) /\ StrictTotalOrder(Precedence(s), K)
<1>1. \A i \in DOMAIN s : i \in Int /\ s[i].priority \in Int
  OBVIOUS
<1>2. StrictTotalOrder(Position(s), K)
  BY <1>1 DEF StrictTotalOrder, Position
<1>3. StrictTotalOrder(Precedence(s), K)
  BY <1>1 DEF StrictTotalOrder, Precedence
<1>4. QED
  BY <1>2, <1>3

(* No two entries of a chain are a pair that conflict_check calls class 3. *)
Peaceful(s) == \A i, j \in DOMAIN s : i # j => ~HardPair(s[i], s[j])

(* HardPair does not depend on who came first.                             *)
LEMMA HardPairIsSymmetric ==
    ASSUME NEW d, NEW e PROVE HardPair(d, e) <=> HardPair(e, d)
BY DEF HardPair, Intersects

(* Rearranging a chain puts no new pair of entries side by side.           *)
LEMMA ListingKeepsPeace ==
    ASSUME NEW S, NEW s \in Seq(S), NEW K \in SUBSET DOMAIN s,
           NEW R, StrictTotalOrder(R, K), Peaceful(s)
    PROVE  Peaceful(Listing(s, K, R))
<1> DEFINE L == Listing(s, K, R)
<1>1. SUFFICES ASSUME NEW k \in DOMAIN L, NEW l \in DOMAIN L, k # l
               PROVE  ~HardPair(L[k], L[l])
  BY DEF Peaceful
<1>2. IsFiniteSet(K) /\ Cardinality(K) \in Nat
  BY IndicesAreFinite
<1>3. /\ k \in 1 .. Cardinality(K) /\ l \in 1 .. Cardinality(K)
      /\ L[k] = s[Nth(K, R, k)] /\ Nth(K, R, k) \in DOMAIN s
      /\ L[l] = s[Nth(K, R, l)] /\ Nth(K, R, l) \in DOMAIN s
  <2>1. /\ DOMAIN L = 1 .. Cardinality(K)
        /\ \A n \in 1 .. Cardinality(K) :
              Nth(K, R, n) \in K /\ L[n] = s[Nth(K, R, n)]
    BY ListingSelects, Zenon
  <2>2. QED
    BY <2>1
<1>4. Nth(K, R, k) # Nth(K, R, l)
  <2>1. CASE k < l
    BY <1>2, <1>3, <2>1, NthFollowsOrder
  <2>2. CASE l < k
    BY <1>2, <1>3, <2>2, NthFollowsOrder
  <2>3. QED
    BY <1>1, <1>3, <2>1, <2>2
<1>5. QED
  BY <1>3, <1>4 DEF Peaceful

(* Chain::sort returns the same number of entries, in run order, and of    *)
(* entries of one priority the one that was added first comes first        *)
(* (chain.cpp:24-29).                                                      *)
THEOREM StableSortSorts ==
    ASSUME NEW S, \A e \in S : e.priority \in Int, NEW s \in Seq(S)
    PROVE  /\ StableSort(s) \in Seq(S)
           /\ Len(StableSort(s)) = Len(s)
           /\ InRunOrder(StableSort(s))
           /\ Peaceful(s) => Peaceful(StableSort(s))
<1> DEFINE D == DOMAIN s
           R == Precedence(s)
<1>1. /\ StrictTotalOrder(R, D)
      /\ IsFiniteSet(D) /\ Cardinality(D) \in Nat
  BY Orders, IndicesAreFinite
<1>2. /\ StableSort(s) \in Seq(S)
      /\ DOMAIN StableSort(s) = 1 .. Cardinality(D)
      /\ \A k \in 1 .. Cardinality(D) :
            Nth(D, R, k) \in D /\ StableSort(s)[k] = s[Nth(D, R, k)]
  BY <1>1, ListingSelects DEF StableSort
<1>3. Cardinality(D) = Len(s)
  <2>1. D = 1 .. Len(s) /\ Len(s) \in Nat
    OBVIOUS
  <2>2. Cardinality(1 .. Len(s)) = IF 1 > Len(s) THEN 0 ELSE Len(s) - 1 + 1
    BY <2>1, FS_Interval
  <2>3. QED
    BY <2>1, <2>2
<1>4. Len(StableSort(s)) = Len(s)
  BY <1>1, <1>2, <1>3
<1>5. InRunOrder(StableSort(s))
  <2> SUFFICES ASSUME NEW k \in 1 .. Cardinality(D), NEW l \in 1 .. Cardinality(D),
                      k < l
               PROVE  StableSort(s)[k].priority >= StableSort(s)[l].priority
    BY <1>2 DEF InRunOrder
  <2>1. <<Nth(D, R, k), Nth(D, R, l)>> \in R
    BY <1>1, NthFollowsOrder
  <2>2. \A i, j \in D : <<i, j>> \in R => s[i].priority >= s[j].priority
    BY DEF Precedence
  <2>3. QED
    BY <1>2, <2>1, <2>2
<1>6. Peaceful(s) => Peaceful(StableSort(s))
  BY <1>1, ListingKeepsPeace DEF StableSort
<1>7. QED
  BY <1>2, <1>4, <1>5, <1>6

(* Chain::remove_augment leaves entries of other owners only, in an order  *)
(* that is still the run order (chain.cpp:16-22).                          *)
THEOREM RemoveAugmentKeepsOrder ==
    ASSUME NEW S, \A e \in S : e.priority \in Int, NEW s \in Seq(S), NEW id
    PROVE  /\ RemoveAugment(s, id) \in Seq(S)
           /\ \A k \in DOMAIN RemoveAugment(s, id) : RemoveAugment(s, id)[k].id # id
           /\ InRunOrder(s) => InRunOrder(RemoveAugment(s, id))
           /\ Peaceful(s) => Peaceful(RemoveAugment(s, id))
<1> DEFINE K == {i \in DOMAIN s : s[i].id # id}
           R == Position(s)
           L == RemoveAugment(s, id)
<1>1. K \in SUBSET DOMAIN s
  OBVIOUS
<1>2. /\ StrictTotalOrder(R, K)
      /\ IsFiniteSet(K) /\ Cardinality(K) \in Nat
  BY <1>1, Orders, IndicesAreFinite
<1>3. L = Listing(s, K, R)
  BY DEF RemoveAugment, Selection
<1>4. /\ L \in Seq(S)
      /\ DOMAIN L = 1 .. Cardinality(K)
      /\ \A k \in 1 .. Cardinality(K) :
            Nth(K, R, k) \in K /\ L[k] = s[Nth(K, R, k)]
  <2> HIDE DEF K, L
  <2>1. QED
    BY <1>1, <1>2, <1>3, ListingSelects
<1>5. \A k \in DOMAIN L : L[k].id # id
  BY <1>4
<1>6. ASSUME InRunOrder(s) PROVE InRunOrder(L)
  <2> SUFFICES ASSUME NEW k \in 1 .. Cardinality(K), NEW l \in 1 .. Cardinality(K),
                      k < l
               PROVE  L[k].priority >= L[l].priority
    BY <1>4 DEF InRunOrder
  <2>1. <<Nth(K, R, k), Nth(K, R, l)>> \in R
    BY <1>2, NthFollowsOrder
  <2>2. Nth(K, R, k) < Nth(K, R, l)
    BY <2>1 DEF Position
  <2>3. QED
    BY <1>4, <1>6, <2>2 DEF InRunOrder
<1>7. Peaceful(s) => Peaceful(L)
  BY <1>1, <1>2, <1>3, ListingKeepsPeace
<1>8. QED
  BY <1>4, <1>5, <1>6, <1>7

(* An index that run_before or run_after may visit next.                   *)
LEMMA RemainingEntry ==
    ASSUME NEW S, NEW s \in Seq(S), NEW phase, NEW k \in Nat,
           Remaining(s, phase, k) # {}
    PROVE  LET i == First(Remaining(s, phase, k))
           IN  /\ i \in DOMAIN s /\ i \in Nat /\ i >= k
               /\ s[i] \in S /\ s[i].phase = phase
<1>1. Remaining(s, phase, k) \in SUBSET DOMAIN s
  BY DEF Remaining
<1>2. First(Remaining(s, phase, k)) \in Remaining(s, phase, k)
  BY <1>1, FirstIsLeast
<1>3. QED
  BY <1>2 DEF Remaining

(* The entry that was checked joins a peaceful chain peacefully.           *)
LEMMA AppendKeepsPeace ==
    ASSUME NEW S, NEW s \in Seq(S), NEW e \in S, Peaceful(s),
           \A i \in DOMAIN s : ~HardPair(e, s[i])
    PROVE  Peaceful(Append(s, e))
<1> DEFINE longer == Append(s, e)
<1>1. /\ DOMAIN s = 1 .. Len(s) /\ Len(s) \in Nat
      /\ DOMAIN longer = 1 .. Len(s) + 1
      /\ longer[Len(s) + 1] = e
      /\ \A i \in 1 .. Len(s) : longer[i] = s[i]
  OBVIOUS
<1> HIDE DEF longer
<1>2. ASSUME NEW i \in DOMAIN longer, NEW j \in DOMAIN longer, i # j
      PROVE  ~HardPair(longer[i], longer[j])
  <2>1. CASE i \in DOMAIN s /\ j \in DOMAIN s
    BY <1>1, <1>2, <2>1 DEF Peaceful
  <2>2. CASE i = Len(s) + 1 /\ j \in DOMAIN s
    BY <1>1, <2>2
  <2>3. CASE i \in DOMAIN s /\ j = Len(s) + 1
    BY <1>1, <2>3, HardPairIsSymmetric
  <2>4. QED
    BY <1>1, <1>2, <2>1, <2>2, <2>3
<1>3. QED
  BY <1>2 DEF Peaceful, longer

(* The place of a newcomer in a sorted chain, behind every entry of its    *)
(* own or a higher priority and ahead of all others, and a sequence with   *)
(* one element put in behind the first k.                                  *)
PlaceOf(s, e, k) ==
    /\ k \in 0 .. Len(s)
    /\ \A i \in 1 .. k : s[i].priority >= e.priority
    /\ \A i \in k + 1 .. Len(s) : s[i].priority < e.priority

PutIn(s, e, k) ==
    [i \in 1 .. Len(s) + 1 |->
        IF i <= k THEN s[i] ELSE IF i = k + 1 THEN e ELSE s[i - 1]]

(* A sorted chain has a place for every newcomer.                          *)
LEMMA PlaceExists ==
    ASSUME NEW S, \A e \in S : e.priority \in Int,
           NEW s \in Seq(S), InRunOrder(s), NEW e \in S
    PROVE  \E k : PlaceOf(s, e, k)
<1> DEFINE B == {i \in DOMAIN s : s[i].priority < e.priority}
<1>1. /\ DOMAIN s = 1 .. Len(s) /\ Len(s) \in Nat
      /\ \A i \in DOMAIN s : s[i].priority \in Int
      /\ e.priority \in Int
  OBVIOUS
<1>2. CASE B = {}
  <2>1. \A i \in 1 .. Len(s) : s[i].priority >= e.priority
    BY <1>1, <1>2
  <2>2. PlaceOf(s, e, Len(s))
    BY <1>1, <2>1 DEF PlaceOf
  <2>3. QED
    BY <2>2
<1>3. CASE B # {}
  <2> DEFINE m == First(B)
  <2>1. m \in B /\ \A j \in B : m <= j
    BY <1>3, FirstIsLeast
  <2>2. m \in DOMAIN s /\ s[m].priority < e.priority
    BY <2>1
  <2> HIDE DEF m
  <2>3. m - 1 \in 0 .. Len(s)
    BY <1>1, <2>2
  <2>4. \A i \in 1 .. m - 1 : s[i].priority >= e.priority
    BY <1>1, <2>1, <2>2
  <2>5. \A i \in (m - 1) + 1 .. Len(s) : s[i].priority < e.priority
    <3>1. \A i \in m .. Len(s) : i = m \/ s[m].priority >= s[i].priority
      BY <1>1, <2>2 DEF InRunOrder
    <3>2. \A i \in m .. Len(s) : s[i].priority < e.priority
      BY <1>1, <2>2, <3>1
    <3>3. QED
      BY <1>1, <2>2, <3>2
  <2>6. QED
    BY <2>3, <2>4, <2>5 DEF PlaceOf
<1>4. QED
  BY <1>2, <1>3

(* push_back and stable_sort put the newcomer in that place and leave the  *)
(* rest as it was (chain.cpp:12-14 and 24-29).                             *)
LEMMA SortPlaces ==
    ASSUME NEW S, \A e \in S : e.priority \in Int,
           NEW s \in Seq(S), InRunOrder(s), NEW e \in S, NEW k, PlaceOf(s, e, k)
    PROVE  StableSort(Append(s, e)) = PutIn(s, e, k)
<1> DEFINE n == Len(s)
           longer == Append(s, e)
           K == DOMAIN longer
           R == Precedence(longer)
           f == [i \in 1 .. n + 1 |-> IF i <= k THEN i ELSE IF i = k + 1 THEN n + 1 ELSE i - 1]
<1>1. /\ n \in Nat /\ k \in Nat /\ k <= n /\ DOMAIN s = 1 .. n
      /\ \A i \in 1 .. n : s[i] \in S /\ s[i].priority \in Int
      /\ \A i \in 1 .. k : s[i].priority >= e.priority
      /\ \A i \in k + 1 .. n : s[i].priority < e.priority
      /\ e.priority \in Int
  BY DEF PlaceOf
<1>2. /\ longer \in Seq(S) /\ Len(longer) = n + 1 /\ K = 1 .. n + 1
      /\ longer[n + 1] = e
      /\ \A i \in 1 .. n : longer[i] = s[i]
  OBVIOUS
<1>3. /\ StrictTotalOrder(R, K) /\ IsFiniteSet(K) /\ Cardinality(K) = n + 1
  BY <1>2, Orders, LengthCounts
<1>4. \A i \in 1 .. n + 1 : f[i] \in 1 .. n + 1
  BY <1>1
<1>5. \A i, j \in 1 .. n + 1 : i < j => <<f[i], f[j]>> \in R
  <2> SUFFICES ASSUME NEW i \in 1 .. n + 1, NEW j \in 1 .. n + 1, i < j
               PROVE  \/ longer[f[i]].priority > longer[f[j]].priority
                      \/ longer[f[i]].priority = longer[f[j]].priority /\ f[i] < f[j]
    BY <1>2, <1>4 DEF Precedence
  <2>1. CASE i = k + 1
    <3>1. f[i] = n + 1 /\ f[j] = j - 1 /\ j - 1 \in k + 1 .. n
      BY <1>1, <2>1
    <3>2. s[j - 1].priority < e.priority /\ s[j - 1].priority \in Int
      BY <1>1, <3>1
    <3>3. longer[f[j]] = s[j - 1] /\ longer[f[i]] = e
      BY <1>1, <1>2, <3>1
    <3>4. QED
      BY <3>2, <3>3
  <2>2. CASE j = k + 1
    <3>1. f[j] = n + 1 /\ f[i] = i /\ i \in 1 .. k /\ i \in 1 .. n
      BY <1>1, <2>2
    <3>2. s[i].priority >= e.priority /\ s[i].priority \in Int
      BY <1>1, <3>1
    <3>3. longer[f[i]] = s[i] /\ longer[f[j]] = e
      BY <1>2, <3>1
    <3>4. QED
      BY <1>1, <3>1, <3>2, <3>3
  <2>3. CASE i # k + 1 /\ j # k + 1
    <3>1. f[i] \in 1 .. n /\ f[j] \in 1 .. n /\ f[i] < f[j]
      BY <1>1, <2>3
    <3>2. s[f[i]].priority >= s[f[j]].priority
      BY <1>1, <3>1 DEF InRunOrder
    <3>3. longer[f[i]] = s[f[i]] /\ longer[f[j]] = s[f[j]]
      BY <1>2, <3>1
    <3>4. QED
      BY <1>1, <3>1, <3>2, <3>3
  <2>4. QED
    BY <2>1, <2>2, <2>3
<1>6. \A i \in 1 .. n + 1 : Nth(K, R, i) = f[i]
  <2>1. f \in [1 .. Cardinality(K) -> K]
    BY <1>2, <1>3, <1>4
  <2> HIDE DEF f, R, K
  <2>2. QED
    BY <1>3, <1>5, <2>1, IncreasingIsNth
<1>7. StableSort(longer) = [i \in 1 .. n + 1 |-> longer[f[i]]]
  BY <1>3, <1>6 DEF StableSort, Listing
<1>8. \A i \in 1 .. n + 1 : longer[f[i]] = IF i <= k THEN s[i]
                                           ELSE IF i = k + 1 THEN e ELSE s[i - 1]
  BY <1>1, <1>2
<1> HIDE DEF f
<1>9. QED
  BY <1>7, <1>8 DEF PutIn

(* The same with sequence operators.                                       *)
LEMMA SortInserts ==
    ASSUME NEW S, \A e \in S : e.priority \in Int,
           NEW s \in Seq(S), InRunOrder(s), NEW e \in S, NEW k, PlaceOf(s, e, k)
    PROVE  StableSort(Append(s, e))
              = SubSeq(s, 1, k) \o <<e>> \o SubSeq(s, k + 1, Len(s))
<1> DEFINE n == Len(s)
           placed == SubSeq(s, 1, k) \o <<e>> \o SubSeq(s, k + 1, n)
<1>1. /\ n \in Nat /\ k \in Nat /\ k <= n /\ DOMAIN s = 1 .. n
      /\ \A i \in 1 .. n : s[i] \in S
  BY DEF PlaceOf
<1>2. StableSort(Append(s, e)) = PutIn(s, e, k)
  BY SortPlaces
<1>3. /\ placed = [i \in 1 .. n + 1 |-> placed[i]]
      /\ \A i \in 1 .. n + 1 : placed[i] = IF i <= k THEN s[i]
                                           ELSE IF i = k + 1 THEN e ELSE s[i - 1]
  <2> DEFINE head == SubSeq(s, 1, k)
             tail == SubSeq(s, k + 1, n)
             front == Append(head, e)
  <2>1. placed = front \o tail
    <3>1. head \in Seq(S)
      BY <1>1, SubSeqProperties
    <3>2. front = head \o <<e>>
      BY <3>1, AppendIsConcat
    <3>3. QED
      BY <3>2
  <2>2. /\ head \in Seq(S) /\ Len(head) = k
        /\ \A i \in 1 .. k : head[i] = s[i]
    BY <1>1, SubSeqProperties
  <2>3. /\ tail \in Seq(S) /\ Len(tail) = n - k
        /\ \A i \in 1 .. n - k : tail[i] = s[k + i]
    <3>1. k + 1 \in Int /\ n \in Int /\ \A i \in k + 1 .. n : s[i] \in S
      BY <1>1
    <3>2. /\ tail \in Seq(S)
          /\ Len(tail) = IF k + 1 <= n THEN n - (k + 1) + 1 ELSE 0
          /\ \A i \in 1 .. n - (k + 1) + 1 : tail[i] = s[k + 1 + i - 1]
      BY <3>1, SubSeqProperties
    <3> HIDE DEF tail
    <3>3. n - (k + 1) + 1 = n - k
      BY <1>1
    <3>4. Len(tail) = n - k
      <4>1. CASE k + 1 <= n
        BY <3>2, <3>3, <4>1
      <4>2. CASE k = n
        <5>1. ~(k + 1 <= n) /\ n - k = 0
          BY <1>1, <4>2
        <5>2. QED
          BY <3>2, <5>1
      <4> HIDE DEF n
      <4>3. k + 1 <= n \/ k = n
        BY <1>1
      <4>4. QED
        BY <4>1, <4>2, <4>3
    <3>5. ASSUME NEW i \in 1 .. n - k PROVE tail[i] = s[k + i]
      <4>1. k + 1 + i - 1 = k + i
        BY <1>1
      <4>2. QED
        BY <3>2, <3>3, <4>1
    <3>6. QED
      BY <3>2, <3>4, <3>5
  <2> HIDE DEF n, head, tail, placed
  <2>4. /\ front \in Seq(S) /\ Len(front) = k + 1 /\ front[k + 1] = e
        /\ \A i \in 1 .. k : front[i] = s[i]
    <3>1. /\ front \in Seq(S) /\ Len(front) = k + 1
          /\ front[k + 1] = e /\ \A i \in 1 .. k : front[i] = head[i]
      BY <1>1, <2>2, AppendProperties
    <3> HIDE DEF front
    <3>2. QED
      BY <2>2, <3>1
  <2> HIDE DEF front
  <2>5. /\ placed \in Seq(S) /\ Len(placed) = n + 1
        /\ \A i \in 1 .. k + 1 : placed[i] = front[i]
        /\ \A i \in k + 2 .. n + 1 : placed[i] = tail[i - (k + 1)]
    <3>1. /\ k \in Nat /\ n \in Nat /\ k <= n /\ k + 1 + (n - k) = n + 1
          /\ tail \in Seq(S) /\ front \in Seq(S)
          /\ Len(front) = k + 1 /\ Len(tail) = n - k
      BY <1>1, <2>3, <2>4
    <3>2. /\ placed \in Seq(S) /\ Len(placed) = n + 1
          /\ \A i \in 1 .. n + 1 : placed[i] = IF i <= k + 1 THEN front[i]
                                                ELSE tail[i - (k + 1)]
      BY <2>1, <3>1, ConcatProperties
    <3>3. QED
      BY <3>1, <3>2
  <2>6. placed = [i \in 1 .. n + 1 |-> placed[i]]
    BY <2>5
  <2>7. \A i \in 1 .. n + 1 : placed[i] = IF i <= k THEN s[i]
                                          ELSE IF i = k + 1 THEN e ELSE s[i - 1]
    <3>1. ASSUME NEW i \in k + 2 .. n + 1 PROVE placed[i] = s[i - 1]
      <4>1. i - (k + 1) \in 1 .. n - k /\ k + (i - (k + 1)) = i - 1
        BY <1>1
      <4>2. QED
        BY <2>3, <2>5, <4>1
    <3>2. QED
      BY <1>1, <2>4, <2>5, <3>1
  <2>8. QED
    BY <2>6, <2>7
<1> HIDE DEF placed
<1>4. PutIn(s, e, k) = [i \in 1 .. n + 1 |-> placed[i]]
  BY <1>3 DEF PutIn
<1>5. QED
  BY <1>2, <1>3, <1>4 DEF placed

=============================================================================
