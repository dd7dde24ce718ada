-------------------------- MODULE ChainHistoryProofs --------------------------
(***************************************************************************)
(* Theorems of ChainHistory, for any catalogue and any number of           *)
(* registrations.                                                          *)
(***************************************************************************)
EXTENDS ChainHistory, ChainTheorems

ChainInv == chain \in Seq(Catalog) /\ Peaceful(chain)

(* A newcomer that conflict_check lets in joins the chain peacefully.      *)
LEMMA AdmittedKeepsPeace ==
    ASSUME NEW S, NEW s \in Seq(S), NEW e \in S, Peaceful(s),
           ConflictCheck(s, e) # "hard"
    PROVE  Append(s, e) \in Seq(S) /\ Peaceful(Append(s, e))
<1>1. \A i \in DOMAIN s : ~HardPair(e, s[i])
  BY DEF ConflictCheck
<1>2. QED
  BY <1>1, AppendKeepsPeace

(* Every chain that registrations and removals can build is one in which   *)
(* no pair is in hard conflict.                                            *)
LEMMA ChainInvHolds == Spec => []ChainInv
<1>1. Init => ChainInv
  BY DEF Init, ChainInv, Peaceful
<1>2. ASSUME ChainInv, [Next]_vars PROVE ChainInv'
  <2>1. ASSUME NEW e \in Catalog, AddHook(e) PROVE ChainInv'
    <3>1. Append(chain, e) \in Seq(Catalog) /\ Peaceful(Append(chain, e))
      BY <1>2, <2>1, AdmittedKeepsPeace DEF AddHook, ChainInv
    <3>2. StableSort(Append(chain, e)) \in Seq(Catalog)
             /\ Peaceful(StableSort(Append(chain, e)))
      BY <3>1, PrioritiesAreInts, StableSortSorts
    <3>3. QED
      BY <2>1, <3>2 DEF AddHook, ChainInv
  <2>2. ASSUME NEW id \in Ids, RemoveHook(id) PROVE ChainInv'
    BY <1>2, <2>2, PrioritiesAreInts, RemoveAugmentKeepsOrder DEF RemoveHook, ChainInv
  <2>3. CASE UNCHANGED vars
    BY <1>2, <2>3 DEF vars, ChainInv
  <2>4. QED
    BY <1>2, <2>1, <2>2, <2>3 DEF Next
<1>3. QED
  BY <1>1, <1>2, PTL DEF Spec

(* Whether two hooks can live together, and whether the log warns about    *)
(* them, does not depend on which of them was registered first             *)
(* (conflict.cpp:27-104).                                                  *)
THEOREM OrderOfAdmissionIsIrrelevant ==
    Spec => []AdmissionIgnoresOrder
<1>1. ASSUME ChainInv PROVE AdmissionIgnoresOrder
  <2> SUFFICES ASSUME NEW i \in DOMAIN chain, NEW j \in DOMAIN chain, i # j
               PROVE  /\ ConflictCheck(<<chain[i]>>, chain[j]) # "hard"
                      /\ ConflictCheck(<<chain[i]>>, chain[j])
                            = ConflictCheck(<<chain[j]>>, chain[i])
    BY DEF AdmissionIgnoresOrder
  <2> DEFINE d == chain[i]
             e == chain[j]
  <2>1. ~HardPair(e, d) /\ ~HardPair(d, e)
    BY <1>1 DEF ChainInv, Peaceful
  <2>2. OrderPair(e, d) <=> OrderPair(d, e)
    BY DEF OrderPair, Intersects
  <2> HIDE DEF d, e
  <2>3. /\ ConflictCheck(<<d>>, e) = IF OrderPair(e, d) THEN "order" ELSE "none"
        /\ ConflictCheck(<<e>>, d) = IF OrderPair(d, e) THEN "order" ELSE "none"
    <3>1. \A x : DOMAIN <<x>> = {1} /\ <<x>>[1] = x
      OBVIOUS
    <3>2. QED
      BY <2>1, <3>1 DEF ConflictCheck
  <2>4. QED
    BY <2>2, <2>3 DEF d, e
<1>2. QED
  BY <1>1, ChainInvHolds, PTL

-----------------------------------------------------------------------------
(* Who came when, written beside a chain: st[i] is the stamp of the i-th   *)
(* entry, and log what a reader of the log would keep.                     *)
Aged(c, log, st) ==
    /\ \A i, j \in DOMAIN c : i < j =>
          \/ c[i].priority > c[j].priority
          \/ c[i].priority = c[j].priority /\ st[i] < st[j]
    /\ log = {[entry |-> c[i], stamp |-> st[i]] : i \in DOMAIN c}

(* What the log knows and the chain has forgotten: without the stamps the  *)
(* place of a newcomer among its equals cannot be told from theirs.        *)
AgeInv ==
    /\ chain \in Seq(Catalog)
    /\ clock \in Nat \ {0}
    /\ \E st \in [DOMAIN chain -> 1 .. clock - 1] : Aged(chain, admitted, st)

(* A chain with stamps is in run order.                                    *)
LEMMA AgedIsSorted ==
    ASSUME NEW c \in Seq(Catalog), NEW log, NEW st, Aged(c, log, st)
    PROVE  InRunOrder(c)
<1>1. \A i \in DOMAIN c : c[i].priority \in Int
  BY PrioritiesAreInts
<1>2. QED
  BY <1>1 DEF Aged, InRunOrder

(* The newcomer gets the present stamp and stands behind its equals.       *)
LEMMA AddAges ==
    ASSUME AgeInv, NEW e \in Catalog, AddHook(e) PROVE AgeInv'
<1>1. PICK st \in [DOMAIN chain -> 1 .. clock - 1] : Aged(chain, admitted, st)
  BY DEF AgeInv
<1> DEFINE n == Len(chain)
<1>2. /\ chain \in Seq(Catalog) /\ clock \in Nat \ {0} /\ clock' = clock + 1
      /\ InRunOrder(chain)
      /\ n \in Nat /\ DOMAIN chain = 1 .. n
      /\ e.priority \in Int /\ \A i \in 1 .. n : chain[i].priority \in Int
  BY <1>1, AgedIsSorted, PrioritiesAreInts DEF AgeInv, AddHook
<1>3. PICK k : PlaceOf(chain, e, k)
  BY <1>2, PrioritiesAreInts, PlaceExists
<1>4. /\ k \in 0 .. n
      /\ \A i \in 1 .. k : chain[i].priority >= e.priority
      /\ \A i \in k + 1 .. n : chain[i].priority < e.priority
  BY <1>3 DEF PlaceOf
<1>5. /\ chain' \in Seq(Catalog) /\ DOMAIN chain' = 1 .. n + 1
      /\ \A i \in 1 .. n + 1 : chain'[i] = IF i <= k THEN chain[i]
                                           ELSE IF i = k + 1 THEN e ELSE chain[i - 1]
  <2>1. chain' = PutIn(chain, e, k)
    BY <1>2, <1>3, PrioritiesAreInts, SortPlaces DEF AddHook
  <2>2. chain' \in Seq(Catalog)
    <3>1. Append(chain, e) \in Seq(Catalog)
      BY <1>2
    <3>2. QED
      BY <3>1, PrioritiesAreInts, StableSortSorts DEF AddHook
  <2>3. QED
    BY <2>1, <2>2 DEF PutIn
<1> HIDE DEF n
<1> DEFINE new == [i \in 1 .. n + 1 |-> IF i <= k THEN st[i]
                                        ELSE IF i = k + 1 THEN clock ELSE st[i - 1]]
<1>6. \A i \in 1 .. n : st[i] \in 1 .. clock - 1
  BY <1>2
<1>7. new \in [DOMAIN chain' -> 1 .. clock' - 1]
  <2>1. \A i \in 1 .. n + 1 : new[i] \in 1 .. clock
    BY <1>2, <1>4, <1>6
  <2>2. clock' - 1 = clock
    BY <1>2
  <2> HIDE DEF new
  <2>3. QED
    BY <1>5, <2>1, <2>2 DEF new
<1>8. ASSUME NEW i \in 1 .. n + 1, NEW j \in 1 .. n + 1, i < j
      PROVE  \/ chain'[i].priority > chain'[j].priority
             \/ chain'[i].priority = chain'[j].priority /\ new[i] < new[j]
  <2>1. CASE i = k + 1
    <3>1. chain'[i] = e /\ chain'[j] = chain[j - 1] /\ j - 1 \in k + 1 .. n
      BY <1>2, <1>4, <1>5, <1>8, <2>1
    <3>2. QED
      BY <1>2, <1>4, <3>1
  <2>2. CASE j = k + 1
    <3>1. /\ i \in 1 .. k /\ i \in 1 .. n /\ chain'[i] = chain[i] /\ chain'[j] = e
          /\ new[i] = st[i] /\ new[j] = clock
      BY <1>2, <1>4, <1>5, <1>8, <2>2
    <3>2. chain[i].priority >= e.priority /\ st[i] < clock
      BY <1>2, <1>4, <1>6, <3>1
    <3>3. QED
      BY <1>2, <3>1, <3>2
  <2>3. CASE i # k + 1 /\ j # k + 1
    <3> DEFINE old(m) == IF m <= k THEN m ELSE m - 1
    <3>1. /\ old(i) \in 1 .. n /\ old(j) \in 1 .. n /\ old(i) < old(j)
          /\ chain'[i] = chain[old(i)] /\ chain'[j] = chain[old(j)]
          /\ new[i] = st[old(i)] /\ new[j] = st[old(j)]
      BY <1>2, <1>4, <1>5, <1>8, <2>3
    <3> HIDE DEF old, new
    <3>2. QED
      BY <1>1, <1>2, <3>1 DEF Aged
  <2>4. QED
    BY <2>1, <2>2, <2>3
<1>9. admitted' = {[entry |-> chain'[i], stamp |-> new[i]] : i \in 1 .. n + 1}
  <2> DEFINE Old(i) == [entry |-> chain[i], stamp |-> st[i]]
             New(i) == [entry |-> chain'[i], stamp |-> new[i]]
  <2>1. admitted' = {Old(i) : i \in 1 .. n} \cup {[entry |-> e, stamp |-> clock]}
    BY <1>1, <1>2 DEF AddHook, Aged
  <2>2. /\ k + 1 \in 1 .. n + 1 /\ New(k + 1) = [entry |-> e, stamp |-> clock]
    BY <1>2, <1>4, <1>5
  <2>3. /\ \A i \in 1 .. k : i \in 1 .. n + 1 /\ New(i) = Old(i)
        /\ \A i \in k + 1 .. n : i + 1 \in 1 .. n + 1 /\ New(i + 1) = Old(i)
        /\ \A i \in k + 2 .. n + 1 : i - 1 \in 1 .. n /\ New(i) = Old(i - 1)
    BY <1>2, <1>4, <1>5
  <2>4. /\ \A i \in 1 .. n : i \in 1 .. k \/ i \in k + 1 .. n
        /\ \A i \in 1 .. n + 1 : i \in 1 .. k \/ i = k + 1 \/ i \in k + 2 .. n + 1
        /\ 1 .. k \subseteq 1 .. n
    BY <1>2, <1>4
  <2> HIDE DEF Old, New
  <2>5. admitted' = {New(i) : i \in 1 .. n + 1}
    <3>1. \A i \in 1 .. n : \E j \in 1 .. n + 1 : Old(i) = New(j)
      BY <2>3, <2>4
    <3>2. \A j \in 1 .. n + 1 : New(j) = New(k + 1) \/ \E i \in 1 .. n : New(j) = Old(i)
      BY <2>3, <2>4
    <3>3. QED
      BY <2>1, <2>2, <3>1, <3>2
  <2>6. QED
    BY <2>5 DEF New
<1> HIDE DEF new
<1>10. Aged(chain', admitted', new)
  BY <1>5, <1>8, <1>9 DEF Aged
<1>11. clock' \in Nat \ {0}
  BY <1>2
<1>12. QED
  BY <1>5, <1>7, <1>10, <1>11 DEF AgeInv

(* What stays keeps its stamp and its place before and behind the others.  *)
LEMMA RemoveAges ==
    ASSUME AgeInv, NEW id \in Ids, RemoveHook(id) PROVE AgeInv'
<1>1. PICK st \in [DOMAIN chain -> 1 .. clock - 1] : Aged(chain, admitted, st)
  BY DEF AgeInv
<1> DEFINE K == {i \in DOMAIN chain : chain[i].id # id}
           R == Position(chain)
           n == Cardinality(K)
           old(k) == Nth(K, R, k)
           new == [k \in 1 .. n |-> st[old(k)]]
<1>2. /\ chain \in Seq(Catalog) /\ clock \in Nat \ {0} /\ clock' = clock
      /\ K \in SUBSET DOMAIN chain
      /\ StrictTotalOrder(R, K) /\ IsFiniteSet(K)
      /\ \A i, j \in K : <<i, j>> \in R <=> i < j
  <2>1. /\ chain \in Seq(Catalog) /\ clock \in Nat \ {0} /\ clock' = clock
        /\ K \in SUBSET DOMAIN chain
    BY DEF AgeInv, RemoveHook
  <2>2. \A i, j \in K : <<i, j>> \in R <=> i < j
    BY <2>1 DEF Position
  <2> HIDE DEF K
  <2>3. StrictTotalOrder(R, K) /\ IsFiniteSet(K)
    BY <2>1, PrioritiesAreInts, Orders, IndicesAreFinite
  <2>4. QED
    BY <2>1, <2>2, <2>3
<1>3. /\ chain' = Listing(chain, K, R)
      /\ admitted' = {a \in admitted : a.entry.id # id}
  BY DEF RemoveHook, RemoveAugment, Selection
<1>4. \A i \in DOMAIN chain : i \in K <=> chain[i].id # id
  OBVIOUS
<1> HIDE DEF K, R
<1>5. /\ chain' \in Seq(Catalog) /\ DOMAIN chain' = 1 .. n
      /\ \A k \in 1 .. n : old(k) \in K /\ chain'[k] = chain[old(k)]
  BY <1>2, <1>3, ListingSelects
<1>6. \A k, l \in 1 .. n : k < l => old(k) < old(l)
  BY <1>2, <1>5, NthFollowsOrder
<1>7. \A i \in K : \E k \in 1 .. n : old(k) = i
  BY <1>2, NthIsOnto
<1> HIDE DEF n, old
<1>8. new \in [DOMAIN chain' -> 1 .. clock' - 1]
  BY <1>2, <1>5
<1>9. ASSUME NEW k \in 1 .. n, NEW l \in 1 .. n, k < l
      PROVE  \/ chain'[k].priority > chain'[l].priority
             \/ chain'[k].priority = chain'[l].priority /\ new[k] < new[l]
  <2>1. /\ old(k) \in DOMAIN chain /\ old(l) \in DOMAIN chain /\ old(k) < old(l)
        /\ chain'[k] = chain[old(k)] /\ chain'[l] = chain[old(l)]
        /\ new[k] = st[old(k)] /\ new[l] = st[old(l)]
    BY <1>2, <1>5, <1>6, <1>9
  <2> HIDE DEF new
  <2>2. QED
    BY <1>1, <2>1 DEF Aged
<1>10. admitted' = {[entry |-> chain'[k], stamp |-> new[k]] : k \in 1 .. n}
  <2> DEFINE Old(i) == [entry |-> chain[i], stamp |-> st[i]]
             New(k) == [entry |-> chain'[k], stamp |-> new[k]]
  <2>1. admitted = {Old(i) : i \in DOMAIN chain}
    BY <1>1 DEF Aged
  <2>2. \A k \in 1 .. n : New(k) = Old(old(k))
    BY <1>5
  <2>3. \A i \in DOMAIN chain : Old(i).entry.id # id <=> i \in K
    BY <1>4
  <2> HIDE DEF Old, New
  <2>4. \A k \in 1 .. n : old(k) \in DOMAIN chain /\ old(k) \in K
    BY <1>2, <1>5
  <2>5. admitted' = {New(k) : k \in 1 .. n}
    <3>1. \A a \in admitted' : \E k \in 1 .. n : a = New(k)
      BY <1>3, <1>7, <2>1, <2>2, <2>3
    <3>2. \A k \in 1 .. n : New(k) \in admitted'
      BY <1>3, <2>1, <2>2, <2>3, <2>4
    <3>3. QED
      BY <3>1, <3>2
  <2>6. QED
    BY <2>5 DEF New
<1> HIDE DEF new
<1>11. Aged(chain', admitted', new)
  BY <1>5, <1>9, <1>10 DEF Aged
<1>12. QED
  BY <1>2, <1>5, <1>8, <1>11 DEF AgeInv

LEMMA AgeInvHolds == Spec => []AgeInv
<1>1. Init => AgeInv
  <2> SUFFICES ASSUME Init PROVE AgeInv
    OBVIOUS
  <2>1. chain = <<>> /\ admitted = {} /\ clock = 1 /\ DOMAIN chain = {}
    BY DEF Init
  <2>2. chain \in [DOMAIN chain -> 1 .. clock - 1] /\ Aged(chain, admitted, chain)
    BY <2>1 DEF Aged
  <2>3. chain \in Seq(Catalog) /\ clock \in Nat \ {0}
    BY <2>1
  <2>4. \E st \in [DOMAIN chain -> 1 .. clock - 1] : Aged(chain, admitted, st)
    BY <2>2, Zenon
  <2>5. QED
    BY <2>3, <2>4, Zenon DEF AgeInv
<1>2. ASSUME AgeInv, [Next]_vars PROVE AgeInv'
  <2>1. CASE UNCHANGED vars
    BY <1>2, <2>1 DEF AgeInv, vars
  <2>2. QED
    BY <1>2, <2>1, AddAges, RemoveAges DEF Next
<1>3. QED
  BY <1>1, <1>2, PTL DEF Spec

(* Hooks run by descending priority and, at one priority, in the order in  *)
(* which they were registered, however registrations and removals were     *)
(* mixed (chain.cpp:24-29).                                                *)
THEOREM RunOrderFollowsAge == Spec => []RunOrderIsPriorityThenAge
<1>1. ASSUME AgeInv PROVE RunOrderIsPriorityThenAge
  <2>1. PICK st \in [DOMAIN chain -> 1 .. clock - 1] : Aged(chain, admitted, st)
    BY <1>1 DEF AgeInv
  <2> DEFINE n == Len(chain)
             at == [i \in 1 .. n |-> [entry |-> chain[i], stamp |-> st[i]]]
  <2>2. /\ chain \in Seq(Catalog) /\ n \in Nat /\ DOMAIN chain = 1 .. n
        /\ \A i \in 1 .. n : chain[i].priority \in Int /\ st[i] \in Int
    BY <1>1, PrioritiesAreInts DEF AgeInv
  <2> HIDE DEF n
  <2>3. /\ \A i \in 1 .. n : at[i].entry = chain[i] /\ at[i].stamp = st[i]
        /\ admitted = {at[i] : i \in 1 .. n}
    BY <2>1, <2>2 DEF Aged
  <2>4. \A i, j \in 1 .. n : RunsBefore(at[i], at[j]) <=> i < j
    <3> SUFFICES ASSUME NEW i \in 1 .. n, NEW j \in 1 .. n
                 PROVE  RunsBefore(at[i], at[j]) <=> i < j
      OBVIOUS
    <3> HIDE DEF at
    <3>1. /\ i < j => \/ chain[i].priority > chain[j].priority
                      \/ chain[i].priority = chain[j].priority /\ st[i] < st[j]
          /\ j < i => \/ chain[j].priority > chain[i].priority
                      \/ chain[i].priority = chain[j].priority /\ st[j] < st[i]
      BY <2>1, <2>2 DEF Aged
    <3>2. i \in Int /\ j \in Int
      BY <2>2
    <3>3. QED
      BY <2>2, <2>3, <3>1, <3>2 DEF RunsBefore
  <2>5. \A i, j \in 1 .. n : at[i] = at[j] => i = j
    <3> HIDE DEF at
    <3>1. \A i, j \in 1 .. n : i = j \/ i < j \/ j < i
      BY <2>2
    <3>2. \A i \in 1 .. n : ~(i < i)
      BY <2>2
    <3>3. QED
      BY <2>4, <3>1, <3>2
  <2>6. at \in [1 .. n -> admitted]
    BY <2>3
  <2> HIDE DEF at
  <2>7. Cardinality(admitted) = n
    <3>1. at \in Bijection(1 .. n, admitted)
      BY <2>3, <2>5, <2>6 DEF Bijection, Injection, Surjection, IsInjective
    <3>2. QED
      BY <2>2, <3>1, FS_CountingElements DEF ExistsBijection
  <2>8. ASSUME NEW i \in 1 .. n
        PROVE  Cardinality({b \in admitted : RunsBefore(b, at[i])}) = i - 1
    <3> DEFINE ahead == {b \in admitted : RunsBefore(b, at[i])}
               g == [j \in 1 .. i - 1 |-> at[j]]
    <3>1. i - 1 \in Nat /\ \A j \in 1 .. n : j \in 1 .. i - 1 <=> j < i
      BY <2>2
    <3>2. 1 .. i - 1 \subseteq 1 .. n
      BY <2>2
    <3>3. ahead = {at[j] : j \in 1 .. i - 1}
      BY <2>3, <2>4, <3>1, <3>2
    <3> HIDE DEF ahead
    <3>4. g \in Bijection(1 .. i - 1, ahead)
      BY <2>5, <3>2, <3>3 DEF Bijection, Injection, Surjection, IsInjective
    <3> HIDE DEF g
    <3>5. QED
      BY <3>1, <3>4, FS_CountingElements DEF ExistsBijection, ahead
  <2>9. ASSUME NEW a \in admitted
        PROVE  chain[1 + Cardinality({b \in admitted : RunsBefore(b, a)})] = a.entry
    <3>1. PICK i \in 1 .. n : a = at[i]
      BY <2>3
    <3>2. 1 + (i - 1) = i
      BY <2>2
    <3>3. QED
      BY <2>3, <2>8, <3>1, <3>2
  <2>10. QED
    BY <2>7, <2>9 DEF RunOrderIsPriorityThenAge, n
<1>2. QED
  BY <1>1, AgeInvHolds, PTL

=============================================================================
