------------------------------ MODULE PackProofs ------------------------------
(***************************************************************************)
(* Lemmas about the packed manifest: what pack has appended stays where it *)
(* is, and what the Reader finds there is what was appended.               *)
(***************************************************************************)
EXTENDS Pack, ListingTheorems

LEMMA MinIsFirst ==
    ASSUME NEW S, NEW s \in Seq(S), NEW K \in SUBSET DOMAIN s, K # {}
    PROVE  Min(K) \in K
<1>1. First(K) \in K /\ \A j \in K : First(K) <= j
  BY FirstIsLeast
<1>2. QED
  BY <1>1 DEF Min

LEMMA FlattenLength ==
    ASSUME NEW S, NEW seqs \in Seq(Seq(S)), NEW c \in Nat,
           \A i \in 1 .. Len(seqs) : Len(seqs[i]) = c
    PROVE  FlattenSeq(seqs) \in Seq(S) /\ Len(FlattenSeq(seqs)) = Len(seqs) * c
<1>1. CASE Len(seqs) = 0
  <2>1. FlattenSeq(seqs) = seqs
    BY <1>1 DEF FlattenSeq
  <2>2. Len(seqs) * c = 0
    BY <1>1
  <2>3. QED
    BY <1>1, <2>1, <2>2, FlattenTyped
<1>2. CASE Len(seqs) # 0
  <2> DEFINE n == Len(seqs)
  <2>1. PICK h : PutTogether(h, seqs) /\ \A i \in 1 .. n : h[i] \in Seq(S)
    BY <1>2, FlattenRuns
  <2>2. n \in Nat /\ n \in 1 .. n /\ 1 \in 1 .. n /\ \A i \in 1 .. n : seqs[i] \in Seq(S)
    BY <1>2
  <2>3. h[1] = seqs[1] /\ (\A i \in 1 .. n : i # 1 => h[i] = h[i - 1] \o seqs[i])
        /\ FlattenSeq(seqs) = h[n]
    BY <2>1 DEF PutTogether
  <2> HIDE DEF n
  <2> DEFINE P == {i \in 0 .. n - 1 : Len(h[i + 1]) = (i + 1) * c}
  <2>4. 0 \in P
    <3>1. Len(h[1]) = c /\ 1 * c = c /\ 0 + 1 = 1 /\ 0 \in 0 .. n - 1
      BY <2>2, <2>3 DEF n
    <3>2. QED
      BY <3>1
  <2>5. ASSUME NEW i \in 0 .. (n - 1) - 1, i \in P PROVE i + 1 \in P
    <3> DEFINE j == i + 2
    <3>1. j \in 1 .. n /\ j # 1 /\ j - 1 = i + 1 /\ i + 1 \in 1 .. n /\ i + 1 \in 0 .. n - 1
          /\ i + 1 + 1 = j /\ i \in Nat
      BY <2>2
    <3>2. Len(h[i + 1]) = (i + 1) * c
      BY <2>5
    <3> HIDE DEF j
    <3>3. h[j] = h[i + 1] \o seqs[j] /\ h[i + 1] \in Seq(S) /\ seqs[j] \in Seq(S) /\ Len(seqs[j]) = c
      BY <2>1, <2>2, <2>3, <3>1 DEF n
    <3>4. Len(h[j]) = (i + 1) * c + c
      <4>1. \A s, t \in Seq(S) : Len(s \o t) = Len(s) + Len(t)
        OBVIOUS
      <4>2. QED
        BY <3>2, <3>3, <4>1, Zenon
    <3>5. (i + 1) * c + c = (i + 1 + 1) * c
      BY <3>1
    <3>6. QED
      BY <3>1, <3>4, <3>5
  <2>6. P = 0 .. n - 1
    <3>1. P \in SUBSET (0 .. n - 1) /\ n - 1 \in Nat
      BY <2>2
    <3> HIDE DEF P
    <3>2. QED
      BY <2>4, <2>5, <3>1, UpTo
  <2>7. n - 1 \in P /\ n - 1 + 1 = n
    <3> HIDE DEF P
    <3>1. QED
      BY <2>2, <2>6
  <2>8. QED
    BY <2>1, <2>2, <2>3, <2>7 DEF n
<1>3. QED
  BY <1>1, <1>2

LEMMA AlphabeticalTakesAll ==
    ASSUME NEW names \in SUBSET DOMAIN Rank, IsFiniteSet(names)
    PROVE  /\ DOMAIN Alphabetical(names) = 1 .. Cardinality(names) /\ Cardinality(names) \in Nat
           /\ \A k \in DOMAIN Alphabetical(names) : Alphabetical(names)[k] \in names
           /\ \A n \in names : \E k \in DOMAIN Alphabetical(names) : Alphabetical(names)[k] = n
           /\ \A k, l \in DOMAIN Alphabetical(names) :
                 Alphabetical(names)[k] = Alphabetical(names)[l] => k = l
<1> DEFINE R == ByText(names)
           a == Alphabetical(names)
<1>1. \A n \in names : Rank[n] \in Int /\ \A m \in names : Rank[m] = Rank[n] => m = n
  BY TextIsOrdered
<1>2. StrictTotalOrder(R, names)
  BY <1>1 DEF ByText, StrictTotalOrder
<1>3. Cardinality(names) \in Nat
  BY FS_CardinalityType
<1> HIDE DEF R
<1>4. a = [k \in 1 .. Cardinality(names) |-> Nth(names, R, k)]
  BY DEF Alphabetical, R
<1>5. \A k \in DOMAIN a : k \in 1 .. Cardinality(names) /\ a[k] = Nth(names, R, k)
  BY <1>4
<1>6. \A k \in DOMAIN a : a[k] \in names
  BY <1>2, <1>5, Ranks
<1>7. \A n \in names : \E k \in DOMAIN a : a[k] = n
  BY <1>2, <1>4, NthIsOnto
<1>8. ASSUME NEW k \in DOMAIN a, NEW l \in DOMAIN a, a[k] = a[l] PROVE k = l
  <2> DEFINE n == Cardinality(names)
  <2>1. k \in 1 .. n /\ l \in 1 .. n /\ Nth(names, R, k) = Nth(names, R, l)
    BY <1>5, <1>8
  <2> HIDE DEF a, n
  <2>2. ~(k < l)
    BY <1>2, <2>1, NthFollowsOrder DEF n
  <2>3. ~(l < k)
    BY <1>2, <2>1, NthFollowsOrder DEF n
  <2>4. QED
    BY <1>3, <2>1, <2>2, <2>3 DEF n
<1>9. DOMAIN a = 1 .. Cardinality(names)
  BY <1>4
<1> HIDE DEF a
<1>10. QED
  BY <1>3, <1>6, <1>7, <1>8, <1>9 DEF a

-----------------------------------------------------------------------------
(* Words                                                                   *)

(* The state of pack, when what is packed is in V.                         *)
Slots == [name : Nat, at : Nat]
Blobs(V) ==
    [table : Seq(V), payloads : Seq(V), entries : [SectionNames -> Seq(Slots)]]

(* What has been appended stays where it is.                               *)
Begins(s, t) == Len(s) <= Len(t) /\ \A i \in 1 .. Len(s) : t[i] = s[i]
Grows(st, later) == Begins(st.table, later.table) /\ Begins(st.payloads, later.payloads)

(* A word from which the Reader gets the value.                            *)
Reads(blob, type, word, value) ==
    IF type = "s" THEN word \in 0 .. Len(blob.table) /\ StringAt(blob, word) = value
    ELSE word = value

LEMMA GrowsOn ==
    ASSUME NEW V, NEW a \in Blobs(V), NEW b \in Blobs(V), NEW c \in Blobs(V),
           Grows(a, b), Grows(b, c)
    PROVE  Grows(a, c)
<1>1. ASSUME NEW s \in Seq(V), NEW t \in Seq(V), NEW u \in Seq(V), Begins(s, t), Begins(t, u)
      PROVE  Begins(s, u)
  BY <1>1 DEF Begins
<1>2. /\ a.table \in Seq(V) /\ b.table \in Seq(V) /\ c.table \in Seq(V)
      /\ a.payloads \in Seq(V) /\ b.payloads \in Seq(V) /\ c.payloads \in Seq(V)
  BY DEF Blobs
<1>3. QED
  BY <1>1, <1>2 DEF Grows

LEMMA GrowsFrom ==
    ASSUME NEW V, NEW a \in Blobs(V)
    PROVE  Grows(a, a)
<1>1. a.table \in Seq(V) /\ a.payloads \in Seq(V)
  BY DEF Blobs
<1>2. QED
  BY <1>1 DEF Grows, Begins

LEMMA WordsStay ==
    ASSUME NEW V, NEW a \in Blobs(V), NEW b \in Blobs(V), Grows(a, b),
           NEW type, NEW word, NEW value, Reads(a, type, word, value)
    PROVE  Reads(b, type, word, value)
<1>1. a.table \in Seq(V) /\ b.table \in Seq(V) /\ Begins(a.table, b.table)
  BY DEF Blobs, Grows
<1>2. QED
  BY <1>1 DEF Reads, StringAt, Begins

(* _Str.add: the string is at its place, and no other has moved.           *)
LEMMA InternAdds ==
    ASSUME NEW V, NEW table \in Seq(V), NEW s \in V
    PROVE  LET later == Intern(table, s)
               place == Place(later, s)
           IN  /\ later \in Seq(V) /\ Begins(table, later)
               /\ place \in 0 .. Len(later)
               /\ place = 0 => s = None
               /\ place # 0 => later[place] = s
<1> DEFINE later == Intern(table, s)
           K == {i \in 1 .. Len(later) : later[i] = s}
<1>1. CASE s = None
  BY <1>1 DEF Intern, Place, Begins
<1>2. CASE s # None
  <2>1. later \in Seq(V) /\ Begins(table, later)
    BY DEF Intern, Begins
  <2>2. K # {}
    <3>1. CASE Contains(table, s)
      BY <1>2, <3>1 DEF Intern, Contains
    <3>2. CASE ~Contains(table, s)
      <4>1. later = Append(table, s)
        BY <1>2, <3>2 DEF Intern
      <4>2. later[Len(table) + 1] = s /\ Len(table) + 1 \in 1 .. Len(later)
        BY <4>1
      <4>3. QED
        BY <4>2
    <3>3. QED
      BY <3>1, <3>2
  <2>3. Place(later, s) = IF K # {} THEN Min(K) ELSE 0
    BY <1>2 DEF Place, SelectInSeq
  <2>4. K \in SUBSET DOMAIN later /\ DOMAIN later = 1 .. Len(later)
    BY <2>1
  <2>5. Min(K) \in K
    <3> HIDE DEF K, later
    <3>1. QED
      BY <2>1, <2>2, <2>4, MinIsFirst
  <2> DEFINE p == Place(later, s)
  <2>6. p \in K
    BY <2>2, <2>3, <2>5
  <2>7. p \in 1 .. Len(later) /\ later[p] = s
    BY <2>6
  <2> HIDE DEF p, later, K
  <2>8. p \in 0 .. Len(later) /\ p # 0
    BY <2>7, <2>1
  <2>9. QED
    BY <2>1, <2>7, <2>8 DEF p, later
<1>3. QED
  BY <1>1, <1>2

LEMMA PackWordAdds ==
    ASSUME NEW V, Nat \in SUBSET V, NEW st \in Blobs(V), NEW type, NEW value \in V
    PROVE  LET later == PackWord(st, type, value)
               n == Len(st.payloads) + 1
           IN  /\ later \in Blobs(V) /\ Grows(st, later) /\ later.entries = st.entries
               /\ Len(later.payloads) = n /\ Reads(later, type, later.payloads[n], value)
<1> DEFINE table == IF type = "s" THEN Intern(st.table, value) ELSE st.table
           word == IF type = "s" THEN Place(table, value) ELSE value
           later == PackWord(st, type, value)
           n == Len(st.payloads) + 1
<1>1. st.table \in Seq(V) /\ st.payloads \in Seq(V) /\ st.entries \in [SectionNames -> Seq(Slots)]
      /\ st = [table |-> st.table, payloads |-> st.payloads, entries |-> st.entries]
  BY DEF Blobs
<1>2. /\ table \in Seq(V) /\ Begins(st.table, table)
      /\ type = "s" => /\ word \in 0 .. Len(table)
                       /\ word = 0 => value = None
                       /\ word # 0 => table[word] = value
  <2>1. CASE type = "s"
    BY <1>1, <2>1, InternAdds
  <2>2. CASE type # "s"
    BY <1>1, <2>2 DEF Begins
  <2>3. QED
    BY <2>1, <2>2
<1>3. type # "s" => word = value
  OBVIOUS
<1>4. later = [st EXCEPT !.table = table, !.payloads = Append(@, word)]
  BY DEF PackWord
<1> HIDE DEF table, word, later
<1>5. word \in V
  <2>1. Len(table) \in Nat
    BY <1>2
  <2>2. QED
    BY <1>2, <1>3, <2>1
<1>6. later = [table |-> table, payloads |-> Append(st.payloads, word), entries |-> st.entries]
  BY <1>1, <1>4
<1>7. later \in Blobs(V)
  BY <1>1, <1>2, <1>5, <1>6 DEF Blobs
<1>8. later.table = table /\ later.payloads = Append(st.payloads, word) /\ later.entries = st.entries
  BY <1>6
<1>9. Len(later.payloads) = n /\ later.payloads[n] = word /\ Begins(st.payloads, later.payloads)
  BY <1>1, <1>5, <1>8 DEF Begins
<1>10. Reads(later, type, word, value)
  BY <1>2, <1>3, <1>8 DEF Reads, StringAt
<1>11. QED
  BY <1>2, <1>7, <1>8, <1>9, <1>10 DEF Grows, later

-----------------------------------------------------------------------------
(* Records                                                                 *)

(* The payloads have, after their first p words, the values of a record    *)
(* behind their number.                                                    *)
ValuesAt(blob, section, values, p) ==
    /\ p \in Nat /\ p + 1 + Len(values) <= Len(blob.payloads)
    /\ blob.payloads[p + 1] = Len(values)
    /\ \A i \in 1 .. Len(values) :
          Reads(blob, TypeAt(section, i), blob.payloads[p + 1 + i], values[i])

LEMMA ValuesStay ==
    ASSUME NEW V, NEW a \in Blobs(V), NEW b \in Blobs(V), Grows(a, b),
           NEW section, NEW values \in Seq(V), NEW p, ValuesAt(a, section, values, p)
    PROVE  ValuesAt(b, section, values, p)
<1>1. a.payloads \in Seq(V) /\ b.payloads \in Seq(V) /\ Begins(a.payloads, b.payloads)
  BY DEF Blobs, Grows
<1>2. p \in Nat /\ p + 1 + Len(values) <= Len(a.payloads) /\ Len(values) \in Nat
      /\ a.payloads[p + 1] = Len(values)
  BY DEF ValuesAt
<1>3. ASSUME NEW i \in 0 .. Len(values)
      PROVE  b.payloads[p + 1 + i] = a.payloads[p + 1 + i]
  <2>1. p + 1 + i \in 1 .. Len(a.payloads)
    BY <1>1, <1>2
  <2>2. QED
    BY <1>1, <2>1 DEF Begins
<1>4. ASSUME NEW i \in 1 .. Len(values)
      PROVE  Reads(b, TypeAt(section, i), b.payloads[p + 1 + i], values[i])
  <2>1. Reads(a, TypeAt(section, i), a.payloads[p + 1 + i], values[i])
    BY DEF ValuesAt
  <2>2. b.payloads[p + 1 + i] = a.payloads[p + 1 + i]
    BY <1>3
  <2>3. QED
    BY <2>1, <2>2, WordsStay
<1>5. b.payloads[p + 1] = Len(values)
  <2>1. 0 \in 0 .. Len(values) /\ p + 1 + 0 = p + 1
    BY <1>2
  <2>2. QED
    BY <1>2, <1>3, <2>1
<1>6. p + 1 + Len(values) <= Len(b.payloads)
  BY <1>1, <1>2 DEF Begins
<1>7. QED
  BY <1>2, <1>4, <1>5, <1>6 DEF ValuesAt

(* A number that is packed.                                                *)
LEMMA CountAdds ==
    ASSUME NEW V, Nat \in SUBSET V, NEW st \in Blobs(V), NEW n \in Nat,
           NEW later, later = [st EXCEPT !.payloads = Append(@, n)]
    PROVE  /\ later \in Blobs(V) /\ Grows(st, later) /\ later.entries = st.entries
           /\ Len(later.payloads) = Len(st.payloads) + 1
           /\ later.payloads[Len(st.payloads) + 1] = n
<1>1. st.table \in Seq(V) /\ st.payloads \in Seq(V) /\ st.entries \in [SectionNames -> Seq(Slots)]
      /\ st = [table |-> st.table, payloads |-> st.payloads, entries |-> st.entries]
  BY DEF Blobs
<1>2. n \in V
  OBVIOUS
<1>3. later = [table |-> st.table, payloads |-> Append(st.payloads, n), entries |-> st.entries]
  BY <1>1
<1>4. Append(st.payloads, n) \in Seq(V)
  BY <1>1, <1>2
<1>5. later.table = st.table /\ later.payloads = Append(st.payloads, n) /\ later.entries = st.entries
  BY <1>3
<1>6. later \in Blobs(V)
  BY <1>1, <1>3, <1>4 DEF Blobs
<1>7. Grows(st, later)
  BY <1>1, <1>2, <1>5 DEF Grows, Begins
<1>8. QED
  BY <1>1, <1>2, <1>5, <1>6, <1>7

(* The loop over the words of a record.                                    *)
RecordRun(h, V, st, section, values) ==
    /\ h[0] = [st EXCEPT !.payloads = Append(@, Len(values))]
    /\ \A i \in 1 .. Len(values) : h[i] = PackWord(h[i - 1], TypeAt(section, i), values[i])
    /\ \A i \in 0 .. Len(values) : h[i] \in Blobs(V)

LEMMA RecordLoop ==
    ASSUME NEW V, Nat \in SUBSET V, NEW st \in Blobs(V), NEW section, NEW r,
           NEW values \in Seq(V), values = ValuesOf(section, r)
    PROVE  \E h : RecordRun(h, V, st, section, values) /\ PackRecord(st, section, r) = h[Len(values)]
<1> DEFINE n == Len(values)
           S == Blobs(V)
           a == [st EXCEPT !.payloads = Append(@, n)]
           Body(f) == [i \in 0 .. n |-> IF i = 0 THEN a
                                        ELSE PackWord(f[i - 1], TypeAt(section, i), values[i])]
           h == CHOOSE x : x = Body(x)
           H == [i \in 1 .. n |-> [s \in S |-> PackWord(s, TypeAt(section, i), values[i])]]
<1>1. n \in Nat /\ \A i \in 1 .. n : values[i] \in V
  OBVIOUS
<1>2. PackRecord(st, section, r) = h[n]
  BY DEF PackRecord
<1>3. a \in S
  BY <1>1, CountAdds
<1> HIDE DEF a, n
<1>4. \A i \in 1 .. n : \A s \in S : PackWord(s, TypeAt(section, i), values[i]) \in S
  BY <1>1, PackWordAdds
<1> HIDE DEF S
<1>5. H \in [1 .. n -> [S -> S]]
      /\ \A i \in 1 .. n : \A s \in S : H[i][s] = PackWord(s, TypeAt(section, i), values[i])
  BY <1>4
<1> HIDE DEF H
<1>6. PICK f : IsRun(f, S, a, n, H)
  BY <1>1, <1>3, <1>5, Iterates
<1>7. f = Body(f)
  <2>1. ASSUME NEW i \in 0 .. n, i # 0
        PROVE  f[i] = PackWord(f[i - 1], TypeAt(section, i), values[i])
    <3>1. i \in 1 .. n /\ i - 1 \in 0 .. n
      BY <1>1, <2>1
    <3>2. QED
      BY <1>5, <1>6, <3>1 DEF IsRun
  <2>2. f \in [0 .. n -> S] /\ f[0] = a
    BY <1>6 DEF IsRun
  <2>3. QED
    BY <2>1, <2>2
<1>8. h = Body(h)
  BY <1>7
<1>9. h[0] = a /\ \A i \in 1 .. n : h[i] = PackWord(h[i - 1], TypeAt(section, i), values[i])
  <2> HIDE DEF h
  <2>1. QED
    BY <1>1, <1>8
<1> HIDE DEF h
<1>10. \A i \in 0 .. n : h[i] \in S
  BY <1>1, <1>3, <1>4, <1>9, RunStays
<1>11. RecordRun(h, V, st, section, values)
  BY <1>9, <1>10 DEF S, a, n, RecordRun
<1>12. QED
  BY <1>2, <1>11 DEF n

LEMMA PackRecordAdds ==
    ASSUME NEW V, Nat \in SUBSET V, NEW st \in Blobs(V), NEW section, NEW r,
           NEW values \in Seq(V), values = ValuesOf(section, r)
    PROVE  LET later == PackRecord(st, section, r)
               p == Len(st.payloads)
           IN  /\ later \in Blobs(V) /\ Grows(st, later) /\ later.entries = st.entries
               /\ Len(later.payloads) = p + 1 + Len(values)
               /\ ValuesAt(later, section, values, p)
<1> DEFINE n == Len(values)
           p == Len(st.payloads)
           first == [st EXCEPT !.payloads = Append(@, n)]
<1>0. PICK h : RecordRun(h, V, st, section, values) /\ PackRecord(st, section, r) = h[n]
  BY RecordLoop
<1>1. /\ h[0] = first
      /\ \A i \in 1 .. n : h[i] = PackWord(h[i - 1], TypeAt(section, i), values[i])
      /\ \A i \in 0 .. n : h[i] \in Blobs(V)
      /\ PackRecord(st, section, r) = h[n]
  BY <1>0 DEF RecordRun
<1>2. n \in Nat /\ p \in Nat /\ \A i \in 1 .. n : values[i] \in V
  BY DEF Blobs
<1>3. /\ first \in Blobs(V) /\ Grows(st, first) /\ first.entries = st.entries
      /\ Len(first.payloads) = p + 1 /\ first.payloads[p + 1] = n
  BY <1>2, CountAdds
<1> HIDE DEF first, n, p
<1> DEFINE Done(b, m) ==
        /\ Grows(st, b) /\ b.entries = st.entries
        /\ Len(b.payloads) = p + 1 + m /\ b.payloads[p + 1] = n
        /\ \A i \in 1 .. m : Reads(b, TypeAt(section, i), b.payloads[p + 1 + i], values[i])
           P == {i \in 0 .. n : Done(h[i], i)}
<1>4. 0 \in P
  BY <1>1, <1>2, <1>3
<1>5. ASSUME NEW i \in 0 .. n - 1, i \in P PROVE i + 1 \in P
  <2> DEFINE a == h[i]
             b == h[i + 1]
             j == i + 1
  <2>1. /\ i \in 0 .. n /\ j \in 1 .. n /\ j \in 0 .. n /\ j - 1 = i /\ i \in Nat
        /\ p + 1 + i + 1 = p + 1 + j
    BY <1>2
  <2>2. a \in Blobs(V) /\ b \in Blobs(V) /\ Done(a, i)
        /\ b = PackWord(a, TypeAt(section, j), values[j])
    BY <1>1, <1>5, <2>1
  <2> HIDE DEF a, b, j, Done
  <2>3. Len(a.payloads) = p + 1 + i
    BY <2>2 DEF Done
  <2>4. /\ Grows(a, b) /\ b.entries = a.entries
        /\ Len(b.payloads) = Len(a.payloads) + 1
        /\ Reads(b, TypeAt(section, j), b.payloads[Len(a.payloads) + 1], values[j])
    BY <1>2, <2>1, <2>2, PackWordAdds
  <2>5. Grows(st, b) /\ b.entries = st.entries
    BY <2>2, <2>4, GrowsOn DEF Done
  <2>6. \A k \in 1 .. p + 1 + i : b.payloads[k] = a.payloads[k]
    BY <2>3, <2>4 DEF Grows, Begins
  <2>7. ASSUME NEW k \in 1 .. i
        PROVE  Reads(b, TypeAt(section, k), b.payloads[p + 1 + k], values[k])
    <3>1. p + 1 + k \in 1 .. p + 1 + i
      BY <1>2, <2>1
    <3>2. Reads(a, TypeAt(section, k), a.payloads[p + 1 + k], values[k])
      BY <2>2 DEF Done
    <3>3. QED
      BY <2>2, <2>4, <2>6, <3>1, <3>2, WordsStay
  <2>8. Reads(b, TypeAt(section, j), b.payloads[p + 1 + j], values[j])
    BY <2>1, <2>3, <2>4
  <2>9. b.payloads[p + 1] = n
    <3>1. p + 1 \in 1 .. p + 1 + i
      BY <1>2, <2>1
    <3>2. QED
      BY <2>2, <2>6, <3>1 DEF Done
  <2>10. \A k \in 1 .. j : k = j \/ k \in 1 .. i
    BY <2>1 DEF j
  <2>11. \A k \in 1 .. j : Reads(b, TypeAt(section, k), b.payloads[p + 1 + k], values[k])
    BY <2>7, <2>8, <2>10
  <2>12. Len(b.payloads) = p + 1 + j
    BY <2>1, <2>3, <2>4
  <2>13. Done(b, j)
    BY <2>5, <2>9, <2>11, <2>12 DEF Done
  <2>14. QED
    BY <2>1, <2>13 DEF b, j
<1>6. P = 0 .. n
  <2>1. P \in SUBSET (0 .. n)
    OBVIOUS
  <2> HIDE DEF P
  <2>2. QED
    BY <1>2, <1>4, <1>5, <2>1, UpTo
<1>7. Done(h[n], n) /\ h[n] \in Blobs(V)
  <2>1. n \in 0 .. n
    BY <1>2
  <2>2. n \in P
    BY <1>6, <2>1
  <2>3. QED
    BY <1>1, <2>1, <2>2
<1>8. ValuesAt(h[n], section, values, p)
  BY <1>2, <1>7 DEF ValuesAt, n
<1>9. QED
  BY <1>1, <1>7, <1>8 DEF p, n

-----------------------------------------------------------------------------
(* Groups                                                                  *)

(* The records can be packed.                                              *)
Packable(V, section, records) ==
    /\ IsList(records)
    /\ \A k \in 1 .. Len(records) : ValuesOf(section, records[k]) \in Seq(V)

(* The records of a name are behind their number, the k-th of them after   *)
(* the first f[k - 1] words.                                               *)
RecordsAt(blob, section, records, f) ==
    \A k \in 1 .. Len(records) :
        /\ ValuesAt(blob, section, ValuesOf(section, records[k]), f[k - 1])
        /\ f[k] = f[k - 1] + 1 + Len(ValuesOf(section, records[k]))
GroupAt(blob, section, records, p) ==
    /\ p \in Nat /\ p + 1 <= Len(blob.payloads) /\ blob.payloads[p + 1] = Len(records)
    /\ \E f \in [0 .. Len(records) -> Nat] :
          f[0] = p + 1 /\ RecordsAt(blob, section, records, f)

LEMMA GroupsStay ==
    ASSUME NEW V, NEW a \in Blobs(V), NEW b \in Blobs(V), Grows(a, b),
           NEW section, NEW records, Packable(V, section, records),
           NEW p, GroupAt(a, section, records, p)
    PROVE  GroupAt(b, section, records, p)
<1>1. a.payloads \in Seq(V) /\ b.payloads \in Seq(V) /\ Begins(a.payloads, b.payloads)
  BY DEF Blobs, Grows
<1>2. p \in Nat /\ p + 1 <= Len(a.payloads) /\ a.payloads[p + 1] = Len(records)
  BY DEF GroupAt
<1>3. p + 1 <= Len(b.payloads) /\ b.payloads[p + 1] = Len(records)
  BY <1>1, <1>2 DEF Begins
<1>4. PICK f \in [0 .. Len(records) -> Nat] :
         f[0] = p + 1 /\ RecordsAt(a, section, records, f)
  BY DEF GroupAt
<1>5. ASSUME NEW k \in 1 .. Len(records)
      PROVE  ValuesAt(b, section, ValuesOf(section, records[k]), f[k - 1])
  <2>1. ValuesOf(section, records[k]) \in Seq(V)
    BY DEF Packable
  <2>2. ValuesAt(a, section, ValuesOf(section, records[k]), f[k - 1])
    BY <1>4 DEF RecordsAt
  <2>3. QED
    BY <2>1, <2>2, ValuesStay
<1>6. RecordsAt(b, section, records, f)
  BY <1>4, <1>5 DEF RecordsAt
<1>7. QED
  BY <1>2, <1>3, <1>4, <1>6 DEF GroupAt

(* The loop over the records of a name.                                    *)
GroupRun(h, V, st, section, records) ==
    /\ h[0] = [st EXCEPT !.payloads = Append(@, Len(records))]
    /\ \A k \in 1 .. Len(records) : h[k] = PackRecord(h[k - 1], section, records[k])
    /\ \A k \in 0 .. Len(records) : h[k] \in Blobs(V)

LEMMA GroupLoop ==
    ASSUME NEW V, Nat \in SUBSET V, NEW st \in Blobs(V), NEW section, NEW name, NEW records,
           Packable(V, section, records)
    PROVE  \E h : /\ GroupRun(h, V, st, section, records)
                  /\ PackGroup(st, section, name, records)
                        = AddEntry(h[Len(records)], section, name, Len(st.payloads))
<1> DEFINE n == Len(records)
           S == Blobs(V)
           a == [st EXCEPT !.payloads = Append(@, n)]
           Body(f) == [k \in 0 .. n |-> IF k = 0 THEN a
                                        ELSE PackRecord(f[k - 1], section, records[k])]
           h == CHOOSE x : x = Body(x)
           H == [k \in 1 .. n |-> [s \in S |-> PackRecord(s, section, records[k])]]
<1>1. n \in Nat /\ \A k \in 1 .. n : ValuesOf(section, records[k]) \in Seq(V)
  BY DEF Packable, IsList
<1>2. PackGroup(st, section, name, records) = AddEntry(h[n], section, name, Len(st.payloads))
  BY DEF PackGroup
<1>3. a \in S
  BY <1>1, CountAdds
<1> HIDE DEF a, n
<1>4. \A k \in 1 .. n : \A s \in S : PackRecord(s, section, records[k]) \in S
  BY <1>1, PackRecordAdds
<1> HIDE DEF S
<1>5. H \in [1 .. n -> [S -> S]]
      /\ \A k \in 1 .. n : \A s \in S : H[k][s] = PackRecord(s, section, records[k])
  BY <1>4
<1> HIDE DEF H
<1>6. PICK f : IsRun(f, S, a, n, H)
  BY <1>1, <1>3, <1>5, Iterates
<1>7. f = Body(f)
  <2>1. ASSUME NEW k \in 0 .. n, k # 0
        PROVE  f[k] = PackRecord(f[k - 1], section, records[k])
    <3>1. k \in 1 .. n /\ k - 1 \in 0 .. n
      BY <1>1, <2>1
    <3>2. QED
      BY <1>5, <1>6, <3>1 DEF IsRun
  <2>2. f \in [0 .. n -> S] /\ f[0] = a
    BY <1>6 DEF IsRun
  <2>3. QED
    BY <2>1, <2>2
<1>8. h = Body(h)
  BY <1>7
<1>9. h[0] = a /\ \A k \in 1 .. n : h[k] = PackRecord(h[k - 1], section, records[k])
  <2> HIDE DEF h
  <2>1. QED
    BY <1>1, <1>8
<1> HIDE DEF h
<1>10. \A k \in 0 .. n : h[k] \in S
  BY <1>1, <1>3, <1>4, <1>9, RunStays
<1>11. GroupRun(h, V, st, section, records)
  BY <1>9, <1>10 DEF S, a, n, GroupRun
<1>12. QED
  BY <1>2, <1>11 DEF n

LEMMA RecordsAdd ==
    ASSUME NEW V, Nat \in SUBSET V, NEW st \in Blobs(V), NEW section, NEW records,
           Packable(V, section, records), NEW h, GroupRun(h, V, st, section, records)
    PROVE  LET later == h[Len(records)]
           IN  /\ later \in Blobs(V) /\ Grows(st, later) /\ later.entries = st.entries
               /\ GroupAt(later, section, records, Len(st.payloads))
<1> DEFINE n == Len(records)
           p == Len(st.payloads)
           first == [st EXCEPT !.payloads = Append(@, n)]
           Values(k) == ValuesOf(section, records[k])
           f == [k \in 0 .. n |-> Len(h[k].payloads)]
<1>1. /\ h[0] = first
      /\ \A k \in 1 .. n : h[k] = PackRecord(h[k - 1], section, records[k])
      /\ \A k \in 0 .. n : h[k] \in Blobs(V)
  BY DEF GroupRun
<1>2. n \in Nat /\ p \in Nat /\ \A k \in 1 .. n : Values(k) \in Seq(V)
  BY DEF Blobs, Packable, IsList
<1>3. /\ first \in Blobs(V) /\ Grows(st, first) /\ first.entries = st.entries
      /\ Len(first.payloads) = p + 1 /\ first.payloads[p + 1] = n
  BY <1>2, CountAdds
<1> HIDE DEF first, n, p
<1>4. f \in [0 .. n -> Nat] /\ f[0] = p + 1
  <2>1. \A k \in 0 .. n : Len(h[k].payloads) \in Nat
    BY <1>1 DEF Blobs
  <2>2. 0 \in 0 .. n
    BY <1>2
  <2>3. QED
    BY <1>1, <1>3, <2>1, <2>2
<1>5. ASSUME NEW k \in 1 .. n
      PROVE  /\ Grows(h[k - 1], h[k]) /\ h[k].entries = h[k - 1].entries
             /\ ValuesAt(h[k], section, Values(k), f[k - 1])
             /\ f[k] = f[k - 1] + 1 + Len(Values(k))
  <2>1. k - 1 \in 0 .. n /\ k \in 0 .. n
    BY <1>2
  <2> DEFINE a == h[k - 1]
             b == h[k]
             r == records[k]
             values == Values(k)
  <2>2. a \in Blobs(V) /\ b = PackRecord(a, section, r) /\ values \in Seq(V)
        /\ values = ValuesOf(section, r)
    BY <1>1, <1>2, <2>1
  <2>3. f[k] = Len(b.payloads) /\ f[k - 1] = Len(a.payloads)
    BY <2>1
  <2> HIDE DEF a, b, f, r, values
  <2>4. /\ Grows(a, b) /\ b.entries = a.entries
        /\ Len(b.payloads) = Len(a.payloads) + 1 + Len(values)
        /\ ValuesAt(b, section, values, Len(a.payloads))
    <3> DEFINE later == PackRecord(a, section, r)
               q == Len(a.payloads)
    <3>1. /\ later \in Blobs(V) /\ Grows(a, later) /\ later.entries = a.entries
          /\ Len(later.payloads) = q + 1 + Len(values)
          /\ ValuesAt(later, section, values, q)
      BY <2>2, PackRecordAdds, SMTT(60)
    <3>2. b = later
      BY <2>2
    <3> HIDE DEF later, q
    <3>3. QED
      BY <3>1, <3>2 DEF q
  <2>5. QED
    BY <2>3, <2>4 DEF a, b, values
<1> HIDE DEF f
<1> DEFINE Done(b, m) ==
        /\ Grows(st, b) /\ b.entries = st.entries /\ Grows(first, b)
        /\ \A k \in 1 .. m : ValuesAt(b, section, Values(k), f[k - 1])
           P == {m \in 0 .. n : Done(h[m], m)}
<1>6. 0 \in P
  BY <1>1, <1>2, <1>3, GrowsFrom
<1>7. ASSUME NEW i \in 0 .. n - 1, i \in P PROVE i + 1 \in P
  <2> DEFINE a == h[i]
             b == h[i + 1]
             j == i + 1
  <2>1. i \in 0 .. n /\ j \in 1 .. n /\ j \in 0 .. n /\ j - 1 = i /\ i \in Nat
    BY <1>2
  <2>2. a \in Blobs(V) /\ b \in Blobs(V) /\ Done(a, i) /\ h[j] = b /\ h[j - 1] = a
    BY <1>1, <1>7, <2>1
  <2> HIDE DEF a, b, j, Done
  <2>3. /\ Grows(a, b) /\ b.entries = a.entries
        /\ ValuesAt(b, section, Values(j), f[j - 1])
    BY <1>5, <2>1, <2>2
  <2>4. Grows(st, b) /\ b.entries = st.entries /\ Grows(first, b)
    BY <1>3, <2>2, <2>3, GrowsOn DEF Done
  <2>5. ASSUME NEW k \in 1 .. i
        PROVE  ValuesAt(b, section, Values(k), f[k - 1])
    <3>1. k \in 1 .. n
      BY <1>2, <1>7
    <3>2. ValuesAt(a, section, Values(k), f[k - 1])
      BY <2>2 DEF Done
    <3>3. QED
      BY <1>2, <2>2, <2>3, <3>1, <3>2, ValuesStay
  <2>6. \A k \in 1 .. j : k = j \/ k \in 1 .. i
    BY <2>1 DEF j
  <2>7. \A k \in 1 .. j : ValuesAt(b, section, Values(k), f[k - 1])
    BY <2>3, <2>5, <2>6
  <2>8. Done(b, j)
    BY <2>4, <2>7 DEF Done
  <2>9. QED
    BY <2>1, <2>8 DEF b, j
<1>8. P = 0 .. n
  <2>1. P \in SUBSET (0 .. n)
    OBVIOUS
  <2> HIDE DEF P
  <2>2. QED
    BY <1>2, <1>6, <1>7, <2>1, UpTo
<1>9. Done(h[n], n) /\ h[n] \in Blobs(V)
  <2>1. n \in 0 .. n
    BY <1>2
  <2>2. n \in P
    BY <1>8, <2>1
  <2>3. QED
    BY <1>1, <2>1, <2>2
<1>10. RecordsAt(h[n], section, records, f)
  BY <1>5, <1>9 DEF RecordsAt, n
<1>11. p + 1 <= Len(h[n].payloads) /\ h[n].payloads[p + 1] = n
  <2> DEFINE x == h[n].payloads
             y == first.payloads
  <2>1. Begins(y, x)
    BY <1>9 DEF Grows
  <2> HIDE DEF x, y
  <2>2. y \in Seq(V) /\ Len(y) = p + 1 /\ y[p + 1] = n
    BY <1>3 DEF y, Blobs
  <2>3. p + 1 \in 1 .. Len(y)
    BY <1>2, <2>2
  <2>4. p + 1 <= Len(x) /\ x[p + 1] = n
    BY <2>1, <2>2, <2>3 DEF Begins
  <2>5. QED
    BY <2>4 DEF x
<1>12. GroupAt(h[n], section, records, p)
  BY <1>2, <1>4, <1>10, <1>11 DEF GroupAt, n
<1>13. QED
  BY <1>9, <1>12 DEF n, p

-----------------------------------------------------------------------------
(* Sections                                                                *)

(* The entry of a name: where the name is, and where its records are.      *)
EntryFor(blob, section, e, name, records) ==
    Reads(blob, "s", e.name, name) /\ GroupAt(blob, section, records, e.at)

LEMMA EntriesStay ==
    ASSUME NEW V, NEW a \in Blobs(V), NEW b \in Blobs(V), Grows(a, b),
           NEW section, NEW records, Packable(V, section, records),
           NEW e, NEW name, EntryFor(a, section, e, name, records)
    PROVE  EntryFor(b, section, e, name, records)
<1>1. Reads(b, "s", e.name, name)
  BY WordsStay DEF EntryFor
<1>2. GroupAt(b, section, records, e.at)
  <2> DEFINE p == e.at
  <2>1. GroupAt(a, section, records, p)
    BY DEF EntryFor
  <2> HIDE DEF p
  <2>2. GroupAt(b, section, records, p)
    BY <2>1, GroupsStay
  <2>3. QED
    BY <2>2 DEF p
<1>3. QED
  BY <1>1, <1>2 DEF EntryFor

(* Only the list of the section has changed, by an entry more.             *)
AddsEntry(a, b, section, e) == b.entries = [a.entries EXCEPT ![section] = Append(@, e)]

LEMMA AddEntryAdds ==
    ASSUME NEW V, NEW st \in Blobs(V), NEW section \in SectionNames, NEW name \in V, NEW at \in Nat
    PROVE  LET later == AddEntry(st, section, name, at)
           IN  /\ later \in Blobs(V) /\ Grows(st, later) /\ later.payloads = st.payloads
               /\ \E e \in Slots :
                     /\ AddsEntry(st, later, section, e)
                     /\ Reads(later, "s", e.name, name) /\ e.at = at
<1> DEFINE table == Intern(st.table, name)
           place == Place(table, name)
           e == [name |-> place, at |-> at]
           entries == [st.entries EXCEPT ![section] = Append(@, e)]
           later == AddEntry(st, section, name, at)
<1>1. st.table \in Seq(V) /\ st.payloads \in Seq(V) /\ st.entries \in [SectionNames -> Seq(Slots)]
      /\ st = [table |-> st.table, payloads |-> st.payloads, entries |-> st.entries]
  BY DEF Blobs
<1>2. /\ table \in Seq(V) /\ Begins(st.table, table) /\ place \in 0 .. Len(table)
      /\ place = 0 => name = None
      /\ place # 0 => table[place] = name
  BY <1>1, InternAdds
<1>3. later = [st EXCEPT !.table = table, !.entries[section] = Append(@, e)]
  BY DEF AddEntry
<1>4. e \in Slots /\ e.name = place /\ e.at = at
  <2>1. Len(table) \in Nat
    BY <1>2
  <2>2. QED
    BY <1>2, <2>1 DEF Slots
<1> HIDE DEF e, table, place, later
<1>5. entries \in [SectionNames -> Seq(Slots)]
  BY <1>1, <1>4
<1>6. later = [table |-> table, payloads |-> st.payloads, entries |-> entries]
  BY <1>1, <1>3
<1> HIDE DEF entries
<1>7. later.table = table /\ later.payloads = st.payloads /\ later.entries = entries
  BY <1>6
<1>8. later \in Blobs(V)
  BY <1>1, <1>2, <1>5, <1>6 DEF Blobs
<1>9. Grows(st, later)
  BY <1>1, <1>2, <1>7 DEF Grows, Begins
<1>10. Reads(later, "s", e.name, name)
  BY <1>2, <1>4, <1>7 DEF Reads, StringAt
<1>11. QED
  BY <1>4, <1>7, <1>8, <1>9, <1>10 DEF later, entries, AddsEntry

LEMMA PackGroupAdds ==
    ASSUME NEW V, Nat \in SUBSET V, NEW st \in Blobs(V), NEW section \in SectionNames,
           NEW name \in V, NEW records, Packable(V, section, records)
    PROVE  LET later == PackGroup(st, section, name, records)
           IN  /\ later \in Blobs(V) /\ Grows(st, later)
               /\ \E e \in Slots :
                     /\ AddsEntry(st, later, section, e)
                     /\ EntryFor(later, section, e, name, records)
<1> DEFINE at == Len(st.payloads)
           later == PackGroup(st, section, name, records)
<1>1. PICK h : /\ GroupRun(h, V, st, section, records)
               /\ later = AddEntry(h[Len(records)], section, name, at)
  BY GroupLoop
<1> DEFINE packed == h[Len(records)]
<1>2. /\ packed \in Blobs(V) /\ Grows(st, packed) /\ packed.entries = st.entries
      /\ GroupAt(packed, section, records, at)
  BY <1>1, RecordsAdd
<1>3. at \in Nat
  BY DEF Blobs
<1>4. later = AddEntry(packed, section, name, at)
  BY <1>1
<1> HIDE DEF at, later, packed
<1>5. /\ later \in Blobs(V) /\ Grows(packed, later)
      /\ \E e \in Slots :
            /\ AddsEntry(packed, later, section, e)
            /\ Reads(later, "s", e.name, name) /\ e.at = at
  BY <1>2, <1>3, <1>4, AddEntryAdds
<1>6. Grows(st, later)
  BY <1>2, <1>5, GrowsOn
<1>7. GroupAt(later, section, records, at)
  BY <1>2, <1>5, GroupsStay
<1>8. ASSUME NEW e, AddsEntry(packed, later, section, e) PROVE AddsEntry(st, later, section, e)
  BY <1>2, <1>8 DEF AddsEntry
<1>9. QED
  BY <1>5, <1>6, <1>7, <1>8 DEF later, EntryFor

(* The section can be packed.                                              *)
Prepared(V, manifest, section) ==
    LET names == SortedNames(manifest, section)
    IN  /\ names \in Seq(V)
        /\ \A j \in 1 .. Len(names) : Packable(V, section, Grouped(manifest, section, names[j]))

(* The entries of a section are those of its names, in their order.        *)
EntriesUpTo(blob, manifest, section, m) ==
    LET names == SortedNames(manifest, section)
        entries == blob.entries[section]
    IN  /\ Len(entries) = m
        /\ \A j \in 1 .. m :
              EntryFor(blob, section, entries[j], names[j], Grouped(manifest, section, names[j]))
SectionPacked(blob, manifest, section) ==
    EntriesUpTo(blob, manifest, section, Len(SortedNames(manifest, section)))

(* The other sections are as they were.                                    *)
OthersStay(a, b, section) == \A s \in SectionNames : s # section => b.entries[s] = a.entries[s]

(* One more name.                                                          *)
LEMMA NextGroup ==
    ASSUME NEW V, Nat \in SUBSET V, NEW manifest, NEW section \in SectionNames,
           Prepared(V, manifest, section), NEW a \in Blobs(V),
           NEW j \in 1 .. Len(SortedNames(manifest, section)),
           EntriesUpTo(a, manifest, section, j - 1), NEW b,
           b = LET names == SortedNames(manifest, section)
               IN  PackGroup(a, section, names[j], Grouped(manifest, section, names[j]))
    PROVE  /\ b \in Blobs(V) /\ Grows(a, b) /\ OthersStay(a, b, section)
           /\ EntriesUpTo(b, manifest, section, j)
<1> DEFINE names == SortedNames(manifest, section)
           Records(i) == Grouped(manifest, section, names[i])
           name == names[j]
           records == Records(j)
<1>1. /\ names \in Seq(V) /\ \A i \in 1 .. Len(names) : Packable(V, section, Records(i))
      /\ j \in 1 .. Len(names)
  BY DEF Prepared
<1>2. name \in V /\ Packable(V, section, records) /\ b = PackGroup(a, section, name, records)
  BY <1>1
<1>3. /\ Len(a.entries[section]) = j - 1
      /\ \A i \in 1 .. j - 1 : EntryFor(a, section, a.entries[section][i], names[i], Records(i))
  BY DEF EntriesUpTo
<1>4. name = names[j] /\ records = Records(j)
  OBVIOUS
<1> HIDE DEF name, records, names, Records
<1>5. /\ b \in Blobs(V) /\ Grows(a, b)
      /\ \E e \in Slots :
            /\ AddsEntry(a, b, section, e)
            /\ EntryFor(b, section, e, name, records)
  BY <1>2, PackGroupAdds
<1>6. PICK e \in Slots : AddsEntry(a, b, section, e) /\ EntryFor(b, section, e, name, records)
  BY <1>5
<1>7. a.entries \in [SectionNames -> Seq(Slots)] /\ a.entries[section] \in Seq(Slots)
  BY DEF Blobs
<1>8. OthersStay(a, b, section)
  BY <1>6, <1>7 DEF OthersStay, AddsEntry
<1> DEFINE before == a.entries[section]
           after == b.entries[section]
<1>9. after = Append(before, e)
  BY <1>6, <1>7 DEF AddsEntry
<1>10. j \in Nat /\ j # 0 /\ Len(before) = j - 1 /\ before \in Seq(Slots)
  BY <1>1, <1>3, <1>7
<1>11. /\ \A i \in 1 .. j - 1 : EntryFor(a, section, before[i], names[i], Records(i))
  BY <1>3
<1> HIDE DEF before, after
<1>12. Len(after) = j /\ after[j] = e /\ \A i \in 1 .. j - 1 : after[i] = before[i]
  BY <1>9, <1>10
<1>13. ASSUME NEW i \in 1 .. j PROVE EntryFor(b, section, after[i], names[i], Records(i))
  <2>1. CASE i = j
    BY <1>4, <1>6, <1>12, <2>1
  <2>2. CASE i # j
    <3>1. i \in 1 .. j - 1
      BY <1>10, <2>2
    <3>2. i \in 1 .. Len(names) /\ Len(names) \in Nat
      BY <1>1, <3>1
    <3> DEFINE R == Records(i)
               m == names[i]
               d == before[i]
    <3>3. Packable(V, section, R) /\ EntryFor(a, section, d, m, R) /\ after[i] = d
      BY <1>1, <1>11, <1>12, <3>1, <3>2
    <3> HIDE DEF R, m, d
    <3>4. EntryFor(b, section, d, m, R)
      BY <1>5, <3>3, EntriesStay
    <3>5. QED
      BY <3>3, <3>4 DEF R, m
  <2>3. QED
    BY <2>1, <2>2
<1>14. EntriesUpTo(b, manifest, section, j)
  BY <1>12, <1>13 DEF EntriesUpTo, after, names, Records
<1>15. QED
  BY <1>5, <1>8, <1>14

(* The loop over the names of a section.                                   *)
LEMMA SectionLoop ==
    ASSUME NEW V, Nat \in SUBSET V, NEW manifest, NEW section \in SectionNames,
           Prepared(V, manifest, section), NEW st \in Blobs(V), st.entries[section] = <<>>
    PROVE  LET later == PackSection(st, manifest, section)
           IN  /\ later \in Blobs(V) /\ Grows(st, later) /\ OthersStay(st, later, section)
               /\ SectionPacked(later, manifest, section)
<1> DEFINE names == SortedNames(manifest, section)
           n == Len(names)
           Done(b, m) == /\ b \in Blobs(V) /\ Grows(st, b) /\ OthersStay(st, b, section)
                         /\ EntriesUpTo(b, manifest, section, m)
           Step(b, j) == PackGroup(b, section, names[j], Grouped(manifest, section, names[j]))
           Body(f) == [j \in 0 .. n |-> IF j = 0 THEN st ELSE Step(f[j - 1], j)]
           h == CHOOSE x : x = Body(x)
           S == {s \in (0 .. n) \X Blobs(V) : Done(s[2], s[1])}
           H == [j \in 1 .. n |-> [s \in S |-> IF s[1] = j - 1 THEN <<j, Step(s[2], j)>> ELSE s]]
<1>1. n \in Nat
  BY DEF Prepared
<1>2. PackSection(st, manifest, section) = h[n]
  BY DEF PackSection
<1>3. Done(st, 0)
  <2>1. Grows(st, st)
    BY GrowsFrom
  <2>2. OthersStay(st, st, section)
    BY DEF OthersStay
  <2>3. EntriesUpTo(st, manifest, section, 0)
    BY DEF EntriesUpTo
  <2>4. QED
    BY <2>1, <2>2, <2>3
<1>4. ASSUME NEW j \in 1 .. n, NEW a, Done(a, j - 1) PROVE Done(Step(a, j), j)
  <2> DEFINE b == Step(a, j)
  <2>1. a \in Blobs(V) /\ Grows(st, a) /\ OthersStay(st, a, section)
        /\ EntriesUpTo(a, manifest, section, j - 1)
    BY <1>4
  <2>2. b = LET ns == SortedNames(manifest, section)
            IN  PackGroup(a, section, ns[j], Grouped(manifest, section, ns[j]))
    OBVIOUS
  <2>3. j \in 1 .. Len(SortedNames(manifest, section))
    OBVIOUS
  <2> HIDE DEF b
  <2>4. /\ b \in Blobs(V) /\ Grows(a, b) /\ OthersStay(a, b, section)
        /\ EntriesUpTo(b, manifest, section, j)
    BY <2>1, <2>2, <2>3, NextGroup
  <2>5. Grows(st, b)
    BY <2>1, <2>4, GrowsOn
  <2>6. OthersStay(st, b, section)
    BY <2>1, <2>4 DEF OthersStay
  <2>7. Done(b, j)
    BY <2>4, <2>5, <2>6
  <2>8. QED
    BY <2>7 DEF b
<1> HIDE DEF n, Done, Step
<1>5. <<0, st>> \in S
  BY <1>1, <1>3 DEF Done
<1>6. H \in [1 .. n -> [S -> S]]
  <2>1. ASSUME NEW j \in 1 .. n, NEW s \in S, s[1] = j - 1 PROVE <<j, Step(s[2], j)>> \in S
    <3>1. Done(s[2], j - 1)
      BY <2>1
    <3>2. Done(Step(s[2], j), j)
      BY <1>4, <3>1
    <3>3. Step(s[2], j) \in Blobs(V)
      BY <3>2 DEF Done
    <3>4. j \in 0 .. n
      BY <1>1
    <3>5. QED
      BY <3>2, <3>3, <3>4
  <2> HIDE DEF S
  <2>2. QED
    BY <2>1
<1>7. \A j \in 1 .. n : \A s \in S : s[1] = j - 1 => H[j][s] = <<j, Step(s[2], j)>>
  <2> HIDE DEF S
  <2>1. QED
    OBVIOUS
<1> HIDE DEF H
<1>8. PICK g : IsRun(g, S, <<0, st>>, n, H)
  <2> HIDE DEF S
  <2>1. QED
    BY <1>1, <1>5, <1>6, Iterates
<1>9. /\ g \in [0 .. n -> S] /\ g[0] = <<0, st>>
      /\ \A j \in 1 .. n : g[j] = H[j][g[j - 1]]
  BY <1>8 DEF IsRun
<1>10. \A j \in 0 .. n : g[j][1] = j
  <2> DEFINE P == {j \in 0 .. n : g[j][1] = j}
  <2>1. 0 \in P
    BY <1>1, <1>9
  <2>2. ASSUME NEW j \in 0 .. n - 1, j \in P PROVE j + 1 \in P
    <3>1. j + 1 \in 1 .. n /\ j + 1 - 1 = j /\ j \in 0 .. n /\ g[j] \in S /\ g[j][1] = j /\ j + 1 \in 0 .. n
      BY <1>1, <1>9, <2>2
    <3> HIDE DEF S
    <3>2. g[j + 1] = <<j + 1, Step(g[j][2], j + 1)>>
      BY <1>7, <1>9, <3>1
    <3>3. QED
      BY <3>1, <3>2
  <2>3. P \in SUBSET (0 .. n)
    OBVIOUS
  <2> HIDE DEF P, S
  <2>4. P = 0 .. n
    BY <1>1, <2>1, <2>2, <2>3, UpTo
  <2>5. QED
    BY <2>4 DEF P
<1> DEFINE f == [j \in 0 .. n |-> g[j][2]]
<1>11. f = Body(f)
  <2>1. f[0] = st
    BY <1>1, <1>9
  <2>2. ASSUME NEW j \in 0 .. n, j # 0 PROVE f[j] = Step(f[j - 1], j)
    <3>1. j \in 1 .. n /\ j - 1 \in 0 .. n /\ g[j - 1] \in S /\ g[j - 1][1] = j - 1
      BY <1>1, <1>9, <1>10, <2>2
    <3> HIDE DEF S
    <3>2. g[j] = <<j, Step(g[j - 1][2], j)>>
      BY <1>7, <1>9, <3>1
    <3>3. QED
      BY <3>1, <3>2
  <2> HIDE DEF f
  <2>3. f = [j \in 0 .. n |-> f[j]]
    BY DEF f
  <2>4. QED
    BY <2>1, <2>2, <2>3
<1> HIDE DEF f, S
<1>12. h = Body(h)
  BY <1>11
<1>13. h[0] = st /\ \A j \in 1 .. n : h[j] = Step(h[j - 1], j)
  <2> HIDE DEF h
  <2>1. QED
    BY <1>1, <1>12
<1> HIDE DEF h
<1> DEFINE P == {j \in 0 .. n : Done(h[j], j)}
<1>14. 0 \in P
  BY <1>1, <1>3, <1>13
<1>15. ASSUME NEW j \in 0 .. n - 1, j \in P PROVE j + 1 \in P
  <2>1. j + 1 \in 1 .. n /\ j + 1 - 1 = j /\ j + 1 \in 0 .. n
    BY <1>1
  <2> DEFINE k == j + 1
  <2>2. k \in 1 .. n /\ k - 1 = j /\ k \in 0 .. n /\ Done(h[k - 1], k - 1)
    BY <1>15, <2>1
  <2> HIDE DEF k
  <2>3. Done(h[k], k)
    BY <1>4, <1>13, <2>2
  <2>4. QED
    BY <2>2, <2>3 DEF k
<1>16. P = 0 .. n
  <2>1. P \in SUBSET (0 .. n)
    OBVIOUS
  <2> HIDE DEF P
  <2>2. QED
    BY <1>1, <1>14, <1>15, <2>1, UpTo
<1>17. Done(h[n], n)
  <2>1. n \in P
    <3> HIDE DEF P
    <3>1. QED
      BY <1>1, <1>16
  <2>2. QED
    BY <2>1
<1>18. QED
  BY <1>2, <1>17 DEF Done, SectionPacked, n

LEMMA SectionsStay ==
    ASSUME NEW V, NEW a \in Blobs(V), NEW b \in Blobs(V), Grows(a, b),
           NEW manifest, NEW section, Prepared(V, manifest, section),
           b.entries[section] = a.entries[section], SectionPacked(a, manifest, section)
    PROVE  SectionPacked(b, manifest, section)
<1> DEFINE names == SortedNames(manifest, section)
           entries == a.entries[section]
<1>1. ASSUME NEW j \in 1 .. Len(names)
      PROVE  EntryFor(b, section, entries[j], names[j], Grouped(manifest, section, names[j]))
  <2> DEFINE R == Grouped(manifest, section, names[j])
             m == names[j]
             d == entries[j]
  <2>1. Packable(V, section, R) /\ EntryFor(a, section, d, m, R)
    BY DEF Prepared, SectionPacked, EntriesUpTo
  <2> HIDE DEF R, m, d
  <2>2. EntryFor(b, section, d, m, R)
    BY <2>1, EntriesStay
  <2>3. QED
    BY <2>2 DEF R, m, d
<1>2. QED
  BY <1>1 DEF SectionPacked, EntriesUpTo

(* Every section is packed, one behind the other.                          *)
LEMMA AllPacked ==
    ASSUME NEW V, Nat \in SUBSET V, NEW manifest,
           \A section \in SectionNames : Prepared(V, manifest, section)
    PROVE  /\ PackManifest(manifest) \in Blobs(V)
           /\ \A section \in SectionNames : SectionPacked(PackManifest(manifest), manifest, section)
<1> DEFINE Ready(b, done) ==
        /\ b \in Blobs(V)
        /\ \A s \in SectionNames : IF s \in done THEN SectionPacked(b, manifest, s)
                                   ELSE b.entries[s] = <<>>
<1>1. ASSUME NEW b, NEW done \in SUBSET SectionNames, Ready(b, done),
             NEW section \in SectionNames \ done
      PROVE  Ready(PackSection(b, manifest, section), done \cup {section})
  <2> DEFINE later == PackSection(b, manifest, section)
  <2>1. b \in Blobs(V) /\ b.entries[section] = <<>>
    BY <1>1
  <2>2. /\ later \in Blobs(V) /\ Grows(b, later) /\ OthersStay(b, later, section)
        /\ SectionPacked(later, manifest, section)
    BY <2>1, SectionLoop
  <2> HIDE DEF later
  <2>3. ASSUME NEW s \in SectionNames, s # section
        PROVE  IF s \in done THEN SectionPacked(later, manifest, s) ELSE later.entries[s] = <<>>
    <3>1. later.entries[s] = b.entries[s]
      BY <2>2, <2>3 DEF OthersStay
    <3>2. CASE s \in done
      <4>1. SectionPacked(b, manifest, s)
        BY <1>1, <3>2
      <4>2. QED
        BY <2>1, <2>2, <3>1, <3>2, <4>1, SectionsStay
    <3>3. CASE s \notin done
      BY <1>1, <3>1, <3>3
    <3>4. QED
      BY <3>2, <3>3
  <2>4. Ready(later, done \cup {section})
    BY <2>2, <2>3
  <2>5. QED
    BY <2>4 DEF later
<1>2. Ready(EmptyBlob, {})
  <2>1. <<>> \in Seq(V) /\ <<>> \in Seq(Slots)
    OBVIOUS
  <2>2. QED
    BY <2>1 DEF EmptyBlob, Blobs
<1> DEFINE a1 == PackSection(EmptyBlob, manifest, "functions")
           a2 == PackSection(a1, manifest, "structs")
           a3 == PackSection(a2, manifest, "enums")
           a4 == PackSection(a3, manifest, "globals")
           a5 == PackSection(a4, manifest, "typedefs")
<1>3. PackManifest(manifest) = a5
  BY DEF PackManifest
<1> HIDE DEF Ready
<1>4. Ready(a1, {"functions"})
  BY <1>1, <1>2 DEF SectionNames
<1> HIDE DEF a1
<1>5. Ready(a2, {"functions", "structs"})
  BY <1>1, <1>4 DEF SectionNames
<1> HIDE DEF a2
<1>6. Ready(a3, {"functions", "structs", "enums"})
  BY <1>1, <1>5 DEF SectionNames
<1> HIDE DEF a3
<1>7. Ready(a4, {"functions", "structs", "enums", "globals"})
  BY <1>1, <1>6 DEF SectionNames
<1> HIDE DEF a4
<1>8. Ready(a5, {"functions", "structs", "enums", "globals", "typedefs"})
  BY <1>1, <1>7 DEF SectionNames
<1> HIDE DEF a5
<1>9. QED
  BY <1>3, <1>8 DEF Ready, SectionNames

-----------------------------------------------------------------------------
(* The shape of a record                                                   *)

(* What a record repeats is a list.                                        *)
Listed(section, r) ==
    /\ section = "functions" => IsList(r.args)
    /\ section = "structs" => IsList(r.fields)
    /\ section = "enums" => IsList(r.values)

(* The words of a record are those of its section, repeated as often as    *)
(* the last of the leading words says.                                     *)
Often(section, values) ==
    LET fixed == Len(Leading(section))
    IN  IF Leading(section)[fixed] = "n" THEN values[fixed] ELSE 0
WellShaped(section, values) ==
    /\ IsList(values) /\ Often(section, values) \in Nat
    /\ Len(values) = Len(Leading(section)) + Often(section, values) * Len(Repeated(section))

LEMMA HeadedBy ==
    ASSUME NEW H, NEW W, NEW head \in Seq(H), NEW tail \in Seq(W), Len(head) # 0
    PROVE  /\ head \o tail \in Seq(W \cup H) /\ Len(head \o tail) = Len(head) + Len(tail)
           /\ (head \o tail)[Len(head)] = head[Len(head)]
  OBVIOUS

LEMMA RecordsAreShaped ==
    ASSUME NEW section \in SectionNames, NEW r, Listed(section, r)
    PROVE  WellShaped(section, ValuesOf(section, r))
<1>1. CASE section = "functions"
  <2> DEFINE args == r.args
             parts == [i \in DOMAIN args |-> <<args[i].name, args[i].kind, args[i].view>>]
             W == UNION {{args[i].name, args[i].kind, args[i].view} : i \in DOMAIN args}
             head == <<r.mangled, IF r.member THEN 1 ELSE 0, Address(r.rva), r.loc, r.ret.text,
                       r.self_view, Len(args)>>
             values == ValuesOf(section, r)
  <2>1. values = head \o FlattenSeq(parts)
    BY <1>1 DEF ValuesOf, EachOf
  <2>2. Len(args) \in Nat /\ DOMAIN args = 1 .. Len(args)
    BY <1>1 DEF Listed, IsList
  <2>3. parts \in Seq(Seq(W)) /\ Len(parts) = Len(args) /\ \A i \in 1 .. Len(parts) : Len(parts[i]) = 3
    BY <2>2
  <2>4. FlattenSeq(parts) \in Seq(W) /\ Len(FlattenSeq(parts)) = Len(parts) * 3
    BY <2>3, FlattenLength
  <2>5. values \in Seq(W \cup {head[i] : i \in 1 .. 7}) /\ Len(values) = 7 + Len(args) * 3
        /\ values[7] = Len(args)
    <3> DEFINE H == {head[i] : i \in 1 .. 7}
               tail == FlattenSeq(parts)
    <3>1. head \in Seq(H) /\ Len(head) = 7 /\ head[7] = Len(args)
      OBVIOUS
    <3>2. tail \in Seq(W) /\ Len(tail) = Len(args) * 3
      BY <2>3, <2>4
    <3> HIDE DEF head, H, tail, W
    <3>3. values = head \o tail
      BY <2>1 DEF tail
    <3> HIDE DEF values
    <3>4. /\ head \o tail \in Seq(W \cup H) /\ Len(head \o tail) = Len(head) + Len(tail)
          /\ (head \o tail)[Len(head)] = head[Len(head)]
      <4>1. head \in Seq(H) /\ tail \in Seq(W) /\ Len(head) # 0
        BY <3>1, <3>2
      <4> HIDE DEF parts
      <4>2. QED
        BY <4>1, HeadedBy
    <3>5. QED
      BY <3>1, <3>2, <3>3, <3>4 DEF H
  <2> HIDE DEF values
  <2>6. IsList(values)
    BY <2>5, SequencesAreLists
  <2>7. QED
    BY <1>1, <2>2, <2>5, <2>6 DEF WellShaped, Often, Leading, Repeated, values
<1>2. CASE section = "structs"
  <2> DEFINE fs == r.fields
             parts == [i \in DOMAIN fs |->
                         <<fs[i].name, fs[i].offset, fs[i].kind, fs[i].len, fs[i].view>>]
             W == UNION {{fs[i].name, fs[i].offset, fs[i].kind, fs[i].len, fs[i].view} :
                            i \in DOMAIN fs}
             values == ValuesOf(section, r)
  <2>1. values = <<r.size, Len(fs)>> \o FlattenSeq(parts)
    BY <1>2 DEF ValuesOf, EachOf
  <2>2. Len(fs) \in Nat /\ DOMAIN fs = 1 .. Len(fs)
    BY <1>2 DEF Listed, IsList
  <2>3. parts \in Seq(Seq(W)) /\ Len(parts) = Len(fs) /\ \A i \in 1 .. Len(parts) : Len(parts[i]) = 5
    BY <2>2
  <2>4. FlattenSeq(parts) \in Seq(W) /\ Len(FlattenSeq(parts)) = Len(parts) * 5
    BY <2>3, FlattenLength
  <2>5. values \in Seq(W \cup {r.size, Len(fs)}) /\ Len(values) = 2 + Len(fs) * 5
        /\ values[2] = Len(fs)
    <3> DEFINE head == <<r.size, Len(fs)>>
               H == {r.size, Len(fs)}
               tail == FlattenSeq(parts)
    <3>1. head \in Seq(H) /\ Len(head) = 2 /\ head[2] = Len(fs)
      OBVIOUS
    <3>2. tail \in Seq(W) /\ Len(tail) = Len(fs) * 5
      BY <2>3, <2>4
    <3>3. values = head \o tail
      BY <2>1
    <3> HIDE DEF head, H, tail, W, values
    <3>4. /\ head \o tail \in Seq(W \cup H) /\ Len(head \o tail) = Len(head) + Len(tail)
          /\ (head \o tail)[Len(head)] = head[Len(head)]
      <4>1. head \in Seq(H) /\ tail \in Seq(W) /\ Len(head) # 0
        BY <3>1, <3>2
      <4> HIDE DEF parts
      <4>2. QED
        BY <4>1, HeadedBy
    <3>5. QED
      BY <3>1, <3>2, <3>3, <3>4 DEF H
  <2> HIDE DEF values
  <2>6. IsList(values)
    BY <2>5, SequencesAreLists
  <2>7. QED
    BY <1>2, <2>2, <2>5, <2>6 DEF WellShaped, Often, Leading, Repeated, values
<1>3. CASE section = "enums"
  <2> DEFINE vs == r.values
             parts == [i \in DOMAIN vs |-> <<vs[i].name, Unsigned(vs[i].value)>>]
             W == UNION {{vs[i].name, Unsigned(vs[i].value)} : i \in DOMAIN vs}
             values == ValuesOf(section, r)
  <2>1. values = <<r.owner, Len(vs)>> \o FlattenSeq(parts)
    BY <1>3 DEF ValuesOf, EachOf
  <2>2. Len(vs) \in Nat /\ DOMAIN vs = 1 .. Len(vs)
    BY <1>3 DEF Listed, IsList
  <2>3. parts \in Seq(Seq(W)) /\ Len(parts) = Len(vs) /\ \A i \in 1 .. Len(parts) : Len(parts[i]) = 2
    BY <2>2
  <2>4. FlattenSeq(parts) \in Seq(W) /\ Len(FlattenSeq(parts)) = Len(parts) * 2
    BY <2>3, FlattenLength
  <2>5. values \in Seq(W \cup {r.owner, Len(vs)}) /\ Len(values) = 2 + Len(vs) * 2
        /\ values[2] = Len(vs)
    <3> DEFINE head == <<r.owner, Len(vs)>>
               H == {r.owner, Len(vs)}
               tail == FlattenSeq(parts)
    <3>1. head \in Seq(H) /\ Len(head) = 2 /\ head[2] = Len(vs)
      OBVIOUS
    <3>2. tail \in Seq(W) /\ Len(tail) = Len(vs) * 2
      BY <2>3, <2>4
    <3>3. values = head \o tail
      BY <2>1
    <3> HIDE DEF head, H, tail, W, values
    <3>4. /\ head \o tail \in Seq(W \cup H) /\ Len(head \o tail) = Len(head) + Len(tail)
          /\ (head \o tail)[Len(head)] = head[Len(head)]
      <4>1. head \in Seq(H) /\ tail \in Seq(W) /\ Len(head) # 0
        BY <3>1, <3>2
      <4> HIDE DEF parts
      <4>2. QED
        BY <4>1, HeadedBy
    <3>5. QED
      BY <3>1, <3>2, <3>3, <3>4 DEF H
  <2> HIDE DEF values
  <2>6. IsList(values)
    BY <2>5, SequencesAreLists
  <2>7. QED
    BY <1>3, <2>2, <2>5, <2>6 DEF WellShaped, Often, Leading, Repeated, values
<1>4. CASE section = "globals"
  <2> DEFINE values == <<r.kind, Address(r.addr)>>
  <2>1. values \in Seq({r.kind, Address(r.addr)}) /\ Len(values) = 2
    OBVIOUS
  <2>2. IsList(values)
    BY <2>1, SequencesAreLists
  <2>3. ValuesOf(section, r) = values
    BY <1>4 DEF ValuesOf
  <2>4. QED
    BY <1>4, <2>1, <2>2, <2>3 DEF WellShaped, Often, Leading, Repeated
<1>5. CASE section = "typedefs"
  <2> DEFINE values == <<r.kind>>
  <2>1. values \in Seq({r.kind}) /\ Len(values) = 1
    OBVIOUS
  <2>2. IsList(values)
    BY <2>1, SequencesAreLists
  <2>3. ValuesOf(section, r) = values
    BY <1>5 DEF ValuesOf
  <2>4. QED
    BY <1>5, <2>1, <2>2, <2>3 DEF WellShaped, Often, Leading, Repeated
<1>6. QED
  BY <1>1, <1>2, <1>3, <1>4, <1>5 DEF SectionNames

-----------------------------------------------------------------------------
(* Reading                                                                 *)

LEMMA LeadingTypes ==
    ASSUME NEW section \in SectionNames
    PROVE  /\ Len(Leading(section)) \in Nat /\ Len(Leading(section)) # 0
           /\ TypeAt(section, Len(Leading(section))) = Leading(section)[Len(Leading(section))]
           /\ Len(Repeated(section)) \in Nat
  BY DEF SectionNames, Leading, Repeated, TypeAt

LEMMA RecordsAreRead ==
    ASSUME NEW V, NEW blob, NEW section \in SectionNames, NEW values \in Seq(V),
           WellShaped(section, values), NEW p, ValuesAt(blob, section, values, p)
    PROVE  ReadRecord(blob, section, p + 2) = values
<1> DEFINE fixed == Len(Leading(section))
           words == blob.payloads
           each == Len(Repeated(section))
           n == IF Leading(section)[fixed] = "n" THEN words[p + 2 + fixed - 1] ELSE 0
           total == fixed + n * each
           q == p + 2
           Word(i) == words[q + i - 1]
           read == [i \in 1 .. total |-> IF TypeAt(section, i) = "s" THEN StringAt(blob, Word(i))
                                         ELSE Word(i)]
<1>1. ReadRecord(blob, section, q) = read
  BY DEF ReadRecord
<1>2. /\ p \in Nat
      /\ \A i \in 1 .. Len(values) : Reads(blob, TypeAt(section, i), words[p + 1 + i], values[i])
  BY DEF ValuesAt
<1>3. fixed \in Nat /\ fixed # 0 /\ TypeAt(section, fixed) = Leading(section)[fixed] /\ each \in Nat
  BY LeadingTypes
<1>4. Often(section, values) \in Nat /\ Len(values) = fixed + Often(section, values) * each
      /\ Often(section, values) = (IF Leading(section)[fixed] = "n" THEN values[fixed] ELSE 0)
  BY DEF WellShaped, Often
<1> HIDE DEF fixed, words, each
<1>5. \A i \in 1 .. Len(values) : Reads(blob, TypeAt(section, i), Word(i), values[i])
  <2>1. ASSUME NEW i \in 1 .. Len(values) PROVE q + i - 1 = p + 1 + i
    BY <1>2
  <2>2. QED
    BY <1>2, <2>1
<1> HIDE DEF Word
<1>6. n = Often(section, values)
  <2>1. Often(section, values) * each \in Nat
    <3> DEFINE o == Often(section, values)
    <3>1. o \in Nat /\ each \in Nat
      BY <1>3, <1>4
    <3> HIDE DEF o
    <3>2. o * each \in Nat
      BY <3>1
    <3>3. QED
      BY <3>2 DEF o
  <2>2. fixed \in 1 .. Len(values)
    BY <1>3, <1>4, <2>1
  <2>3. Leading(section)[fixed] = "n" => Word(fixed) = values[fixed]
    BY <1>3, <1>5, <2>2 DEF Reads
  <2>4. QED
    BY <1>4, <2>3 DEF Word
<1>7. total = Len(values)
  BY <1>4, <1>6
<1> HIDE DEF n, q, total
<1>8. ASSUME NEW i \in 1 .. total PROVE read[i] = values[i]
  BY <1>5, <1>7 DEF Reads
<1>9. read = [i \in 1 .. Len(values) |-> values[i]]
  BY <1>7, <1>8
<1>10. values = [i \in 1 .. Len(values) |-> values[i]]
  OBVIOUS
<1> HIDE DEF read
<1>11. QED
  BY <1>1, <1>9, <1>10 DEF q

(* The records of a name, each found behind the one before.                *)
LEMMA GroupsAreRead ==
    ASSUME NEW V, NEW blob, NEW section \in SectionNames, NEW records, Packable(V, section, records),
           \A k \in 1 .. Len(records) : WellShaped(section, ValuesOf(section, records[k])),
           NEW p, GroupAt(blob, section, records, p)
    PROVE  ReadGroup(blob, section, p)
               = [k \in 1 .. Len(records) |-> ValuesOf(section, records[k])]
<1> DEFINE words == blob.payloads
           count == words[p + 1]
           n == Len(records)
           Values(k) == ValuesOf(section, records[k])
           Body(s) == [k \in 0 .. count |-> IF k = 0 THEN p + 2 ELSE s[k - 1] + words[s[k - 1]] + 1]
           start == CHOOSE s : s = Body(s)
<1>1. ReadGroup(blob, section, p)
         = [k \in 1 .. count |-> ReadRecord(blob, section, start[k - 1] + 1)]
  BY DEF ReadGroup
<1>2. p \in Nat /\ count = n /\ n \in Nat /\ \A k \in 1 .. n : Values(k) \in Seq(V)
  BY DEF GroupAt, Packable, IsList
<1>3. PICK f \in [0 .. n -> Nat] : f[0] = p + 1 /\ RecordsAt(blob, section, records, f)
  BY DEF GroupAt
<1>4. ASSUME NEW k \in 1 .. n
      PROVE  /\ ValuesAt(blob, section, Values(k), f[k - 1])
             /\ f[k] = f[k - 1] + 1 + words[f[k - 1] + 1]
  <2>1. ValuesAt(blob, section, Values(k), f[k - 1]) /\ f[k] = f[k - 1] + 1 + Len(Values(k))
    BY <1>3 DEF RecordsAt
  <2>2. words[f[k - 1] + 1] = Len(Values(k))
    BY <2>1 DEF ValuesAt
  <2>3. QED
    BY <2>1, <2>2
<1> DEFINE g == [k \in 0 .. n |-> f[k] + 1]
<1> HIDE DEF words, count, n
<1>5. g = Body(g)
  <2>1. g[0] = p + 2
    BY <1>2, <1>3
  <2>2. ASSUME NEW k \in 0 .. n, k # 0 PROVE g[k] = g[k - 1] + words[g[k - 1]] + 1
    <3>1. k \in 1 .. n /\ k - 1 \in 0 .. n
      BY <1>2, <2>2
    <3>2. f[k] \in Nat /\ f[k - 1] \in Nat
      BY <1>3, <2>2, <3>1
    <3>3. g[k - 1] = f[k - 1] + 1 /\ g[k] = f[k] + 1
      BY <3>1
    <3>4. f[k] = f[k - 1] + 1 + words[g[k - 1]]
      BY <1>4, <3>1, <3>3
    <3> HIDE DEF g
    <3> DEFINE w == words[g[k - 1]]
    <3>5. w \in Int
      <4>1. ValuesAt(blob, section, Values(k), f[k - 1]) /\ Values(k) \in Seq(V)
        BY <1>2, <1>4, <3>1
      <4>2. words[f[k - 1] + 1] = Len(Values(k)) /\ Len(Values(k)) \in Nat
        BY <4>1 DEF ValuesAt, words
      <4>3. QED
        BY <3>3, <4>2
    <3> HIDE DEF w
    <3>6. f[k] = f[k - 1] + 1 + w
      BY <3>4 DEF w
    <3>7. g[k] = g[k - 1] + w + 1
      BY <3>2, <3>3, <3>5, <3>6
    <3>8. QED
      BY <3>7 DEF w
  <2> HIDE DEF g
  <2>3. g = [k \in 0 .. n |-> g[k]]
    BY DEF g
  <2>4. QED
    BY <1>2, <2>1, <2>2, <2>3
<1> HIDE DEF Body
<1>6. start = Body(start)
  BY <1>5
<1> HIDE DEF start
<1>7. /\ start[0] = p + 2
      /\ \A k \in 1 .. n : start[k] = start[k - 1] + words[start[k - 1]] + 1
      /\ g[0] = p + 2
      /\ \A k \in 1 .. n : g[k] = g[k - 1] + words[g[k - 1]] + 1
  <2>1. ASSUME NEW s, s = Body(s)
        PROVE  s[0] = p + 2 /\ \A k \in 1 .. n : s[k] = s[k - 1] + words[s[k - 1]] + 1
    <3>1. ASSUME NEW k \in 0 .. n
          PROVE  Body(s)[k] = IF k = 0 THEN p + 2 ELSE s[k - 1] + words[s[k - 1]] + 1
      BY <1>2 DEF Body
    <3>2. \A k \in 1 .. n : k \in 0 .. n /\ k # 0
      OBVIOUS
    <3>3. 0 \in 0 .. n
      BY <1>2
    <3>4. QED
      BY <2>1, <3>1, <3>2, <3>3, Zenon
  <2> HIDE DEF g
  <2>2. QED
    BY <1>5, <1>6, <2>1
<1> DEFINE P == {k \in 0 .. n : start[k] = g[k]}
<1>8. P = 0 .. n
  <2> HIDE DEF g
  <2>1. 0 \in P
    BY <1>2, <1>7
  <2>2. ASSUME NEW k \in 0 .. n - 1, k \in P PROVE k + 1 \in P
    <3>1. k + 1 \in 1 .. n /\ k + 1 - 1 = k /\ k + 1 \in 0 .. n
      BY <1>2
    <3>2. QED
      BY <1>7, <2>2, <3>1
  <2>3. P \in SUBSET (0 .. n)
    OBVIOUS
  <2> HIDE DEF P
  <2>4. QED
    BY <1>2, <2>1, <2>2, <2>3, UpTo
<1>9. ASSUME NEW k \in 1 .. n PROVE ReadRecord(blob, section, start[k - 1] + 1) = Values(k)
  <2>1. k - 1 \in 0 .. n /\ k - 1 \in P
    <3> HIDE DEF P
    <3>1. QED
      BY <1>2, <1>8
  <2>2. start[k - 1] = f[k - 1] + 1 /\ f[k - 1] \in Nat
    BY <1>3, <2>1
  <2> DEFINE values == Values(k)
             q == f[k - 1]
  <2>3. values \in Seq(V) /\ WellShaped(section, values) /\ ValuesAt(blob, section, values, q)
    BY <1>2, <1>4 DEF n
  <2>4. start[k - 1] + 1 = q + 2
    BY <2>2
  <2> HIDE DEF values, q
  <2>5. ReadRecord(blob, section, q + 2) = values
    BY <2>3, RecordsAreRead
  <2>6. QED
    BY <2>4, <2>5 DEF values
<1>10. QED
  BY <1>1, <1>2, <1>9 DEF n

-----------------------------------------------------------------------------
(* Searching                                                               *)

(* The names of the entries ascend.                                        *)
Ascends(blob, entries) ==
    LET Key(i) == Rank[StringAt(blob, entries[i].name)]
    IN  \A i, j \in 1 .. Len(entries) : Key(i) \in Int /\ (i < j => Key(i) < Key(j))

(* What is left to search after k rounds: all before it is below the name, *)
(* and nothing behind it.                                                  *)
Narrowed(blob, entries, name, range, k) ==
    LET n == Len(entries)
        Key(i) == Rank[StringAt(blob, entries[i].name)]
    IN  /\ range \in [lo : 1 .. n + 1, hi : 1 .. n + 1]
        /\ range.lo <= range.hi /\ range.hi - range.lo <= n - k
        /\ \A i \in 1 .. n : i < range.lo => Key(i) < Rank[name]
        /\ \A i \in 1 .. n : i >= range.hi => ~(Key(i) < Rank[name])

LEMMA HalveNarrows ==
    ASSUME NEW blob, NEW entries, Len(entries) \in Nat, NEW name, Rank[name] \in Int,
           Ascends(blob, entries),
           NEW k \in 0 .. Len(entries) - 1, NEW range, Narrowed(blob, entries, name, range, k)
    PROVE  Narrowed(blob, entries, name, Halve(blob, entries, name, range), k + 1)
<1> DEFINE n == Len(entries)
           key == [i \in 1 .. n |-> Rank[StringAt(blob, entries[i].name)]]
           lo == range.lo
           hi == range.hi
           mid == (lo + hi) \div 2
           r == Rank[name]
           later == Halve(blob, entries, name, range)
<1>1. /\ n \in Nat /\ r \in Int /\ k \in 0 .. n - 1
      /\ \A i, j \in 1 .. n : key[i] \in Int /\ (i < j => key[i] < key[j])
  BY DEF Ascends
<1>2. /\ range = [lo |-> lo, hi |-> hi] /\ lo \in 1 .. n + 1 /\ hi \in 1 .. n + 1
      /\ lo <= hi /\ hi - lo <= n - k
      /\ \A i \in 1 .. n : i < lo => key[i] < r
      /\ \A i \in 1 .. n : i >= hi => ~(key[i] < r)
  BY DEF Narrowed
<1>3. ASSUME NEW q, q \in [lo : 1 .. n + 1, hi : 1 .. n + 1],
             q.lo <= q.hi, q.hi - q.lo <= n - (k + 1),
             \A i \in 1 .. n : i < q.lo => key[i] < r,
             \A i \in 1 .. n : i >= q.hi => ~(key[i] < r)
      PROVE  Narrowed(blob, entries, name, q, k + 1)
  BY <1>3 DEF Narrowed
<1>4. CASE lo >= hi
  <2>1. later = range
    <3>1. \A p, q : p \in Int /\ q \in Int => (p >= q => ~(p < q))
      OBVIOUS
    <3>2. range.lo >= range.hi /\ ~(range.lo < range.hi)
      BY <1>1, <1>2, <1>4, <3>1
    <3>3. QED
      BY <3>2 DEF Halve
  <2> HIDE DEF n, key, r, lo, hi, later
  <2>2. hi - lo <= n - (k + 1)
    BY <1>1, <1>2, <1>4
  <2>3. range.lo = lo /\ range.hi = hi /\ range \in [lo : 1 .. n + 1, hi : 1 .. n + 1]
    BY <1>2
  <2>4. Narrowed(blob, entries, name, range, k + 1)
    BY <1>2, <1>3, <2>2, <2>3
  <2>5. QED
    BY <2>1, <2>4 DEF later
<1>5. CASE ~(lo >= hi)
  <2>1. lo < hi /\ mid \in 1 .. n /\ lo <= mid /\ mid < hi
    <3> HIDE DEF n, key, r, lo, hi
    <3>1. QED
      BY <1>1, <1>2, <1>5
  <2>2. key[mid] = Rank[StringAt(blob, entries[mid].name)]
    BY <2>1
  <2>3. later = IF key[mid] < r THEN [range EXCEPT !.lo = mid + 1] ELSE [range EXCEPT !.hi = mid]
    BY <1>5, <2>1, <2>2 DEF Halve
  <2> HIDE DEF n, key, r, lo, hi, later, mid
  <2>4. CASE key[mid] < r
    <3>1. later = [lo |-> mid + 1, hi |-> hi]
      BY <1>2, <2>3, <2>4
    <3>2. later.lo = mid + 1 /\ later.hi = hi /\ later \in [lo : 1 .. n + 1, hi : 1 .. n + 1]
      BY <1>1, <1>2, <2>1, <3>1
    <3>3. mid + 1 <= hi /\ hi - (mid + 1) <= n - (k + 1)
      BY <1>1, <1>2, <2>1
    <3>4. ASSUME NEW i \in 1 .. n, i < mid + 1 PROVE key[i] < r
      <4>1. i = mid \/ i < mid
        BY <2>1, <3>4
      <4>2. key[i] \in Int /\ key[mid] \in Int /\ (i < mid => key[i] < key[mid])
        BY <1>1, <2>1
      <4>3. QED
        BY <1>1, <2>4, <4>1, <4>2
    <3>5. QED
      BY <1>2, <1>3, <3>2, <3>3, <3>4 DEF later
  <2>5. CASE ~(key[mid] < r)
    <3>1. later = [lo |-> lo, hi |-> mid]
      BY <1>2, <2>3, <2>5
    <3>2. later.lo = lo /\ later.hi = mid /\ later \in [lo : 1 .. n + 1, hi : 1 .. n + 1]
      BY <1>1, <1>2, <2>1, <3>1
    <3>3. lo <= mid /\ mid - lo <= n - (k + 1)
      BY <1>1, <1>2, <2>1
    <3>4. ASSUME NEW i \in 1 .. n, i >= mid PROVE ~(key[i] < r)
      <4>1. i = mid \/ mid < i
        BY <2>1, <3>4
      <4>2. key[i] \in Int /\ key[mid] \in Int /\ (mid < i => key[mid] < key[i])
        BY <1>1, <2>1
      <4>3. QED
        BY <1>1, <2>5, <4>1, <4>2
    <3>5. QED
      BY <1>2, <1>3, <3>2, <3>3, <3>4 DEF later
  <2>6. QED
    BY <2>4, <2>5
<1>6. QED
  BY <1>4, <1>5

(* bisect_left: everything before the place is below the name, nothing     *)
(* from there on is.                                                       *)
LEMMA BisectFinds ==
    ASSUME NEW blob, NEW section, NEW entries, entries = blob.entries[section],
           Len(entries) \in Nat, NEW name, Rank[name] \in Int, Ascends(blob, entries)
    PROVE  LET b == BisectLeft(blob, section, name)
               Key(i) == Rank[StringAt(blob, entries[i].name)]
           IN  /\ b \in 1 .. Len(entries) + 1
               /\ \A i \in 1 .. Len(entries) : (i < b) = (Key(i) < Rank[name])
<1> DEFINE n == Len(entries)
           S == [lo : 1 .. n + 1, hi : 1 .. n + 1]
           all == [lo |-> 1, hi |-> n + 1]
           Body(f) == [k \in 0 .. n |-> IF k = 0 THEN all ELSE Halve(blob, entries, name, f[k - 1])]
           h == CHOOSE x : x = Body(x)
           Done(range, k) == Narrowed(blob, entries, name, range, k)
           Next(range) == Halve(blob, entries, name, range)
           H == [k \in 1 .. n |-> [s \in S |->
                    IF Done(s, k - 1) THEN Next(s) ELSE s]]
<1>1. n \in Nat
  OBVIOUS
<1>2. BisectLeft(blob, section, name) = h[n].lo
  BY DEF BisectLeft
<1>3. Done(all, 0)
  BY <1>1 DEF Narrowed
<1>4. \A k \in 0 .. n - 1 : \A range : Done(range, k) => Done(Next(range), k + 1)
  BY HalveNarrows
<1>5. \A k, range : Done(range, k) => range \in S /\ range.lo <= range.hi /\ range.hi - range.lo <= n - k
  BY DEF Narrowed
<1> HIDE DEF Next
<1>6. H \in [1 .. n -> [S -> S]]
  <2>1. ASSUME NEW k \in 1 .. n, NEW s \in S, Done(s, k - 1) PROVE Next(s) \in S
    <3>1. k - 1 \in 0 .. n - 1
      BY <1>1
    <3> HIDE DEF Done, S, n
    <3>2. Done(Next(s), (k - 1) + 1)
      BY <1>4, <2>1, <3>1
    <3>3. QED
      BY <1>5, <3>2
  <2> HIDE DEF S, n, Done
  <2>2. QED
    BY <2>1
<1> HIDE DEF Done, n
<1>7. all \in S
  BY <1>3, <1>5
<1> HIDE DEF S, all
<1>8. \A k \in 1 .. n : \A s \in S : Done(s, k - 1) => H[k][s] = Next(s)
  OBVIOUS
<1> HIDE DEF H
<1>9. PICK f : IsRun(f, S, all, n, H)
  BY <1>1, <1>6, <1>7, Iterates
<1>10. f \in [0 .. n -> S] /\ f[0] = all /\ \A k \in 1 .. n : f[k] = H[k][f[k - 1]]
  BY <1>9 DEF IsRun
<1> DEFINE P == {k \in 0 .. n : Done(f[k], k)}
<1>11. P = 0 .. n
  <2>1. 0 \in P
    BY <1>1, <1>3, <1>10
  <2>2. ASSUME NEW k \in 0 .. n - 1, k \in P PROVE k + 1 \in P
    <3>1. k + 1 \in 1 .. n /\ k + 1 - 1 = k /\ k + 1 \in 0 .. n /\ k \in 0 .. n
      BY <1>1
    <3>2. f[k + 1] = Next(f[k])
      BY <1>8, <1>10, <2>2, <3>1
    <3>3. QED
      BY <1>4, <2>2, <3>1, <3>2
  <2>3. P \in SUBSET (0 .. n)
    OBVIOUS
  <2> HIDE DEF P
  <2>4. QED
    BY <1>1, <2>1, <2>2, <2>3, UpTo
<1>12. f = Body(f)
  <2>1. ASSUME NEW k \in 0 .. n, k # 0 PROVE f[k] = Next(f[k - 1])
    <3>1. k \in 1 .. n /\ k - 1 \in 0 .. n /\ k - 1 \in P
      BY <1>1, <1>11, <2>1
    <3>2. QED
      BY <1>8, <1>10, <3>1
  <2>2. QED
    BY <1>10, <2>1 DEF Next
<1>13. h = Body(h)
  BY <1>12
<1> HIDE DEF P
<1>14. h[0] = all /\ \A k \in 1 .. n : h[k] = Next(h[k - 1])
  <2> HIDE DEF h
  <2>1. ASSUME NEW k \in 0 .. n
        PROVE  Body(h)[k] = IF k = 0 THEN all ELSE Next(h[k - 1])
    BY DEF Next
  <2>2. 0 \in 0 .. n /\ \A k \in 1 .. n : k \in 0 .. n /\ k # 0
    BY <1>1
  <2> HIDE DEF Body
  <2>3. QED
    BY <1>13, <2>1, <2>2
<1> HIDE DEF h, Body
<1> DEFINE Q == {k \in 0 .. n : Done(h[k], k)}
<1>15. Q = 0 .. n
  <2>1. 0 \in Q
    BY <1>1, <1>3, <1>14
  <2>2. ASSUME NEW k \in 0 .. n - 1, k \in Q PROVE k + 1 \in Q
    <3>1. k + 1 \in 1 .. n /\ k + 1 - 1 = k /\ k + 1 \in 0 .. n
      BY <1>1
    <3>2. QED
      BY <1>4, <1>14, <2>2, <3>1
  <2>3. Q \in SUBSET (0 .. n)
    OBVIOUS
  <2> HIDE DEF Q
  <2>4. QED
    BY <1>1, <2>1, <2>2, <2>3, UpTo
<1>16. Done(h[n], n)
  <2>1. n \in Q
    <3> HIDE DEF Q
    <3>1. QED
      BY <1>1, <1>15
  <2>2. QED
    BY <2>1
<1> DEFINE b == h[n].lo
           key == [i \in 1 .. n |-> Rank[StringAt(blob, entries[i].name)]]
<1>17. /\ b \in 1 .. n + 1 /\ h[n].hi \in 1 .. n + 1 /\ b <= h[n].hi /\ h[n].hi - b <= n - n
       /\ \A i \in 1 .. n : i < b => key[i] < Rank[name]
       /\ \A i \in 1 .. n : i >= h[n].hi => ~(key[i] < Rank[name])
  BY <1>16 DEF Done, Narrowed, n
<1>18. h[n].hi = b
  <2> DEFINE x == h[n].hi
  <2> HIDE DEF b, x
  <2>1. b \in 1 .. n + 1 /\ x \in 1 .. n + 1 /\ b <= x /\ x - b <= n - n
    BY <1>17 DEF x
  <2>2. x = b
    BY <1>1, <2>1
  <2>3. QED
    BY <2>2 DEF x
<1>19. ASSUME NEW i \in 1 .. n PROVE (i < b) = (key[i] < Rank[name])
  <2> HIDE DEF b, key
  <2>1. i < b \/ i >= b
    BY <1>17
  <2>2. (i < b) => (key[i] < Rank[name])
    BY <1>17
  <2>3. (i >= b) => ~(key[i] < Rank[name])
    BY <1>17, <1>18
  <2>4. i < b => ~(i >= b)
    BY <1>17
  <2>5. QED
    BY <2>1, <2>2, <2>3, <2>4
<1>20. QED
  BY <1>2, <1>17, <1>19 DEF n

-----------------------------------------------------------------------------
(* The Reader finds what was packed                                        *)

(* Records have names, and lists where a section repeats.                  *)
Sound(manifest, section) ==
    LET records == manifest[section]
    IN  /\ IsList(records)
        /\ \A i \in DOMAIN records :
              NameOf(section, records[i]) \in DOMAIN Rank /\ Listed(section, records[i])

LEMMA NamesAscend ==
    ASSUME NEW manifest, NEW section, Sound(manifest, section)
    PROVE  LET names == SortedNames(manifest, section)
               records == manifest[section]
           IN  /\ names \in Seq(DOMAIN Rank)
               /\ \A i \in 1 .. Len(names) : Rank[names[i]] \in Int
               /\ \A i, j \in 1 .. Len(names) : i < j => Rank[names[i]] < Rank[names[j]]
               /\ \A i \in DOMAIN records :
                     \E j \in 1 .. Len(names) : names[j] = NameOf(section, records[i])
<1> DEFINE records == manifest[section]
           K == {NameOf(section, records[i]) : i \in DOMAIN records}
           names == SortedNames(manifest, section)
           keys == [i \in DOMAIN records |-> NameOf(section, records[i])]
           R == ByText(K)
<1>1. names = Alphabetical(K)
  BY DEF SortedNames
<1>2. K \in SUBSET DOMAIN Rank
  BY DEF Sound
<1>3. IsFiniteSet(K)
  <2>1. keys \in Seq(K)
    <3>1. DOMAIN records = 1 .. Len(records) /\ Len(records) \in Nat
      BY DEF Sound, IsList
    <3>2. QED
      BY <3>1
  <2>2. K = {keys[i] : i \in DOMAIN keys}
    OBVIOUS
  <2> HIDE DEF keys, K
  <2>3. QED
    BY <2>1, <2>2, ValuesAreFew
<1>4. \A i \in DOMAIN records : NameOf(section, records[i]) \in K
  OBVIOUS
<1> HIDE DEF K, names
<1>5. /\ DOMAIN names = 1 .. Cardinality(K) /\ Cardinality(K) \in Nat
      /\ \A k \in DOMAIN names : names[k] \in K
      /\ \A n \in K : \E k \in DOMAIN names : names[k] = n
  BY <1>1, <1>2, <1>3, AlphabeticalTakesAll
<1>6. names \in Seq(DOMAIN Rank) /\ Len(names) = Cardinality(K)
  <2>1. names = [k \in 1 .. Cardinality(K) |-> Nth(K, ByText(K), k)]
    BY <1>1 DEF Alphabetical
  <2>2. names = [k \in 1 .. Cardinality(K) |-> names[k]]
    BY <2>1
  <2>3. \A k \in 1 .. Cardinality(K) : names[k] \in DOMAIN Rank
    BY <1>2, <1>5
  <2>4. QED
    BY <1>5, <2>2, <2>3
<1>7. \A m, n \in K : Rank[m] \in Int /\ (Rank[m] = Rank[n] => m = n)
  BY <1>2, TextIsOrdered
<1>8. StrictTotalOrder(R, K)
  BY <1>7 DEF ByText, StrictTotalOrder
<1>9. ASSUME NEW i \in 1 .. Len(names), NEW j \in 1 .. Len(names), i < j
      PROVE  Rank[names[i]] < Rank[names[j]]
  <2>1. names[i] = Nth(K, R, i) /\ names[j] = Nth(K, R, j)
    BY <1>1, <1>5, <1>6 DEF Alphabetical
  <2>2. <<Nth(K, R, i), Nth(K, R, j)>> \in R
    BY <1>3, <1>6, <1>8, <1>9, NthFollowsOrder
  <2>3. \A mn \in R : Rank[mn[1]] < Rank[mn[2]]
    BY DEF ByText
  <2> HIDE DEF R
  <2>4. QED
    BY <2>1, <2>2, <2>3
<1>10. \A i \in 1 .. Len(names) : Rank[names[i]] \in Int
  BY <1>5, <1>6, <1>7
<1>11. \A i \in DOMAIN records :
          \E j \in 1 .. Len(names) : names[j] = NameOf(section, records[i])
  BY <1>4, <1>5, <1>6
<1>12. QED
  BY <1>6, <1>9, <1>10, <1>11 DEF names

LEMMA GroupsSelect ==
    ASSUME NEW manifest, NEW section, Sound(manifest, section), NEW name
    PROVE  LET records == manifest[section]
               group == Grouped(manifest, section, name)
           IN  /\ IsList(group)
               /\ \A k \in DOMAIN group : \E i \in DOMAIN records :
                     group[k] = records[i] /\ NameOf(section, records[i]) = name
<1> DEFINE records == manifest[section]
           S == {records[i] : i \in DOMAIN records}
           K == {i \in DOMAIN records : NameOf(section, records[i]) = name}
           group == Grouped(manifest, section, name)
<1>1. group = Selection(records, K)
  BY DEF Grouped
<1>2. records \in Seq(S)
  BY DEF Sound, IsList
<1>3. \A i \in K : i \in DOMAIN records /\ NameOf(section, records[i]) = name
  OBVIOUS
<1>4. K \in SUBSET DOMAIN records
  OBVIOUS
<1> HIDE DEF K, records, S, group
<1>5. group \in Seq(S)
  BY <1>1, <1>2, <1>4, SelectionSelects
<1>6. \A k \in DOMAIN group : \E i \in K : group[k] = records[i]
  BY <1>1, <1>2, <1>4, SelectionElements
<1>7. IsList(group)
  BY <1>5, SequencesAreLists
<1>8. QED
  BY <1>3, <1>6, <1>7 DEF records, group

LEMMA LookupFinds ==
    ASSUME NEW V, NEW blob \in Blobs(V), NEW manifest, NEW section \in SectionNames,
           Prepared(V, manifest, section), Sound(manifest, section),
           SectionPacked(blob, manifest, section), NEW name \in DOMAIN Rank
    PROVE  LET group == Grouped(manifest, section, name)
           IN  Lookup(blob, section, name)
                  = [k \in DOMAIN group |-> ValuesOf(section, group[k])]
<1> DEFINE names == SortedNames(manifest, section)
           entries == blob.entries[section]
           group == Grouped(manifest, section, name)
           n == Len(names)
           Key(i) == Rank[StringAt(blob, entries[i].name)]
           b == BisectLeft(blob, section, name)
           wanted == [k \in DOMAIN group |-> ValuesOf(section, group[k])]
<1>0. /\ IsList(group)
      /\ \A k \in DOMAIN group : \E i \in DOMAIN manifest[section] :
            group[k] = manifest[section][i] /\ NameOf(section, manifest[section][i]) = name
  BY GroupsSelect
<1>1. /\ names \in Seq(DOMAIN Rank) /\ n \in Nat
      /\ \A i \in 1 .. n : Rank[names[i]] \in Int
      /\ \A i, j \in 1 .. n : i < j => Rank[names[i]] < Rank[names[j]]
      /\ \A i \in DOMAIN manifest[section] :
            \E j \in 1 .. n : names[j] = NameOf(section, manifest[section][i])
  BY NamesAscend
<1>2. /\ Len(entries) = n
      /\ \A j \in 1 .. n :
            /\ EntryFor(blob, section, entries[j], names[j], Grouped(manifest, section, names[j]))
            /\ StringAt(blob, entries[j].name) = names[j]
  BY DEF SectionPacked, EntriesUpTo, EntryFor, Reads
<1>3. Rank[name] \in Int
  BY TextIsOrdered
<1>4. \A i \in 1 .. n : Key(i) = Rank[names[i]]
  BY <1>2
<1> HIDE DEF names, n
<1>5. Ascends(blob, entries)
  BY <1>1, <1>2, <1>4 DEF Ascends
<1>6. b \in 1 .. n + 1 /\ \A i \in 1 .. n : (i < b) = (Key(i) < Rank[name])
  <2> HIDE DEF entries
  <2>1. entries = blob.entries[section] /\ Len(entries) \in Nat
    BY <1>1, <1>2 DEF entries
  <2>2. QED
    BY <1>2, <1>3, <1>5, <2>1, BisectFinds
<1>7. Lookup(blob, section, name)
         = IF b > n \/ StringAt(blob, entries[b].name) # name THEN <<>>
           ELSE ReadGroup(blob, section, entries[b].at)
  BY <1>2 DEF Lookup
<1> HIDE DEF b, group
<1>8. CASE \E j \in 1 .. n : names[j] = name
  <2>1. PICK j \in 1 .. n : names[j] = name
    BY <1>8
  <2>2. b = j
    <3>1. ~(j < b)
      BY <1>3, <1>4, <1>6, <2>1
    <3>2. ASSUME b < j PROVE FALSE
      <4>1. b \in 1 .. n
        BY <1>1, <1>6, <3>2
      <4>2. Rank[names[b]] < Rank[names[j]]
        BY <1>1, <3>2, <4>1
      <4>3. b < b
        BY <1>4, <1>6, <2>1, <4>1, <4>2
      <4>4. QED
        BY <1>1, <4>1, <4>3
    <3>3. QED
      BY <1>1, <1>6, <3>1, <3>2
  <2>3. ~(b > n) /\ StringAt(blob, entries[b].name) = name
    BY <1>1, <1>2, <2>1, <2>2
  <2> DEFINE p == entries[b].at
  <2>4. GroupAt(blob, section, group, p)
    BY <1>2, <2>1, <2>2 DEF EntryFor, group
  <2>5. Packable(V, section, group)
    BY <2>1 DEF Prepared, names, n, group
  <2>6. ASSUME NEW k \in 1 .. Len(group) PROVE WellShaped(section, ValuesOf(section, group[k]))
    <3> DEFINE r == group[k]
    <3>1. DOMAIN group = 1 .. Len(group)
      BY <2>5 DEF Packable, IsList
    <3>2. \E i \in DOMAIN manifest[section] : r = manifest[section][i]
      BY <1>0, <3>1
    <3>3. Listed(section, r)
      BY <3>2 DEF Sound
    <3> HIDE DEF r
    <3>4. WellShaped(section, ValuesOf(section, r))
      BY <3>3, RecordsAreShaped
    <3>5. QED
      BY <3>4 DEF r
  <2> HIDE DEF p
  <2>7. ReadGroup(blob, section, p) = [k \in 1 .. Len(group) |-> ValuesOf(section, group[k])]
    BY <2>4, <2>5, <2>6, GroupsAreRead
  <2>8. DOMAIN group = 1 .. Len(group)
    BY <2>5 DEF Packable, IsList
  <2>9. QED
    BY <1>7, <2>3, <2>7, <2>8 DEF p, group
<1>9. CASE ~(\E j \in 1 .. n : names[j] = name)
  <2>1. b > n \/ StringAt(blob, entries[b].name) # name
    <3>1. b > n \/ b \in 1 .. n
      BY <1>1, <1>6
    <3>2. QED
      BY <1>2, <1>9, <3>1
  <2>2. Lookup(blob, section, name) = <<>>
    BY <1>7, <2>1
  <2>3. \A i \in DOMAIN manifest[section] : NameOf(section, manifest[section][i]) # name
    BY <1>1, <1>9
  <2>4. IsList(group) /\ DOMAIN group = {}
    BY <1>0, <2>3
  <2>5. wanted = <<>>
    <3>1. \A f, g : DOMAIN f = {} /\ DOMAIN g = {} /\ f = [x \in {} |-> f[x]] /\ g = [x \in {} |-> g[x]]
             => f = g
      OBVIOUS
    <3>2. wanted = [k \in {} |-> ValuesOf(section, group[k])]
      BY <2>4
    <3>3. QED
      BY <3>2
  <2>6. QED
    BY <2>2, <2>5 DEF group
<1>10. QED
  BY <1>8, <1>9

(* What a manifest has words of.                                           *)
WordsOf(section, r) ==
    {ValuesOf(section, r)[j] : j \in DOMAIN ValuesOf(section, r)}
WordsIn(manifest) ==
    Nat \cup DOMAIN Rank \cup
    UNION {UNION {WordsOf(s, manifest[s][i]) : i \in DOMAIN manifest[s]} : s \in SectionNames}

LEMMA SoundIsPrepared ==
    ASSUME NEW manifest, NEW section \in SectionNames, Sound(manifest, section)
    PROVE  Prepared(WordsIn(manifest), manifest, section)
<1> DEFINE V == WordsIn(manifest)
           names == SortedNames(manifest, section)
           records == manifest[section]
<1>1. names \in Seq(V)
  <2>1. names \in Seq(DOMAIN Rank) /\ DOMAIN Rank \in SUBSET V
    BY NamesAscend DEF WordsIn
  <2> HIDE DEF names, V
  <2>2. QED
    BY <2>1
<1>2. ASSUME NEW i \in DOMAIN records PROVE ValuesOf(section, records[i]) \in Seq(V)
  <2> DEFINE r == records[i]
             values == ValuesOf(section, r)
  <2>1. WordsOf(section, r) \in SUBSET V
    BY DEF WordsIn
  <2>2. IsList(values)
    <3>1. Listed(section, r)
      BY DEF Sound
    <3>2. QED
      BY <3>1, RecordsAreShaped DEF WellShaped
  <2>3. values \in Seq(WordsOf(section, r))
    BY <2>2 DEF WordsOf, IsList
  <2> HIDE DEF values, V
  <2>4. values \in Seq(V)
    BY <2>1, <2>3
  <2>5. QED
    BY <2>4 DEF values
<1>3. ASSUME NEW name PROVE Packable(V, section, Grouped(manifest, section, name))
  <2> DEFINE group == Grouped(manifest, section, name)
  <2>1. /\ IsList(group)
        /\ \A k \in DOMAIN group : \E i \in DOMAIN records : group[k] = records[i]
    BY GroupsSelect
  <2> HIDE DEF group, V, records
  <2>2. DOMAIN group = 1 .. Len(group)
    BY <2>1 DEF IsList
  <2>3. ASSUME NEW k \in 1 .. Len(group) PROVE ValuesOf(section, group[k]) \in Seq(V)
    <3>1. PICK i \in DOMAIN records : group[k] = records[i]
      BY <2>1, <2>2
    <3>2. QED
      BY <1>2, <3>1
  <2>4. Packable(V, section, group)
    BY <2>1, <2>3 DEF Packable
  <2>5. QED
    BY <2>4 DEF group
<1>4. QED
  BY <1>1, <1>3 DEF Prepared

LEMMA PackedReads ==
    ASSUME NEW manifest, \A section \in SectionNames : Sound(manifest, section),
           NEW section \in SectionNames, NEW name \in DOMAIN Rank
    PROVE  LET group == Grouped(manifest, section, name)
           IN  Lookup(PackManifest(manifest), section, name)
                  = [k \in DOMAIN group |-> ValuesOf(section, group[k])]
<1> DEFINE V == WordsIn(manifest)
           blob == PackManifest(manifest)
<1>1. \A s \in SectionNames : Prepared(V, manifest, s)
  BY SoundIsPrepared
<1>2. Nat \in SUBSET V
  BY DEF WordsIn
<1> HIDE DEF V, blob
<1>3. blob \in Blobs(V) /\ SectionPacked(blob, manifest, section)
  BY <1>1, <1>2, AllPacked DEF blob
<1>4. QED
  BY <1>1, <1>3, LookupFinds DEF blob

=============================================================================
