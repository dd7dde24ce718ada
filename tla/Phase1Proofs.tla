---------------------------- MODULE Phase1Proofs ----------------------------
(***************************************************************************)
(* Theorems of Phase1, for any projects, any pool and any number of edits, *)
(* crashes and runs.                                                       *)
(***************************************************************************)
EXTENDS Phase1Properties, ListingTheorems

(* What a build that nobody disturbs knows: until it has written its stamp *)
(* the file is the one it has loaded, what it saves was built from that,   *)
(* and a stamp that was left by such a build is that of the PCH.           *)
PchInv ==
    /\ InBuild /\ ~raced => read = cdb
    /\ pc = "stamp" => pch = read
    /\ ~suspect /\ pc # "stamp" => stamp = NoPch \/ stamp = pch

(* Steps of the pool and of the merge leave the cache alone.               *)
cacheVars == <<cdb, pch, stamp, read, raced, suspect>>
LEMMA OutsideTheCache ==
    ASSUME PchInv, UNCHANGED cacheVars,
           pc' = pc \/ ~InBuild',
           pc = "stamp" => pc' = "stamp"
    PROVE  PchInv'
BY DEF PchInv, cacheVars, InBuild

LEMMA PchInvStep ==
    ASSUME PchInv, [Next]_vars
    PROVE  PchInv'
<1> USE DEF PchInv, InBuild
<1>1. CASE Load
  BY <1>1 DEF Load, diskVars, scanVars
<1>2. CASE AskStale
  BY <1>2 DEF AskStale, diskVars, readVars
<1>3. CASE ParseUmbrella
  BY <1>3 DEF ParseUmbrella, diskVars, readVars
<1>4. CASE SavePch
  BY <1>4 DEF SavePch, readVars
<1>5. CASE StampPch
  BY <1>5 DEF StampPch, readVars
<1>6. ASSUME NEW file \in unscanned, ScanArrives(file)
      PROVE  PchInv'
  BY <1>6 DEF ScanArrives, diskVars, readVars
<1>7. CASE EditDb
  BY <1>7 DEF EditDb, readVars
<1>8. CASE Restart
  BY <1>8 DEF Restart, StartRun, diskVars, readVars
<1> HIDE DEF PchInv, InBuild
<1>9. CASE StartPool \/ EndWalk \/ OpenManifest \/ DumpManifest
  <2>1. UNCHANGED cacheVars /\ pc # "stamp" /\ pc' \in {"merge", "open", "dump", "done"}
    BY <1>9 DEF StartPool, EndWalk, OpenManifest, DumpManifest, cacheVars, diskVars, readVars
  <2>2. QED
    BY <2>1, OutsideTheCache DEF InBuild
<1>10. CASE TakeResult \/ MergeRecord
  <2>1. UNCHANGED cacheVars /\ pc' = pc
    BY <1>10 DEF TakeResult, MergeRecord, cacheVars, pchVars
  <2>2. QED
    BY <2>1, OutsideTheCache
<1>11. ASSUME NEW w \in Workers, Worker(w) \/ WorkerDies(w)
       PROVE  PchInv'
  <2>1. UNCHANGED cacheVars /\ pc' = pc
    BY <1>11 DEF Worker, TakeChunk, ReturnChunk, WorkerDies, cacheVars, pchVars
  <2>2. QED
    BY <2>1, OutsideTheCache
<1>12. CASE UNCHANGED vars
  <2>1. UNCHANGED cacheVars /\ pc' = pc
    BY <1>12 DEF vars, cacheVars, pchVars
  <2>2. QED
    BY <2>1, OutsideTheCache
<1>13. QED
  BY <1>1, <1>2, <1>3, <1>4, <1>5, <1>6, <1>7, <1>8, <1>9, <1>10, <1>11, <1>12
     DEF Next, Main, PchStep

(* A precompiled header that counts as fresh was built from the flags that *)
(* compile_commands.json holds (pch.py:17 and pch.py:34), however often it *)
(* is edited and the extractor dies and is started again, unless an edit   *)
(* or a death falls between reading that file and stamping its hash.       *)
THEOREM FreshHeadersMatch == Spec => []FreshPchMatches
<1>1. Init => PchInv
  BY DEF Init, PchInit, PchInv, InBuild
<1>2. PchInv => FreshPchMatches
  BY DEF PchInv, FreshPchMatches, Stale, InBuild
<1>3. QED
  BY <1>1, <1>2, PchInvStep, PTL DEF Spec

-----------------------------------------------------------------------------
(* What the merge keeps of one section: a cached score per record, which   *)
(* is the record's, and an index that leads from each key to its record    *)
(* and from each record's key back to it.                                  *)
IsSeq(c) == \E S : c \in Seq(S)
Kept(s, c, scores, index) ==
    /\ IsSeq(c) /\ IsSeq(scores) /\ Len(scores) = Len(c)
    /\ \A i \in 1 .. Len(c) :
        /\ scores[i] = Score(s, c[i])
        /\ Key(s, c[i]) \in DOMAIN index /\ index[Key(s, c[i])] = i
    /\ index = [k \in DOMAIN index |-> index[k]]
    /\ \A k \in DOMAIN index : index[k] \in 1 .. Len(c) /\ Key(s, c[index[k]]) = k

MergeInv ==
    /\ DOMAIN combined = Sections /\ DOMAIN richness_cache = Sections
    /\ DOMAIN seen_index = Sections
    /\ \A s \in Sections : Kept(s, combined[s], richness_cache[s], seen_index[s])

(* d is c with r after it, or with r in the place i; upon is index with    *)
(* the new key k for the place n.                                          *)
Appended(d, c, r) ==
    /\ IsSeq(d) /\ Len(c) \in Nat /\ Len(d) = Len(c) + 1 /\ d[Len(c) + 1] = r
    /\ \A i \in 1 .. Len(c) : d[i] = c[i]
Replaced(d, c, i, r) ==
    /\ IsSeq(d) /\ Len(d) = Len(c) /\ d[i] = r
    /\ \A j \in 1 .. Len(c) : j # i => d[j] = c[j]

Indexed(upon, index, k, n) ==
    /\ upon = [l \in DOMAIN upon |-> upon[l]]
    /\ DOMAIN upon = DOMAIN index \cup {k} /\ upon[k] = n
    /\ \A l \in DOMAIN index : upon[l] = index[l]

LEMMA AppendAppends == \A c, r : IsSeq(c) => Appended(Append(c, r), c, r)
<1> SUFFICES ASSUME NEW c, NEW r, IsSeq(c)
             PROVE  Appended(Append(c, r), c, r)
  OBVIOUS
<1>1. PICK S : c \in Seq(S)
  BY DEF IsSeq
<1>2. c \in Seq(S \cup {r}) /\ r \in S \cup {r}
  BY <1>1
<1>3. Append(c, r) \in Seq(S \cup {r})
  BY <1>2
<1>4. IsSeq(Append(c, r))
  BY <1>3 DEF IsSeq
<1>5. QED
  BY <1>2, <1>4 DEF Appended

LEMMA ExceptReplaces ==
    \A c, r : IsSeq(c) => \A i \in 1 .. Len(c) : Replaced([c EXCEPT ![i] = r], c, i, r)
<1> SUFFICES ASSUME NEW c, NEW r, IsSeq(c), NEW i \in 1 .. Len(c)
             PROVE  Replaced([c EXCEPT ![i] = r], c, i, r)
  OBVIOUS
<1>1. PICK S : c \in Seq(S)
  BY DEF IsSeq
<1>2. c \in Seq(S \cup {r}) /\ r \in S \cup {r}
  BY <1>1
<1>3. [c EXCEPT ![i] = r] \in Seq(S \cup {r})
  BY <1>2
<1>4. IsSeq([c EXCEPT ![i] = r])
  BY <1>3 DEF IsSeq
<1>5. QED
  BY <1>2, <1>4 DEF Replaced

(* A record with a new key goes to the end, with its score.                *)
LEMMA NewKeepsKept ==
    ASSUME NEW s, NEW c, NEW scores, NEW index, NEW r,
           Kept(s, c, scores, index), Key(s, r) \notin DOMAIN index,
           NEW d, Appended(d, c, r), NEW more, Appended(more, scores, Score(s, r)),
           NEW upon, Indexed(upon, index, Key(s, r), Len(c) + 1)
    PROVE  Kept(s, d, more, upon)
<1> USE DEF Indexed
<1>1. ASSUME NEW i \in 1 .. Len(d)
      PROVE  more[i] = Score(s, d[i]) /\ Key(s, d[i]) \in DOMAIN upon /\ upon[Key(s, d[i])] = i
  <2>1. CASE i = Len(c) + 1
    BY <2>1 DEF Appended, Kept
  <2>2. CASE i \in 1 .. Len(c)
    <3>1. d[i] = c[i] /\ more[i] = scores[i]
      BY <2>2 DEF Appended, Kept
    <3>2. scores[i] = Score(s, c[i]) /\ Key(s, c[i]) \in DOMAIN index /\ index[Key(s, c[i])] = i
      BY <2>2 DEF Kept
    <3>3. QED
      BY <3>1, <3>2
  <2>3. QED
    BY <2>1, <2>2 DEF Appended
<1>2. ASSUME NEW k \in DOMAIN upon
      PROVE  upon[k] \in 1 .. Len(d) /\ Key(s, d[upon[k]]) = k
  <2>1. CASE k = Key(s, r)
    BY <2>1 DEF Appended
  <2>2. CASE k \in DOMAIN index
    <3>1. index[k] \in 1 .. Len(c) /\ Key(s, c[index[k]]) = k
      BY <2>2 DEF Kept
    <3>2. QED
      BY <2>2, <3>1 DEF Appended
  <2>3. QED
    BY <2>1, <2>2
<1>3. IsSeq(d) /\ IsSeq(more) /\ Len(more) = Len(d)
  BY DEF Appended, Kept
<1>4. QED
  BY <1>1, <1>2, <1>3 DEF Kept

(* A better record takes the place of the one that has its key.            *)
LEMMA BetterKeepsKept ==
    ASSUME NEW s, NEW c, NEW scores, NEW index, NEW r,
           Kept(s, c, scores, index), Key(s, r) \in DOMAIN index,
           NEW i, i = index[Key(s, r)],
           NEW d, Replaced(d, c, i, r), NEW more, Replaced(more, scores, i, Score(s, r))
    PROVE  Kept(s, d, more, index)
<1>1. i \in 1 .. Len(c) /\ Key(s, c[i]) = Key(s, r) /\ Len(scores) = Len(c)
  BY DEF Kept
<1>2. ASSUME NEW j \in 1 .. Len(d)
      PROVE  more[j] = Score(s, d[j]) /\ Key(s, d[j]) \in DOMAIN index /\ index[Key(s, d[j])] = j
  <2>1. CASE j = i
    BY <1>1, <2>1 DEF Replaced
  <2>2. CASE j # i
    <3>1. d[j] = c[j] /\ more[j] = scores[j] /\ j \in 1 .. Len(c)
      BY <1>1, <2>2 DEF Replaced
    <3>2. scores[j] = Score(s, c[j]) /\ Key(s, c[j]) \in DOMAIN index /\ index[Key(s, c[j])] = j
      BY <3>1 DEF Kept
    <3>3. QED
      BY <3>1, <3>2
  <2>3. QED
    BY <2>1, <2>2
<1>3. ASSUME NEW k \in DOMAIN index
      PROVE  index[k] \in 1 .. Len(d) /\ Key(s, d[index[k]]) = k
  <2>1. index[k] \in 1 .. Len(c) /\ Key(s, c[index[k]]) = k
    BY DEF Kept
  <2>2. QED
    BY <1>1, <2>1 DEF Replaced
<1>4. IsSeq(d) /\ IsSeq(more) /\ Len(more) = Len(d)
  BY <1>1 DEF Replaced
<1>5. QED
  BY <1>2, <1>3, <1>4 DEF Kept

LEMMA EmptyIsKept == \A s \in Sections : Kept(s, Empty[s], Empty[s], Empty[s])
<1>1. IsSeq(<<>>) /\ Len(<<>>) = 0 /\ DOMAIN <<>> = {}
  <2>1. <<>> \in Seq({})
    OBVIOUS
  <2>2. QED
    BY <2>1 DEF IsSeq
<1>2. QED
  BY <1>1 DEF Kept, Empty

LEMMA MergeInvStep ==
    ASSUME MergeInv, [Next]_vars
    PROVE  MergeInv'
<1>1. ASSUME UNCHANGED <<combined, seen_index, richness_cache>>
      PROVE  MergeInv'
  BY <1>1 DEF MergeInv
<1>2. CASE MergeRecord
  <2> DEFINE section == Head(inbox).section
             r == Head(inbox).record
  <2>1. CASE Key(section, r) \notin DOMAIN seen_index[section]
    <3>1. MergeNew(section, r)
      BY <1>2, <2>1 DEF MergeRecord
    <3> HIDE DEF section, r
    <3>2. ASSUME NEW s \in Sections
          PROVE  Kept(s, combined'[s], richness_cache'[s], seen_index'[s])
      <4>1. CASE s = section
        <5>1. /\ Kept(s, combined[s], richness_cache[s], seen_index[s])
              /\ Key(s, r) \notin DOMAIN seen_index[s]
          BY <2>1, <4>1 DEF MergeInv
        <5>2. /\ combined'[s] = Append(combined[s], r)
              /\ richness_cache'[s] = Append(richness_cache[s], Score(s, r))
          BY <3>1, <4>1 DEF MergeNew, MergeInv
        <5>3. seen_index'[s] = [k \in DOMAIN seen_index[s] \cup {Key(s, r)} |->
                    IF k = Key(s, r) THEN Len(combined[s]) + 1 ELSE seen_index[s][k]]
          BY <3>1, <4>1 DEF MergeNew, MergeInv
        <5>4. Indexed(seen_index'[s], seen_index[s], Key(s, r), Len(combined[s]) + 1)
          BY <5>1, <5>3 DEF Indexed
        <5>5. IsSeq(combined[s]) /\ IsSeq(richness_cache[s])
          BY <5>1 DEF Kept
        <5>6. /\ Appended(combined'[s], combined[s], r)
              /\ Appended(richness_cache'[s], richness_cache[s], Score(s, r))
          BY <5>2, <5>5, AppendAppends
        <5>7. QED
          BY <5>1, <5>4, <5>6, NewKeepsKept
      <4>2. CASE s # section
        BY <3>1, <4>2 DEF MergeNew, MergeInv
      <4>3. QED
        BY <4>1, <4>2
    <3>3. QED
      BY <3>1, <3>2 DEF MergeNew, MergeInv
  <2>2. CASE Key(section, r) \in DOMAIN seen_index[section]
    <3>1. MergeAgain(section, r)
      BY <1>2, <2>2 DEF MergeRecord
    <3> HIDE DEF section, r
    <3> DEFINE i == seen_index[section][Key(section, r)]
    <3>2. CASE UNCHANGED <<combined, seen_index, richness_cache>>
      BY <1>1, <3>2
    <3>3. CASE /\ combined' = [combined EXCEPT ![section][i] = r]
               /\ richness_cache' = [richness_cache EXCEPT ![section][i] = Score(section, r)]
               /\ seen_index' = seen_index
      <4>1. ASSUME NEW s \in Sections
            PROVE  Kept(s, combined'[s], richness_cache'[s], seen_index'[s])
        <5>1. CASE s = section
          <6>1. /\ Kept(s, combined[s], richness_cache[s], seen_index[s])
                /\ Key(s, r) \in DOMAIN seen_index[s] /\ i = seen_index[s][Key(s, r)]
            BY <2>2, <5>1 DEF MergeInv
          <6>2. /\ combined'[s] = [combined[s] EXCEPT ![i] = r]
                /\ richness_cache'[s] = [richness_cache[s] EXCEPT ![i] = Score(s, r)]
            BY <3>3, <5>1 DEF MergeInv
          <6>3. /\ IsSeq(combined[s]) /\ IsSeq(richness_cache[s])
                /\ i \in 1 .. Len(combined[s]) /\ i \in 1 .. Len(richness_cache[s])
            BY <6>1 DEF Kept
          <6> HIDE DEF i
          <6>4. /\ Replaced(combined'[s], combined[s], i, r)
                /\ Replaced(richness_cache'[s], richness_cache[s], i, Score(s, r))
            BY <6>2, <6>3, ExceptReplaces
          <6>5. QED
            BY <3>3, <6>1, <6>4, BetterKeepsKept
        <5>2. CASE s # section
          BY <3>3, <5>2 DEF MergeInv
        <5>3. QED
          BY <5>1, <5>2
      <4>2. QED
        BY <3>3, <4>1 DEF MergeInv
    <3>4. QED
      BY <3>1, <3>2, <3>3 DEF MergeAgain
  <2>3. QED
    BY <2>1, <2>2
<1>3. CASE Restart
  BY <1>3, EmptyIsKept DEF Restart, MergeInv, Empty
<1>4. CASE /\ PchStep \/ EditDb
           /\ UNCHANGED mergeVars
  BY <1>1, <1>4 DEF mergeVars
<1>5. CASE StartPool \/ EndWalk \/ OpenManifest \/ DumpManifest \/ TakeResult
  BY <1>1, <1>5 DEF StartPool, EndWalk, OpenManifest, DumpManifest, TakeResult, mergeVars
<1>6. ASSUME NEW w \in Workers, Worker(w) \/ WorkerDies(w)
      PROVE  MergeInv'
  BY <1>1, <1>6 DEF Worker, TakeChunk, ReturnChunk, WorkerDies, mergeVars
<1>7. CASE UNCHANGED vars
  BY <1>1, <1>7 DEF vars
<1>8. QED
  BY <1>2, <1>3, <1>4, <1>5, <1>6, <1>7 DEF Next, Main

(* Whatever the order in which results come back, the manifest has no key  *)
(* twice, and the score by which a record defends its place is its own     *)
(* (extract.py:203-212).                                                   *)
OneRecordPerKey ==
    \A s \in Sections :
        /\ \A i, j \in DOMAIN combined[s] :
            Key(s, combined[s][i]) = Key(s, combined[s][j]) => i = j
        /\ \A i \in DOMAIN combined[s] : richness_cache[s][i] = Score(s, combined[s][i])

(* OneRecordPerKey holds for every pool and all projects: the merge of the *)
(* records of the workers (extract.py:188-212).                            *)
THEOREM KeysAreUnique == Spec => []OneRecordPerKey
<1>1. Init => MergeInv
  BY EmptyIsKept DEF Init, MergeInv, Empty
<1>2. ASSUME MergeInv
      PROVE  OneRecordPerKey
  <2>1. ASSUME NEW s \in Sections
        PROVE  DOMAIN combined[s] = 1 .. Len(combined[s])
    <3>1. PICK S : combined[s] \in Seq(S)
      BY <1>2 DEF MergeInv, Kept, IsSeq
    <3>2. QED
      BY <3>1
  <2>2. QED
    BY <1>2, <2>1 DEF MergeInv, Kept, OneRecordPerKey
<1>3. QED
  BY <1>1, <1>2, MergeInvStep, PTL DEF Spec
-----------------------------------------------------------------------------
(* What a project is about: its contents, and the files that can be        *)
(* scanned and walked.                                                     *)
Contents == DOMAIN project.dbs
Files == DOMAIN project.includes \cap DOMAIN project.tus

ProjectInv ==
    /\ project \in Projects /\ pc \in Places
    /\ {cdb, read} \subseteq Contents
    /\ {pch, stamp, pch_path} \subseteq Contents \cup {NoPch}
    /\ FileOrder \in Seq(Files)
    /\ scanned \cup unscanned \subseteq ToSet(FileOrder)
    /\ pc = "load" => scanned = {} /\ unscanned = {}

(* A flag map lists files of the project.                                  *)
LEMMA FlagMapsListFiles ==
    ASSUME project \in Projects, NEW content \in Contents
    PROVE  FlagMaps[Db(content)].order \in Seq(Files)
<1> DEFINE db == project.dbs[content]
           files == [i \in DOMAIN db |-> db[i].file]
<1>1. /\ db \in ToSet(project.dbs) /\ db \in Databases
      /\ db \in Seq(ToSet(db))
      /\ \A e \in ToSet(db) : e.file \in Files
  <2>1. db \in ToSet(project.dbs)
    BY DEF Contents, ToSet
  <2>2. db \in Databases
    BY <2>1 DEF Databases
  <2>3. IsList(db) /\ \A e \in ToSet(db) : e.file \in Files
    BY <2>1, ProjectsAreWhole DEF Files
  <2>4. QED
    BY <2>1, <2>2, <2>3 DEF IsList, ToSet
<1> HIDE DEF db
<1>2. files \in Seq(Files)
  BY <1>1 DEF ToSet
<1> HIDE DEF files
<1>3. Selection(files, Firsts(files)) \in Seq(Files)
  BY <1>2, FirstsCoverAll, SelectionSelects
<1>4. FlagMaps[db].order = LoadOrder(db)
  BY <1>1 DEF FlagMaps
<1>5. QED
  BY <1>3, <1>4 DEF LoadOrder, files, Db, db

LEMMA ProjectInvStep ==
    ASSUME ProjectInv, [Next]_vars
    PROVE  ProjectInv'
<1>1. CASE Load
  <2>1. flag_map'.order \in Seq(Files)
    BY <1>1, FlagMapsListFiles DEF Load, ProjectInv
  <2>2. QED
    BY <1>1, <2>1 DEF Load, ProjectInv, Places, Contents, Files, FileOrder, diskVars, scanVars
<1>2. CASE AskStale
  <2>1. ScanFiles \subseteq ToSet(FileOrder)
    BY DEF ScanFiles, ToSet
  <2>2. QED
    BY <1>2, <2>1 DEF AskStale, ProjectInv, Places, Contents, Files, FileOrder, diskVars, readVars
<1>3. CASE ParseUmbrella \/ SavePch \/ StampPch
  BY <1>3 DEF ParseUmbrella, SavePch, StampPch, ProjectInv, Places, Contents, Files, FileOrder,
              diskVars, readVars, scanVars
<1>4. ASSUME NEW file \in unscanned, ScanArrives(file)
      PROVE  ProjectInv'
  BY <1>4 DEF ScanArrives, ProjectInv, Places, Contents, Files, FileOrder, diskVars, readVars
<1>5. CASE EditDb
  BY <1>5 DEF EditDb, ProjectInv, Contents, Files, FileOrder, readVars, scanVars
<1>6. CASE Restart
  BY <1>6 DEF Restart, StartRun, ForgetBuild, ProjectInv, Places, Contents, Files, FileOrder,
              diskVars, readVars
<1>7. ASSUME UNCHANGED <<project, diskVars, readVars, scanVars, pch_path>>,
             pc' = pc \/ pc' \in {"merge", "open", "dump", "done"}
      PROVE  ProjectInv'
  BY <1>7 DEF ProjectInv, Places, Contents, Files, FileOrder, diskVars, readVars, scanVars
<1>8. CASE StartPool \/ EndWalk \/ OpenManifest \/ DumpManifest
  BY <1>7, <1>8 DEF StartPool, EndWalk, OpenManifest, DumpManifest
<1>9. CASE TakeResult \/ MergeRecord
  BY <1>7, <1>9 DEF TakeResult, MergeRecord, pchVars, diskVars, readVars, scanVars
<1>10. ASSUME NEW w \in Workers, Worker(w) \/ WorkerDies(w)
       PROVE  ProjectInv'
  BY <1>7, <1>10 DEF Worker, TakeChunk, ReturnChunk, WorkerDies, pchVars, diskVars, readVars, scanVars
<1>11. CASE UNCHANGED vars
  BY <1>7, <1>11 DEF vars, pchVars, diskVars, readVars, scanVars
<1>12. QED
  BY <1>1, <1>2, <1>3, <1>4, <1>5, <1>6, <1>8, <1>9, <1>10, <1>11 DEF Next, Main, PchStep

LEMMA HasContent ==
    ASSUME project \in Projects
    PROVE  1 \in Contents
<1>1. IsList(project.dbs) /\ project.dbs # <<>>
  BY ProjectsAreWhole
<1>2. DOMAIN project.dbs = 1 .. Len(project.dbs) /\ Len(project.dbs) \in Nat /\ Len(project.dbs) # 0
  BY <1>1 DEF IsList
<1>3. QED
  BY <1>2 DEF Contents

LEMMA ProjectInvHolds == Spec => []ProjectInv
<1>1. Init => ProjectInv
  <2> SUFFICES ASSUME Init PROVE ProjectInv
    OBVIOUS
  <2>1. project \in Projects /\ 1 \in Contents
    BY HasContent DEF Init, PchInit
  <2>2. FileOrder \in Seq(Files)
    BY DEF Init, PchInit, FileOrder
  <2>3. QED
    BY <2>1, <2>2 DEF Init, PchInit, ProjectInv, Places
<1>2. QED
  BY <1>1, ProjectInvStep, PTL DEF Spec

-----------------------------------------------------------------------------
(* The pool: everything in it is an item, nothing is in it before it is    *)
(* started, and the loop over results ends with all items accounted for.   *)
Chosen == ToSet(Items)
BeforePool == {"load", "ask", "scan", "save", "stamp", "walk"}

PoolInv ==
    /\ tasks \in Seq(Seq(Chosen))
    /\ busy \in [Workers -> Seq(Chosen)]
    /\ results \in Seq([file : Chosen, ok : BOOLEAN])
    /\ walked \subseteq accounted /\ accounted \subseteq Chosen
    /\ pc \in BeforePool =>
        /\ tasks = <<>> /\ busy = Idle /\ results = <<>> /\ inbox = <<>>
        /\ accounted = {} /\ walked = {} /\ arrived = <<>>
    /\ pc \in {"open", "dump", "done"} => inbox = <<>> /\ accounted = Chosen

(* The items are some of the files of the flag map.                        *)
LEMMA ItemsAreFiles ==
    ASSUME ProjectInv
    PROVE  /\ Items \in Seq(Chosen) /\ Len(Items) \in Nat
           /\ IsFiniteSet(Chosen) /\ Cardinality(Chosen) <= Len(Items)
           /\ Chosen \subseteq ToSet(FileOrder) /\ Chosen \subseteq Files
<1> DEFINE K == {i \in DOMAIN FileOrder : FileOrder[i] \notin project.outside}
<1>1. FileOrder \in Seq(Files) /\ Items = Selection(FileOrder, K) /\ K \in SUBSET DOMAIN FileOrder
  BY DEF ProjectInv, Items
<1>2. Items \in Seq(Files) /\ \A k \in DOMAIN Items : \E i \in K : Items[k] = FileOrder[i]
  BY <1>1, SelectionSelects, SelectionElements
<1>3. Chosen \subseteq ToSet(FileOrder) /\ Chosen \subseteq Files
  BY <1>1, <1>2 DEF Chosen, ToSet
<1>4. Chosen = {Items[i] : i \in DOMAIN Items}
  BY DEF Chosen, ToSet
<1>5. Items \in Seq(Chosen) /\ IsFiniteSet(Chosen) /\ Cardinality(Chosen) <= Len(Items)
  BY <1>2, <1>4, ValuesAreFew
<1>6. Len(Items) \in Nat
  BY <1>5
<1>7. QED
  BY <1>3, <1>5, <1>6

(* The chunks are made of items.                                           *)
LEMMA ChunksAreItems ==
    ASSUME ProjectInv
    PROVE  Chunks \in Seq(Seq(Chosen))
<1> DEFINE n == Len(Items)
           c == ChunkSize
           m == (n + c - 1) \div c
           upto(k) == IF k * c < n THEN k * c ELSE n
<1>1. Items \in Seq(Chosen) /\ n \in Nat /\ DOMAIN Items = 1 .. n
  BY ItemsAreFiles
<1>2. c \in Nat /\ c >= 1
  <2>1. Cardinality(Workers) \in Nat /\ Cardinality(Workers) # 0
    BY PoolWorks, FS_CardinalityType, FS_EmptySet
  <2>2. MinChunk \in Nat /\ MinChunk >= 1
    BY PoolWorks
  <2>3. QED
    BY <1>1, <2>1, <2>2 DEF ChunkSize
<1> HIDE DEF n, c
<1>3. m \in Nat
  BY <1>1, <1>2
<1>4. ASSUME NEW k \in 1 .. m
      PROVE  SubSeq(Items, (k - 1) * c + 1, upto(k)) \in Seq(Chosen)
  <2>1. (k - 1) * c + 1 \in Nat /\ (k - 1) * c + 1 >= 1
    BY <1>2, <1>3
  <2>2. upto(k) \in Int /\ upto(k) <= n
    BY <1>1, <1>2, <1>3
  <2>3. \A i \in (k - 1) * c + 1 .. upto(k) : Items[i] \in Chosen
    BY <1>1, <2>1, <2>2
  <2> HIDE DEF upto
  <2>4. QED
    BY <2>1, <2>2, <2>3, SubSeqProperties
<1> HIDE DEF m
<1>5. [k \in 1 .. m |-> SubSeq(Items, (k - 1) * c + 1, upto(k))] \in Seq(Seq(Chosen))
  BY <1>3, <1>4
<1>6. QED
  BY <1>5 DEF Chunks, m, n, c

LEMMA PoolInvStep ==
    ASSUME ProjectInv, PoolInv, [Next]_vars
    PROVE  PoolInv'
<1> DEFINE Pool == <<tasks, busy, results, walked, accounted, inbox, arrived>>
           Idles == /\ tasks = <<>> /\ busy = Idle /\ results = <<>> /\ inbox = <<>>
                    /\ accounted = {} /\ walked = {} /\ arrived = <<>>
<1>1. ASSUME Idles', pc' \notin {"open", "dump", "done"}
      PROVE  PoolInv'
  <2>1. \A T : <<>> \in Seq(T)
    OBVIOUS
  <2>2. \A T : Idle \in [Workers -> Seq(T)]
    BY <2>1 DEF Idle
  <2>3. /\ tasks' \in Seq(Seq(Chosen')) /\ busy' \in [Workers -> Seq(Chosen')]
        /\ results' \in Seq([file : Chosen', ok : BOOLEAN])
    BY <1>1, <2>1, <2>2
  <2>4. QED
    BY <1>1, <2>3 DEF PoolInv, Idle
<1>2. CASE pc \in BeforePool /\ UNCHANGED Pool /\ pc' \in BeforePool
  BY <1>1, <1>2 DEF PoolInv, BeforePool, Idle
<1>3. CASE PchStep /\ UNCHANGED <<poolVars, mergeVars, manifest>>
  BY <1>2, <1>3 DEF PchStep, Load, AskStale, ParseUmbrella, SavePch, StampPch, ScanArrives,
                    BeforePool, poolVars, mergeVars
<1>4. CASE Restart
  BY <1>1, <1>4 DEF Restart, StartRun, Idle
<1>5. ASSUME UNCHANGED <<project, flag_map>> PROVE Items' = Items /\ Chosen' = Chosen
  BY <1>5 DEF Items, Chosen, FileOrder
<1>6. CASE EditDb /\ UNCHANGED <<poolVars, mergeVars, manifest>>
  BY <1>5, <1>6 DEF EditDb, PoolInv, poolVars, mergeVars, readVars
<1>7. CASE StartPool
  <2>1. Chosen' = Chosen /\ tasks' = Chunks /\ pc' = "merge"
        /\ UNCHANGED <<busy, results, walked, accounted, inbox, arrived>>
    BY <1>5, <1>7 DEF StartPool, readVars, mergeVars
  <2>2. QED
    BY <2>1, ChunksAreItems DEF PoolInv, BeforePool
<1>8. ASSUME NEW w \in Workers, TakeChunk(w)
      PROVE  PoolInv'
  <2>1. Chosen' = Chosen /\ pc = "merge" /\ pc' = pc
        /\ UNCHANGED <<results, walked, accounted, inbox, arrived>>
    BY <1>5, <1>8 DEF TakeChunk, pchVars, readVars, mergeVars
  <2>2. tasks' \in Seq(Seq(Chosen)) /\ busy' \in [Workers -> Seq(Chosen)]
    BY <1>8 DEF TakeChunk, PoolInv
  <2>3. QED
    BY <2>1, <2>2 DEF PoolInv, BeforePool
<1>9. ASSUME NEW w \in Workers, ReturnChunk(w)
      PROVE  PoolInv'
  <2>1. Chosen' = Chosen /\ pc = "merge" /\ pc' = pc
        /\ UNCHANGED <<tasks, walked, accounted, inbox, arrived>>
    BY <1>5, <1>9 DEF ReturnChunk, pchVars, readVars, mergeVars
  <2>2. busy' \in [Workers -> Seq(Chosen)]
    BY <1>9 DEF ReturnChunk, PoolInv
  <2>3. PICK failed : results' = results \o [i \in DOMAIN busy[w] |->
                          [file |-> busy[w][i], ok |-> busy[w][i] \notin failed]]
    BY <1>9 DEF ReturnChunk
  <2>4. busy[w] \in Seq(Chosen) /\ results \in Seq([file : Chosen, ok : BOOLEAN])
    BY DEF PoolInv
  <2>5. [i \in DOMAIN busy[w] |-> [file |-> busy[w][i], ok |-> busy[w][i] \notin failed]]
            \in Seq([file : Chosen, ok : BOOLEAN])
    <3> DEFINE chunk == busy[w]
    <3>1. Len(chunk) \in Nat /\ DOMAIN chunk = 1 .. Len(chunk)
          /\ \A i \in DOMAIN chunk : chunk[i] \in Chosen
      BY <2>4
    <3> HIDE DEF chunk
    <3>2. \A i \in 1 .. Len(chunk) : [file |-> chunk[i], ok |-> chunk[i] \notin failed]
                                        \in [file : Chosen, ok : BOOLEAN]
      BY <3>1
    <3>3. [i \in 1 .. Len(chunk) |-> [file |-> chunk[i], ok |-> chunk[i] \notin failed]]
              \in Seq([file : Chosen, ok : BOOLEAN])
      BY <3>1, <3>2
    <3>4. QED
      BY <3>1, <3>3 DEF chunk
  <2>6. results' \in Seq([file : Chosen, ok : BOOLEAN])
    BY <2>3, <2>4, <2>5
  <2>7. QED
    BY <2>1, <2>2, <2>6 DEF PoolInv, BeforePool
<1>10. ASSUME NEW w \in Workers, WorkerDies(w)
       PROVE  PoolInv'
  <2>1. Chosen' = Chosen /\ pc = "merge" /\ pc' = pc
        /\ UNCHANGED <<tasks, results, walked, accounted, inbox, arrived>>
    BY <1>5, <1>10 DEF WorkerDies, pchVars, readVars, mergeVars
  <2>2. busy' \in [Workers -> Seq(Chosen)]
    BY <1>10 DEF WorkerDies, PoolInv
  <2>3. QED
    BY <2>1, <2>2 DEF PoolInv, BeforePool
<1>11. CASE TakeResult
  <2>1. Chosen' = Chosen /\ pc = "merge" /\ pc' = pc /\ UNCHANGED <<tasks, busy>>
    BY <1>5, <1>11 DEF TakeResult, pchVars, readVars
  <2>2. /\ results \in Seq([file : Chosen, ok : BOOLEAN]) /\ results # <<>>
        /\ results' = Tail(results)
    BY <1>11 DEF TakeResult, PoolInv
  <2>3. results' \in Seq([file : Chosen, ok : BOOLEAN]) /\ Head(results).file \in Chosen
    <3> DEFINE Result == [file : Chosen, ok : BOOLEAN]
    <3> HIDE DEF Result
    <3>1. results' \in Seq(Result) /\ Head(results) \in Result
      BY <2>2, HeadTailProperties DEF Result
    <3>2. QED
      BY <3>1 DEF Result
  <2>4. walked' \subseteq accounted' /\ accounted' \subseteq Chosen
    BY <1>11, <2>3 DEF TakeResult, PoolInv
  <2>5. QED
    BY <2>1, <2>3, <2>4 DEF PoolInv, BeforePool
<1>12. CASE MergeRecord
  <2>1. Chosen' = Chosen /\ pc = "merge" /\ pc' = pc
        /\ UNCHANGED <<tasks, busy, results, accounted, walked>>
    BY <1>5, <1>12 DEF MergeRecord, pchVars, readVars, poolVars
  <2>2. QED
    BY <2>1 DEF PoolInv, BeforePool
<1>13. CASE EndWalk
  <2>1. Chosen' = Chosen /\ pc' = "open" /\ inbox = <<>> /\ UNCHANGED Pool
    BY <1>5, <1>13 DEF EndWalk, readVars, poolVars, mergeVars
  <2>2. accounted = Chosen
    <3>1. accounted \subseteq Chosen /\ Cardinality(accounted) = Len(Items)
      BY <1>13 DEF EndWalk, PoolInv
    <3>2. IsFiniteSet(Chosen) /\ Cardinality(Chosen) <= Len(Items) /\ Len(Items) \in Nat
      BY ItemsAreFiles
    <3>3. Cardinality(accounted) <= Cardinality(Chosen) /\ Cardinality(Chosen) \in Nat
      BY <3>1, <3>2, FS_Subset, FS_CardinalityType
    <3>4. Cardinality(accounted) = Cardinality(Chosen)
      BY <3>1, <3>2, <3>3
    <3>5. QED
      BY <3>1, <3>2, <3>4, FS_Subset
  <2>3. QED
    BY <2>1, <2>2 DEF PoolInv, BeforePool
<1>14. CASE OpenManifest \/ DumpManifest
  <2>1. Chosen' = Chosen /\ pc \in {"open", "dump"} /\ pc' \in {"dump", "done"} /\ UNCHANGED Pool
    BY <1>5, <1>14 DEF OpenManifest, DumpManifest, readVars, poolVars, mergeVars
  <2>2. QED
    BY <2>1 DEF PoolInv, BeforePool
<1>15. CASE UNCHANGED vars
  BY <1>5, <1>15 DEF vars, pchVars, PoolInv
<1>16. QED
  BY <1>3, <1>4, <1>6, <1>7, <1>8, <1>9, <1>10, <1>11, <1>12, <1>13, <1>14, <1>15
     DEF Next, Main, Worker

-----------------------------------------------------------------------------
(* The hierarchy of a class: what StructFields collects as it walks        *)
(* through it, round by round, and what is laid in it, level by level.     *)
Depth == Cardinality(Classes)
Declared == UNION {ToSet(Fields[c]) : c \in Classes}
DeclaredNames == {f.name : f \in Declared}
FieldRecords(derived) == {FieldRecord(derived, f) : f \in Declared}

LEMMA HierarchiesAreLists ==
    /\ Depth \in Nat
    /\ \A c \in Classes :
        /\ Fields[c] \in Seq(Declared) /\ DOMAIN Fields[c] = 1 .. Len(Fields[c])
        /\ \A i \in DOMAIN Fields[c] : Fields[c][i] \in Declared /\ Fields[c][i].offset \in Int
        /\ DOMAIN Bases[c] = 1 .. Len(Bases[c]) /\ Len(Bases[c]) \in Nat
        /\ \A i \in DOMAIN Bases[c] : Bases[c][i].class \in Classes /\ Bases[c][i].offset \in Int
<1>1. Depth \in Nat
  BY HierarchiesHaveTops, FS_CardinalityType DEF Depth
<1>2. ASSUME NEW c \in Classes
      PROVE  /\ Fields[c] \in Seq(Declared) /\ DOMAIN Fields[c] = 1 .. Len(Fields[c])
             /\ \A i \in DOMAIN Fields[c] : Fields[c][i] \in Declared /\ Fields[c][i].offset \in Int
             /\ DOMAIN Bases[c] = 1 .. Len(Bases[c]) /\ Len(Bases[c]) \in Nat
  <2>1. Fields[c] \in Seq(ToSet(Fields[c])) /\ ToSet(Fields[c]) \subseteq Declared
    <3>1. IsList(Fields[c])
      BY HierarchiesHaveTops
    <3>2. QED
      BY <3>1 DEF IsList, ToSet, Declared
  <2>2. Fields[c] \in Seq(Declared)
    BY <2>1, SeqMonotonic
  <2>3. Bases[c] \in Seq(ToSet(Bases[c]))
    BY HierarchiesHaveTops DEF IsList, ToSet
  <2>4. \A i \in DOMAIN Fields[c] : Fields[c][i].offset \in Int
    BY HierarchiesHaveTops
  <2>5. QED
    BY <2>2, <2>3, <2>4
<1>3. QED
  BY <1>1, <1>2, HierarchiesHaveTops

(* Where the field of that name is that the class itself declares. *)
LEMMA OwnFieldFirst ==
    ASSUME NEW c \in Classes, NEW f
    PROVE  /\ FieldRecord(c, f).name = f.name
           /\ \/ \E i \in DOMAIN Fields[c] :
                    Fields[c][i].name = f.name /\ FieldRecord(c, f).offset = Fields[c][i].offset
              \/ /\ \A i \in DOMAIN Fields[c] : Fields[c][i].name # f.name
                 /\ FieldRecord(c, f).offset = f.offset
<1> DEFINE s == Fields[c]
           K == {i \in 1 .. Len(s) : s[i].name = f.name}
           own == IF K # {} THEN Min(K) ELSE 0
           at == IF own # 0 THEN Fields[c][own].offset ELSE f.offset
           kind == TypeKind(f.type).kind
<1>1. FieldRecord(c, f) = [name |-> f.name, offset |-> at, kind |-> kind]
  BY DEF FieldRecord, SelectInSeq
<1>2. s \in Seq(Declared) /\ DOMAIN s = 1 .. Len(s)
  BY HierarchiesAreLists
<1>3. K # {} => own \in K
  <2>1. Min(K) = First(K)
    BY DEF Min, First
  <2>2. QED
    BY <1>2, <2>1, FirstIsLeast
<1> HIDE DEF kind, at
<1>4. FieldRecord(c, f).name = f.name /\ FieldRecord(c, f).offset = at
  BY <1>1
<1>5. CASE K = {}
  <2>1. own = 0
    BY <1>5
  <2>2. \A i \in DOMAIN s : s[i].name # f.name
    BY <1>2, <1>5
  <2>3. QED
    BY <1>4, <2>1, <2>2 DEF at
<1>6. CASE K # {}
  <2>1. own \in DOMAIN s /\ s[own].name = f.name /\ own # 0
    BY <1>2, <1>3, <1>6
  <2> HIDE DEF own
  <2>2. QED
    BY <1>4, <2>1 DEF at
<1>7. QED
  BY <1>5, <1>6

NamesIn(s) == {s[i].name : i \in DOMAIN s}
NamedOnce(s) == \A i, j \in DOMAIN s : s[i].name = s[j].name => i = j

(* What a class adds to the list: the fields whose names are new, once.    *)
FieldsAdded(derived, c, names, W) ==
    /\ W \in Seq(FieldRecords(derived))
    /\ \A k \in DOMAIN W : \E i \in DOMAIN Fields[c] :
          /\ W[k] = FieldRecord(derived, Fields[c][i])
          /\ Fields[c][i].name \notin names \cup {None}
    /\ \A i \in DOMAIN Fields[c] : Fields[c][i].name \notin names \cup {None} =>
          \E k \in DOMAIN W : W[k].name = Fields[c][i].name
    /\ NamedOnce(W)

LEMMA NewFieldsGive ==
    ASSUME NEW derived, NEW c \in Classes, NEW names, NEW W, W = NewFields(derived, c, names)
    PROVE  FieldsAdded(derived, c, names, W)
<1> DEFINE s == Fields[c]
           declared == [i \in DOMAIN s |-> s[i].name]
           K == {i \in Firsts(declared) : declared[i] \notin names \cup {None}}
           fresh == Selection(s, K)
<1>1. /\ s \in Seq(Declared) /\ DOMAIN s = 1 .. Len(s) /\ Len(s) \in Nat
      /\ \A i \in DOMAIN s : s[i] \in Declared
  BY HierarchiesAreLists
<1>2. /\ declared \in Seq(DeclaredNames) /\ DOMAIN declared = DOMAIN s
      /\ \A i \in DOMAIN s : declared[i] = s[i].name
  BY <1>1 DEF DeclaredNames
<1>3. W = [k \in DOMAIN fresh |-> FieldRecord(derived, fresh[k])]
  BY DEF NewFields
<1> HIDE DEF declared, s
<1>4. /\ K \in SUBSET DOMAIN s
      /\ \A i \in K : s[i].name \notin names \cup {None}
      /\ \A i \in DOMAIN s : s[i].name \notin names \cup {None} => \E j \in K : s[j].name = s[i].name
      /\ \A i, j \in K : s[i].name = s[j].name => i = j
  <2>1. /\ Firsts(declared) \in SUBSET DOMAIN declared
        /\ \A i \in DOMAIN declared : \E j \in Firsts(declared) : declared[j] = declared[i]
        /\ \A i, j \in Firsts(declared) : declared[i] = declared[j] => i = j
    BY <1>2, FirstsCoverAll
  <2>2. QED
    BY <1>2, <2>1
<1> HIDE DEF K
<1> DEFINE n == Cardinality(K)
<1>5. s \in Seq(Declared) /\ K \in SUBSET DOMAIN s
  BY <1>1, <1>4
<1>6. fresh \in Seq(Declared) /\ DOMAIN fresh = 1 .. n
  BY <1>5, SelectionSelects
<1>6a. PICK pick : GoesThrough(pick, s, K)
  BY <1>5, SelectionFollows
<1>6b. /\ pick \in [1 .. n -> K]
       /\ \A k \in 1 .. n : fresh[k] = s[pick[k]]
       /\ \A k, l \in 1 .. n : k < l => pick[k] < pick[l]
       /\ \A i \in K : \E k \in 1 .. n : pick[k] = i
  BY <1>6a DEF GoesThrough
<1> HIDE DEF fresh
<1>7. /\ n \in Nat /\ DOMAIN fresh = 1 .. n /\ DOMAIN W = 1 .. n
      /\ \A k \in 1 .. n : fresh[k] \in Declared /\ W[k] = FieldRecord(derived, fresh[k])
  <2>1. IsFiniteSet(DOMAIN s) /\ K \in SUBSET DOMAIN s
    BY <1>1, <1>4, FS_Interval
  <2>2. n \in Nat
    BY <2>1, FS_Subset, FS_CardinalityType
  <2> HIDE DEF n
  <2>3. Len(fresh) = n /\ \A k \in 1 .. n : fresh[k] \in Declared
    BY <1>6, <2>2
  <2>4. QED
    BY <1>3, <1>6, <2>2, <2>3
<1> HIDE DEF n
<1>8. W \in Seq(FieldRecords(derived))
  <2>1. \A k \in DOMAIN W : W[k] \in FieldRecords(derived)
    BY <1>7 DEF FieldRecords
  <2>2. QED
    BY <1>3, <1>7, <2>1
<1>9. \A k \in DOMAIN W : /\ pick[k] \in K /\ pick[k] \in DOMAIN s
                          /\ W[k] = FieldRecord(derived, s[pick[k]])
                          /\ W[k].name = s[pick[k]].name
  <2>1. \A f : FieldRecord(derived, f).name = f.name
    BY DEF FieldRecord
  <2>2. QED
    BY <1>4, <1>6b, <1>7, <2>1
<1>10. \A k, l \in DOMAIN W : W[k].name = W[l].name => k = l
  <2>1. ASSUME NEW k \in DOMAIN W, NEW l \in DOMAIN W, W[k].name = W[l].name PROVE k = l
    <3>1. pick[k] = pick[l]
      BY <1>4, <1>9, <2>1
    <3>2. pick[k] \in Int /\ pick[l] \in Int
      BY <1>1, <1>9
    <3>3. k \in 1 .. n /\ l \in 1 .. n /\ k \in Int /\ l \in Int
      BY <1>7
    <3>4. ~(k < l) /\ ~(l < k)
      BY <1>6b, <3>1, <3>2, <3>3
    <3>5. QED
      BY <3>3, <3>4
  <2>2. QED
    BY <2>1
<1>11. ASSUME NEW i \in DOMAIN s, s[i].name \notin names \cup {None}
       PROVE  \E k \in DOMAIN W : W[k].name = s[i].name
  <2>1. PICK j \in K : s[j].name = s[i].name
    BY <1>4, <1>11
  <2>2. PICK k \in 1 .. n : pick[k] = j
    BY <1>6b
  <2>3. QED
    BY <1>7, <1>9, <2>1, <2>2
<1>12. \A k \in DOMAIN W : \E i \in DOMAIN s :
          W[k] = FieldRecord(derived, s[i]) /\ s[i].name \notin names \cup {None}
  BY <1>4, <1>9
<1>13. QED
  BY <1>8, <1>10, <1>11, <1>12 DEF s, FieldsAdded, NamedOnce
(* A one-to-one function has as many values as arguments.                  *)
LEMMA ImagesCount ==
    ASSUME NEW n \in Nat, NEW f, \A p, q \in 1 .. n : f[p] = f[q] => p = q,
           NEW V, V = {f[p] : p \in 1 .. n}
    PROVE  IsFiniteSet(V) /\ Cardinality(V) = n
<1> DEFINE g == [p \in 1 .. n |-> f[p]]
<1>1. g \in Bijection(1 .. n, V)
  BY DEF Bijection, Injection, Surjection, IsInjective
<1>2. ExistsBijection(1 .. n, V)
  BY <1>1 DEF ExistsBijection
<1>3. QED
  BY <1>2, FS_CountingElements, FS_NatBijection

(* What it adds to the stack: the bases that the walk has not met, once.   *)
BasesAdded(c, bases, W) ==
    /\ W \in Seq(Classes) /\ ToSet(W) = DirectBases(c) \ bases
    /\ IsFiniteSet(ToSet(W)) /\ Cardinality(ToSet(W)) = Len(W)

LEMMA NewBasesGive ==
    ASSUME NEW c \in Classes, NEW bases, NEW W, W = NewBases(c, bases)
    PROVE  BasesAdded(c, bases, W)
<1> DEFINE s == [i \in DOMAIN Bases[c] |-> Bases[c][i].class]
           K == {i \in Firsts(s) : s[i] \notin bases}
           n == Cardinality(K)
<1>1. /\ s \in Seq(Classes) /\ DOMAIN s = 1 .. Len(s) /\ Len(s) \in Nat
      /\ DirectBases(c) = {s[i] : i \in DOMAIN s}
  BY HierarchiesAreLists DEF DirectBases
<1>2. W = Selection(s, K)
  BY DEF NewBases
<1> HIDE DEF s
<1>3. /\ K \in SUBSET DOMAIN s /\ \A i \in K : s[i] \notin bases
      /\ \A i \in DOMAIN s : s[i] \notin bases => \E j \in K : s[j] = s[i]
      /\ \A i, j \in K : s[i] = s[j] => i = j
  BY <1>1, FirstsCoverAll
<1> HIDE DEF K
<1>3a. s \in Seq(Classes) /\ K \in SUBSET DOMAIN s
  BY <1>1, <1>3
<1>4. W \in Seq(Classes) /\ DOMAIN W = 1 .. n
  BY <1>1, <1>2, <1>3, SelectionSelects
<1>5. /\ \A k \in DOMAIN W : \E i \in K : W[k] = s[i]
      /\ \A i \in K : \E k \in DOMAIN W : W[k] = s[i]
  BY <1>2, <1>3a, SelectionElements
<1>6. PICK pick : GoesThrough(pick, s, K)
  BY <1>1, <1>3, SelectionFollows
<1>7. /\ pick \in [1 .. n -> K]
      /\ \A k \in 1 .. n : W[k] = s[pick[k]]
      /\ \A k, l \in 1 .. n : k < l => pick[k] < pick[l]
  BY <1>2, <1>6 DEF GoesThrough
<1>8. n \in Nat /\ Len(W) = n
  <2>1. n \in Nat
    <3>1. IsFiniteSet(DOMAIN s)
      BY <1>3a, LengthCounts
    <3>2. QED
      BY <1>3a, <3>1, FS_Subset, FS_CardinalityType
  <2>2. QED
    BY <1>4, <2>1
<1>9. ASSUME NEW k \in 1 .. n, NEW l \in 1 .. n, W[k] = W[l] PROVE k = l
  <2>1. pick[k] \in K /\ pick[l] \in K /\ pick[k] \in Int /\ pick[l] \in Int
    BY <1>1, <1>3, <1>7
  <2>2. pick[k] = pick[l]
    BY <1>3, <1>7, <1>9, <2>1
  <2>3. ~(k < l) /\ ~(l < k) /\ k \in Int /\ l \in Int
    BY <1>7, <1>8, <2>1, <2>2
  <2>4. QED
    BY <2>3
<1>10. ToSet(W) = {W[k] : k \in 1 .. n}
  BY <1>4 DEF ToSet
<1>11. IsFiniteSet(ToSet(W)) /\ Cardinality(ToSet(W)) = n
  BY <1>8, <1>9, <1>10, ImagesCount
<1>12. ToSet(W) = DirectBases(c) \ bases
  <2>1. \A b \in ToSet(W) : b \in DirectBases(c) \ bases
    BY <1>1, <1>3, <1>5 DEF ToSet
  <2>2. ASSUME NEW b \in DirectBases(c), b \notin bases PROVE b \in ToSet(W)
    <3>1. PICK i \in DOMAIN s : b = s[i]
      BY <1>1, <2>2
    <3>2. PICK j \in K : s[j] = b
      BY <1>3, <2>2, <3>1
    <3>3. QED
      BY <1>5, <3>2 DEF ToSet
  <2>3. QED
    BY <2>1, <2>2
<1>13. QED
  BY <1>4, <1>8, <1>11, <1>12 DEF BasesAdded

(* The states of a walk through the hierarchy of a class. *)
VisitStates(c) ==
    [stack : Seq(Classes), fields : Seq(FieldRecords(c)), names : SUBSET DeclaredNames,
     bases : SUBSET Classes]
VisitStart(c) == [stack |-> <<c>>, fields |-> <<>>, names |-> {}, bases |-> {}]

(* A round: d is visited and adds W and B.                                 *)
Round(s, t, d, W, B) ==
    /\ d = Head(s.stack) /\ d \in Classes
    /\ t.stack = B \o Tail(s.stack) /\ t.fields = s.fields \o W
    /\ t.names = s.names \cup NamesIn(W)
    /\ t.bases = s.bases \cup ToSet(B)
FullRound(c, s, t, d, W, B) ==
    /\ Round(s, t, d, W, B) /\ t \in VisitStates(c)
    /\ FieldsAdded(c, d, s.names, W) /\ BasesAdded(d, s.bases, B)

LEMMA VisitGives ==
    ASSUME NEW c \in Classes, NEW s \in VisitStates(c), s.stack # <<>>,
           NEW t, t = VisitNext(c, s)
    PROVE  \E d, W, B : FullRound(c, s, t, d, W, B)
<1> SUFFICES ASSUME NEW d, d = Head(s.stack), NEW W, W = NewFields(c, d, s.names),
                    NEW B, B = NewBases(d, s.bases)
             PROVE  FullRound(c, s, t, d, W, B)
  OBVIOUS
<1> DEFINE stack == B \o Tail(s.stack)
           fields == s.fields \o W
           names == s.names \cup {W[k].name : k \in DOMAIN W}
           bases == s.bases \cup ToSet(B)
<1>1. /\ s.stack \in Seq(Classes) /\ s.fields \in Seq(FieldRecords(c))
      /\ s.names \in SUBSET DeclaredNames /\ s.bases \in SUBSET Classes
  BY DEF VisitStates
<1>2. d \in Classes /\ Tail(s.stack) \in Seq(Classes)
  BY <1>1
<1>3. W \in Seq(FieldRecords(c)) /\ \A k \in DOMAIN W : W[k].name \in DeclaredNames
  <2>1. W \in Seq(FieldRecords(c))
    BY <1>2, NewFieldsGive DEF FieldsAdded
  <2>2. \A r \in FieldRecords(c) : r.name \in DeclaredNames
    BY OwnFieldFirst DEF FieldRecords, DeclaredNames
  <2>3. QED
    BY <2>1, <2>2
<1>4. B \in Seq(Classes) /\ ToSet(B) \subseteq Classes
  <2>1. B \in Seq(Classes)
    BY <1>2, NewBasesGive DEF BasesAdded
  <2>2. QED
    BY <2>1 DEF ToSet
<1>5. stack \in Seq(Classes) /\ fields \in Seq(FieldRecords(c))
  BY <1>1, <1>2, <1>3, <1>4
<1>6. names \in SUBSET DeclaredNames /\ bases \in SUBSET Classes
  BY <1>1, <1>3, <1>4
<1>7. t = [stack |-> stack, fields |-> fields, names |-> names, bases |-> bases]
  BY DEF VisitNext, VisitClass
<1> HIDE DEF stack, fields, names, bases
<1>8. t \in VisitStates(c)
  BY <1>5, <1>6, <1>7 DEF VisitStates
<1>9. t.stack = stack /\ t.fields = fields /\ t.names = names /\ t.bases = bases
  BY <1>7
<1>10. Round(s, t, d, W, B)
  BY <1>2, <1>9 DEF Round, NamesIn, stack, fields, names, bases
<1>11. FieldsAdded(c, d, s.names, W) /\ BasesAdded(d, s.bases, B)
  BY <1>2, NewFieldsGive, NewBasesGive
<1>12. QED
  BY <1>8, <1>10, <1>11 DEF FullRound

LEMMA VisitsStart ==
    ASSUME NEW c \in Classes
    PROVE  VisitStart(c) \in VisitStates(c)
<1>1. <<c>> \in Seq(Classes) /\ <<>> \in Seq(FieldRecords(c)) /\ {} \in SUBSET DeclaredNames
      /\ {} \in SUBSET Classes
  OBVIOUS
<1>2. QED
  BY <1>1 DEF VisitStart, VisitStates

(* StructFields goes through such states. *)
VisitRun(c, v) ==
    /\ v[0] = VisitStart(c)
    /\ \A k \in 1 .. Depth : v[k] = VisitNext(c, v[k - 1])
    /\ \A k \in 0 .. Depth : v[k] \in VisitStates(c)
    /\ StructFields(c) = v[Depth].fields

LEMMA VisitsRun ==
    ASSUME NEW c \in Classes
    PROVE  \E v : VisitRun(c, v)
<1> DEFINE n == Depth
           S == VisitStates(c)
           a == VisitStart(c)
           Body(f) == [k \in 0 .. n |-> IF k = 0 THEN a ELSE VisitNext(c, f[k - 1])]
           v == CHOOSE x : x = Body(x)
           H == [k \in 1 .. n |-> [s \in S |-> VisitNext(c, s)]]
<1>1. n \in Nat
  BY HierarchiesAreLists
<1>2. StructFields(c) = v[n].fields
  BY DEF StructFields, Depth, VisitStart
<1>3. a \in S
  BY VisitsStart
<1>4. ASSUME NEW s \in S PROVE VisitNext(c, s) \in S
  <2>1. CASE s.stack = <<>>
    BY <2>1 DEF VisitNext
  <2>2. CASE s.stack # <<>>
    BY <2>2, VisitGives DEF FullRound
  <2>3. QED
    BY <2>1, <2>2
<1> HIDE DEF n, S, a
<1>5. H \in [1 .. n -> [S -> S]] /\ \A k \in 1 .. n : \A s \in S : H[k][s] = VisitNext(c, s)
  BY <1>4
<1> HIDE DEF H
<1>6. PICK f : IsRun(f, S, a, n, H)
  BY <1>1, <1>3, <1>5, Iterates
<1>7. f = Body(f)
  <2>1. ASSUME NEW k \in 0 .. n, k # 0 PROVE f[k] = VisitNext(c, f[k - 1])
    <3>1. k \in 1 .. n /\ k - 1 \in 0 .. n
      BY <1>1, <2>1
    <3>2. QED
      BY <1>5, <1>6, <3>1 DEF IsRun
  <2>2. f \in [0 .. n -> S] /\ f[0] = a
    BY <1>6 DEF IsRun
  <2>3. QED
    BY <2>1, <2>2
<1>8. v = Body(v)
  BY <1>7
<1>9. v[0] = a /\ \A k \in 1 .. n : v[k] = VisitNext(c, v[k - 1])
  <2> HIDE DEF v
  <2>1. QED
    BY <1>1, <1>8
<1> HIDE DEF v
<1>10. \A k \in 0 .. n : v[k] \in S
  BY <1>1, <1>3, <1>4, <1>9, RunStays
<1>11. VisitRun(c, v)
  BY <1>2, <1>9, <1>10 DEF VisitRun, n, a, S
<1>12. QED
  BY <1>11

(* The places of the fields, level by level. *)
LaidFields == [name : DeclaredNames, offset : Int, depth : Nat]
LaidBelow(c, below) ==
    UNION {{Inherited(f, Bases[c][i]) : f \in below[Bases[c][i].class]} : i \in DOMAIN Bases[c]}

LEMMA InheritedMoves ==
    ASSUME NEW f \in LaidFields, NEW base, base.offset \in Int
    PROVE  /\ Inherited(f, base) \in LaidFields
           /\ Inherited(f, base).name = f.name
           /\ Inherited(f, base).offset = f.offset + base.offset
           /\ Inherited(f, base).depth = f.depth + 1
BY DEF Inherited, LaidFields

LEMMA DeclaredAreLaid ==
    ASSUME NEW c \in Classes
    PROVE  DeclaredIn(c) \in SUBSET LaidFields
<1>1. \A i \in DOMAIN Fields[c] : Fields[c][i].name \in DeclaredNames /\ Fields[c][i].offset \in Int
  BY HierarchiesAreLists DEF DeclaredNames
<1>2. QED
  BY <1>1 DEF DeclaredIn, LaidFields

LEMMA LaidByLevel ==
    /\ \A n \in 0 .. Depth : Laid[n] \in [Classes -> SUBSET LaidFields]
    /\ \A c \in Classes : Laid[0][c] = DeclaredIn(c)
    /\ \A n \in 1 .. Depth : \A c \in Classes :
          Laid[n][c] = DeclaredIn(c) \cup LaidBelow(c, Laid[n - 1])
<1> DEFINE n == Depth
           S == [Classes -> SUBSET LaidFields]
           start == [c \in Classes |-> DeclaredIn(c)]
           Next1(below) == [c \in Classes |-> DeclaredIn(c) \cup LaidBelow(c, below)]
           Body(f) == [k \in 0 .. n |-> [c \in Classes |-> DeclaredIn(c) \cup
                          (IF k = 0 THEN {} ELSE LaidBelow(c, f[k - 1]))]]
           g == CHOOSE x : x = Body(x)
           H == [k \in 1 .. n |-> [s \in S |-> Next1(s)]]
<1>1. n \in Nat
  BY HierarchiesAreLists
<1>2. Laid = g
  BY DEF Laid, Depth, LaidBelow
<1>3. start \in S
  BY DeclaredAreLaid
<1>4. ASSUME NEW s \in S PROVE Next1(s) \in S
  <2>1. ASSUME NEW c \in Classes PROVE DeclaredIn(c) \cup LaidBelow(c, s) \in SUBSET LaidFields
    <3>1. ASSUME NEW i \in DOMAIN Bases[c], NEW f \in s[Bases[c][i].class]
          PROVE  Inherited(f, Bases[c][i]) \in LaidFields
      <4>1. Bases[c][i].class \in Classes /\ Bases[c][i].offset \in Int
        BY HierarchiesAreLists
      <4>2. f \in LaidFields
        BY <4>1
      <4>3. QED
        BY <4>1, <4>2, InheritedMoves
    <3>2. QED
      BY <3>1, DeclaredAreLaid DEF LaidBelow
  <2>2. QED
    BY <2>1
<1>5. \A f : \A k \in 0 .. n : Body(f)[k] = IF k = 0 THEN start ELSE Next1(f[k - 1])
  <2> TAKE f
  <2> TAKE k \in 0 .. n
  <2>1. CASE k = 0
    BY <2>1
  <2>2. CASE k # 0
    BY <2>2
  <2>3. QED
    BY <2>1, <2>2
<1>6. \A f : DOMAIN Body(f) = 0 .. n /\ Body(f) = [k \in 0 .. n |-> Body(f)[k]]
  OBVIOUS
<1>7. /\ \A c \in Classes : start[c] = DeclaredIn(c)
      /\ \A s : \A c \in Classes : Next1(s)[c] = DeclaredIn(c) \cup LaidBelow(c, s)
  OBVIOUS
<1> HIDE DEF n, S, start, Next1, Body
<1>8. H \in [1 .. n -> [S -> S]] /\ \A i \in 1 .. n : \A s \in S : H[i][s] = Next1(s)
  BY <1>4
<1> HIDE DEF H
<1>9. PICK f : IsRun(f, S, start, n, H)
  BY <1>1, <1>3, <1>8, Iterates
<1>10. f = Body(f)
  <2>1. ASSUME NEW k \in 0 .. n PROVE f[k] = Body(f)[k]
    <3>1. CASE k = 0
      BY <1>5, <1>9, <3>1 DEF IsRun
    <3>2. CASE k # 0
      <4>1. k \in 1 .. n /\ k - 1 \in 0 .. n
        BY <1>1, <3>2
      <4>2. f[k] = Next1(f[k - 1])
        BY <1>8, <1>9, <4>1 DEF IsRun
      <4>3. QED
        BY <1>5, <3>2, <4>2
    <3>3. QED
      BY <3>1, <3>2
  <2>2. f = [k \in 0 .. n |-> f[k]]
    BY <1>9 DEF IsRun
  <2>3. QED
    BY <1>6, <2>1, <2>2
<1>11. g = Body(g)
  BY <1>10
<1>12. g[0] = start /\ \A i \in 1 .. n : g[i] = Next1(g[i - 1])
  <2> HIDE DEF g
  <2>1. \A k \in 0 .. n : g[k] = IF k = 0 THEN start ELSE Next1(g[k - 1])
    BY <1>5, <1>11
  <2>2. QED
    BY <1>1, <2>1
<1> HIDE DEF g
<1>13. \A i \in 0 .. n : g[i] \in S
  BY <1>1, <1>3, <1>4, <1>12, RunStays
<1>14. QED
  BY <1>2, <1>7, <1>12, <1>13 DEF n, S

(* So is plainness. *)
PlainAt(c, below, deeper) ==
    \A i \in DOMAIN Bases[c] : Bases[c][i].offset = 0 /\ (deeper => below[Bases[c][i].class])

LEMMA PlainByLevel ==
    ASSUME NEW m \in 1 .. Depth, NEW c \in Classes, Plain[m][c], NEW i \in DOMAIN Bases[c]
    PROVE  Bases[c][i].offset = 0 /\ Plain[m - 1][Bases[c][i].class]
<1> DEFINE n == Depth
           S == [Classes -> BOOLEAN]
           start == [d \in Classes |-> PlainAt(d, <<>>, FALSE)]
           Next1(below) == [d \in Classes |-> PlainAt(d, below, TRUE)]
           Body(f) == [k \in 0 .. n |-> [d \in Classes |-> PlainAt(d, f[k - 1], k > 0)]]
           g == CHOOSE x : x = Body(x)
           H == [k \in 1 .. n |-> [s \in S |-> Next1(s)]]
<1>1. n \in Nat
  BY HierarchiesAreLists
<1>2. Plain = g
  BY DEF Plain, Depth, PlainAt
<1>3. \A d, b, e : PlainAt(d, b, e) \in BOOLEAN
  BY DEF PlainAt
<1>4. start \in S /\ \A s \in S : Next1(s) \in S
  <2> HIDE DEF PlainAt
  <2>1. QED
    BY <1>3
<1>5. \A f : \A k \in 0 .. n : Body(f)[k] = IF k = 0 THEN start ELSE Next1(f[k - 1])
  <2> TAKE f
  <2> TAKE k \in 0 .. n
  <2>1. CASE k = 0
    <3>1. \A d : PlainAt(d, f[k - 1], k > 0) = PlainAt(d, <<>>, FALSE)
      BY <2>1 DEF PlainAt
    <3>2. QED
      BY <2>1, <3>1
  <2>2. CASE k # 0
    <3>1. (k > 0) = TRUE
      BY <1>1, <2>2
    <3>2. \A d : PlainAt(d, f[k - 1], k > 0) = PlainAt(d, f[k - 1], TRUE)
      BY <3>1
    <3>3. QED
      BY <2>2, <3>2
  <2>3. QED
    BY <2>1, <2>2
<1>6. \A f : DOMAIN Body(f) = 0 .. n /\ Body(f) = [k \in 0 .. n |-> Body(f)[k]]
  OBVIOUS
<1>7. \A s : \A d \in Classes : Next1(s)[d] = PlainAt(d, s, TRUE)
  OBVIOUS
<1> HIDE DEF n, S, start, Next1, Body
<1>8. H \in [1 .. n -> [S -> S]] /\ \A k \in 1 .. n : \A s \in S : H[k][s] = Next1(s)
  BY <1>4
<1> HIDE DEF H
<1>9. PICK f : IsRun(f, S, start, n, H)
  BY <1>1, <1>4, <1>8, Iterates
<1>10. f = Body(f)
  <2>1. ASSUME NEW k \in 0 .. n PROVE f[k] = Body(f)[k]
    <3>1. CASE k = 0
      BY <1>5, <1>9, <3>1 DEF IsRun
    <3>2. CASE k # 0
      <4>1. k \in 1 .. n /\ k - 1 \in 0 .. n
        BY <1>1, <3>2
      <4>2. f[k] = Next1(f[k - 1])
        BY <1>8, <1>9, <4>1 DEF IsRun
      <4>3. QED
        BY <1>5, <3>2, <4>2
    <3>3. QED
      BY <3>1, <3>2
  <2>2. f = [k \in 0 .. n |-> f[k]]
    BY <1>9 DEF IsRun
  <2>3. QED
    BY <1>6, <2>1, <2>2
<1>11. g = Body(g)
  BY <1>10
<1> HIDE DEF g
<1>12. Plain[m] = Next1(Plain[m - 1])
  <2>1. m \in 0 .. n /\ m # 0
    BY <1>1 DEF n
  <2>2. QED
    BY <1>2, <1>5, <1>11, <2>1
<1>13. PlainAt(c, Plain[m - 1], TRUE)
  BY <1>7, <1>12
<1>14. QED
  BY <1>13 DEF PlainAt

(* j levels up the hierarchy of c is d: what is laid there is laid in c.   *)
Reached(c, d, j) ==
    /\ Plain[Depth][c] => Plain[Depth - j][d]
    /\ \A l \in Laid[Depth - j][d] : \E m \in Laid[Depth][c] :
          m.name = l.name /\ (Plain[Depth][c] => m.offset = l.offset)

LEMMA BasesAreReached ==
    ASSUME NEW c \in Classes, NEW d \in Classes, NEW j \in 0 .. Depth - 1, Reached(c, d, j),
           NEW b \in DirectBases(d)
    PROVE  Reached(c, b, j + 1)
<1> DEFINE n == Depth - j
<1>1. n \in 1 .. Depth /\ n - 1 \in 0 .. Depth /\ Depth - (j + 1) = n - 1
  BY HierarchiesAreLists
<1> HIDE DEF n
<1>2. PICK i \in DOMAIN Bases[d] : b = Bases[d][i].class
  BY DEF DirectBases
<1>3. b \in Classes /\ Bases[d][i].offset \in Int
  BY <1>2, HierarchiesAreLists
<1>4. Plain[Depth][c] => Bases[d][i].offset = 0 /\ Plain[n - 1][b]
  BY <1>1, <1>2, PlainByLevel DEF Reached, n
<1>5. ASSUME NEW l \in Laid[n - 1][b]
      PROVE  \E m \in Laid[Depth][c] : m.name = l.name /\ (Plain[Depth][c] => m.offset = l.offset)
  <2> DEFINE f == Inherited(l, Bases[d][i])
  <2>1. l \in LaidFields
    BY <1>1, <1>3, LaidByLevel
  <2>2. f.name = l.name /\ f.offset = l.offset + Bases[d][i].offset
    BY <1>3, <2>1, InheritedMoves
  <2>3. f \in Laid[n][d]
    <3>1. f \in LaidBelow(d, Laid[n - 1])
      BY <1>2 DEF LaidBelow
    <3>2. Laid[n][d] = DeclaredIn(d) \cup LaidBelow(d, Laid[n - 1])
      BY <1>1, LaidByLevel
    <3>3. QED
      BY <3>1, <3>2
  <2> HIDE DEF f
  <2>4. PICK m \in Laid[Depth][c] : m.name = f.name /\ (Plain[Depth][c] => m.offset = f.offset)
    BY <2>3 DEF Reached, n
  <2>5. l.offset \in Int
    BY <2>1 DEF LaidFields
  <2>6. QED
    BY <1>4, <2>2, <2>4, <2>5
<1>6. QED
  BY <1>1, <1>4, <1>5 DEF Reached

(* After each round of a walk: all that is known is on the stack or done,  *)
(* and a round without anything left has come before all the classes are   *)
(* known.                                                                  *)
Known(c, s) == {c} \cup s.bases
Done(d, s) ==
    /\ \A i \in DOMAIN Fields[d] : Fields[d][i].name \in s.names \cup {None}
    /\ DirectBases(d) \subseteq s.bases
Counted(c, k, s) == s.stack = <<>> \/ Len(s.stack) + k = Cardinality(Known(c, s))
Met(c, s) ==
    /\ \A b \in s.bases : \E d \in Known(c, s) : b \in DirectBases(d)
    /\ ToSet(s.stack) \subseteq Known(c, s)
    /\ \A d \in Known(c, s) : d \in ToSet(s.stack) \/ Done(d, s)
Collected(c, s) ==
    /\ s.names = NamesIn(s.fields) /\ NamedOnce(s.fields)
    /\ \A i \in DOMAIN s.fields : \E d \in Known(c, s) : \E j \in DOMAIN Fields[d] :
          s.fields[i] = FieldRecord(c, Fields[d][j]) /\ Fields[d][j].name # None
InReach(c, s) ==
    \A d \in Known(c, s) : \E j \in 0 .. Cardinality(Known(c, s)) - 1 : Reached(c, d, j)

(* A class is never one of its own bases.                                  *)
LEMMA TopIsAlone ==
    ASSUME NEW c \in Classes, NEW s \in VisitStates(c),
           \A b \in s.bases : \E d \in Known(c, s) : b \in DirectBases(d)
    PROVE  c \notin s.bases /\ \A d \in Known(c, s) : c \notin DirectBases(d)
<1>1. Known(c, s) \in SUBSET Classes /\ Known(c, s) # {}
  BY DEF Known, VisitStates
<1>2. PICK e \in Known(c, s) : \A d \in Known(c, s) : e \notin DirectBases(d)
  BY <1>1, HierarchiesHaveTops
<1>3. e = c
  BY <1>2 DEF Known
<1>4. QED
  BY <1>2, <1>3

LEMMA KnownAreFew ==
    ASSUME NEW c \in Classes, NEW s \in VisitStates(c)
    PROVE  /\ IsFiniteSet(Known(c, s)) /\ Cardinality(Known(c, s)) \in 1 .. Depth
           /\ Known(c, s) \subseteq Classes
<1>1. Known(c, s) \in SUBSET Classes /\ c \in Known(c, s)
  BY DEF Known, VisitStates
<1>2. IsFiniteSet(Known(c, s)) /\ Cardinality(Known(c, s)) <= Depth
  BY <1>1, HierarchiesHaveTops, FS_Subset DEF Depth
<1>3. Cardinality(Known(c, s)) \in Nat /\ Cardinality(Known(c, s)) # 0
  BY <1>1, <1>2, FS_CardinalityType, FS_EmptySet
<1>4. QED
  BY <1>1, <1>2, <1>3, HierarchiesAreLists

(* The stack after a round.                                                *)
LEMMA StackMoves ==
    ASSUME NEW S, NEW stack \in Seq(S), stack # <<>>, NEW B \in Seq(S)
    PROVE  /\ Head(stack) \in ToSet(stack)
           /\ Len(stack) \in Nat /\ Len(B) \in Nat
           /\ Len(B \o Tail(stack)) = Len(B) + Len(stack) - 1
           /\ ToSet(stack) = {Head(stack)} \cup ToSet(Tail(stack))
           /\ ToSet(B \o Tail(stack)) = ToSet(B) \cup ToSet(Tail(stack))
<1>1. /\ Tail(stack) \in Seq(S) /\ Len(Tail(stack)) = Len(stack) - 1 /\ Len(stack) \in Nat
      /\ Head(stack) \in S
  OBVIOUS
<1>2. <<Head(stack)>> \in Seq(S) /\ stack = <<Head(stack)>> \o Tail(stack)
  BY <1>1
<1>3. ToSet(stack) = ToSet(<<Head(stack)>>) \cup ToSet(Tail(stack))
  BY <1>1, <1>2, ConcatElements
<1>4. ToSet(<<Head(stack)>>) = {Head(stack)}
  BY DEF ToSet
<1>5. ToSet(B \o Tail(stack)) = ToSet(B) \cup ToSet(Tail(stack))
  BY <1>1, ConcatElements
<1>6. Len(B \o Tail(stack)) = Len(B) + Len(stack) - 1 /\ Len(B) \in Nat
  BY <1>1
<1>7. QED
  BY <1>1, <1>3, <1>4, <1>5, <1>6

ComesFrom(t, s, W) ==
    \A i \in DOMAIN t : (\E j \in DOMAIN s : t[i] = s[j]) \/ \E j \in DOMAIN W : t[i] = W[j]

(* The names after a round: those of the list, without repeats.            *)
LEMMA NamesAreAdded ==
    ASSUME NEW S, NEW s \in Seq(S), NEW W \in Seq(S), NEW t, t = s \o W,
           NamedOnce(s), NamedOnce(W), NamesIn(s) \cap NamesIn(W) = {}
    PROVE  /\ NamedOnce(t) /\ NamesIn(t) = NamesIn(s) \cup NamesIn(W)
           /\ ComesFrom(t, s, W)
<1> DEFINE m == Len(s)
           n == Len(W)
<1>0. /\ \A i, j \in DOMAIN s : s[i].name = s[j].name => i = j
      /\ \A i, j \in DOMAIN W : W[i].name = W[j].name => i = j
      /\ \A i \in DOMAIN s : \A j \in DOMAIN W : s[i].name # W[j].name
  BY DEF NamedOnce, NamesIn
<1>1. m \in Nat /\ n \in Nat /\ DOMAIN s = 1 .. m /\ DOMAIN W = 1 .. n
  OBVIOUS
<1>2. /\ DOMAIN t = 1 .. m + n
      /\ \A i \in 1 .. m : t[i] = s[i]
      /\ \A i \in 1 .. n : t[m + i] = W[i]
  BY PutEndToEnd
<1> HIDE DEF m, n
<1>3. \A i \in 1 .. m : i \in DOMAIN t
  BY <1>1, <1>2
<1>4. \A i \in 1 .. n : m + i \in DOMAIN t
  BY <1>1, <1>2
<1>5. ASSUME NEW i \in DOMAIN t
      PROVE  \/ i \in 1 .. m /\ t[i] = s[i]
             \/ i - m \in 1 .. n /\ t[i] = W[i - m]
  <2>1. CASE i <= m
    BY <1>1, <1>2, <2>1
  <2>2. CASE ~(i <= m)
    <3>1. i - m \in 1 .. n /\ m + (i - m) = i
      BY <1>1, <1>2, <2>2
    <3>2. t[m + (i - m)] = W[i - m]
      BY <1>2, <3>1
    <3>3. QED
      BY <3>1, <3>2
  <2>3. QED
    BY <2>1, <2>2
<1>6. ASSUME NEW i \in DOMAIN t, NEW j \in DOMAIN t, t[i].name = t[j].name
      PROVE  i = j
  <2>1. CASE i \in 1 .. m /\ t[i] = s[i]
    <3>1. j \in 1 .. m /\ t[j] = s[j]
      BY <1>0, <1>1, <1>5, <1>6, <2>1
    <3>2. QED
      BY <1>0, <1>1, <1>6, <2>1, <3>1
  <2>2. CASE i - m \in 1 .. n /\ t[i] = W[i - m]
    <3>1. j - m \in 1 .. n /\ t[j] = W[j - m]
      BY <1>0, <1>1, <1>5, <1>6, <2>2
    <3>2. i - m = j - m
      BY <1>0, <1>1, <1>6, <2>2, <3>1
    <3>3. i \in Int /\ j \in Int
      BY <1>2
    <3>4. QED
      BY <1>1, <3>2, <3>3
  <2>3. QED
    BY <1>5, <2>1, <2>2
<1>7. ASSUME NEW i \in DOMAIN t
      PROVE  (\E j \in DOMAIN s : t[i] = s[j]) \/ \E j \in DOMAIN W : t[i] = W[j]
  BY <1>1, <1>5
<1>8. NamesIn(t) = NamesIn(s) \cup NamesIn(W)
  <2>1. \A i \in DOMAIN s : i \in DOMAIN t /\ t[i].name = s[i].name
    BY <1>1, <1>2, <1>3
  <2>2. \A i \in DOMAIN W : m + i \in DOMAIN t /\ t[m + i].name = W[i].name
    BY <1>1, <1>2, <1>4
  <2>3. \A x \in NamesIn(s) : x \in NamesIn(t)
    BY <2>1 DEF NamesIn
  <2>4. \A x \in NamesIn(W) : x \in NamesIn(t)
    BY <2>2 DEF NamesIn
  <2>5. \A x \in NamesIn(t) : x \in NamesIn(s) \cup NamesIn(W)
    BY <1>7 DEF NamesIn
  <2>6. QED
    BY <2>3, <2>4, <2>5
<1>9. NamedOnce(t)
  BY <1>6 DEF NamedOnce
<1>10. QED
  BY <1>7, <1>8, <1>9 DEF ComesFrom

(* One round.                                                              *)
LEMMA RoundKnows ==
    ASSUME NEW c \in Classes, NEW s \in VisitStates(c), s.stack # <<>>,
           NEW t, NEW d, NEW W, NEW B, FullRound(c, s, t, d, W, B), Met(c, s)
    PROVE  /\ d \in Known(c, s) /\ Known(c, t) = Known(c, s) \cup ToSet(B)
           /\ Cardinality(Known(c, t)) = Cardinality(Known(c, s)) + Len(B) /\ Len(B) \in Nat
           /\ Len(s.stack) \in Nat /\ Len(t.stack) = Len(B) + Len(s.stack) - 1
           /\ Met(c, t)
<1>1. /\ Round(s, t, d, W, B) /\ t \in VisitStates(c)
      /\ FieldsAdded(c, d, s.names, W) /\ BasesAdded(d, s.bases, B)
  BY DEF FullRound
<1>2. /\ d = Head(s.stack) /\ t.stack = B \o Tail(s.stack) /\ t.bases = s.bases \cup ToSet(B)
      /\ t.names = s.names \cup NamesIn(W)
  BY <1>1 DEF Round
<1>3. B \in Seq(Classes) /\ ToSet(B) = DirectBases(d) \ s.bases
      /\ IsFiniteSet(ToSet(B)) /\ Cardinality(ToSet(B)) = Len(B)
  BY <1>1 DEF BasesAdded
<1>4. s.stack \in Seq(Classes)
  BY DEF VisitStates
<1>5. /\ d \in ToSet(s.stack) /\ Len(s.stack) \in Nat /\ Len(B) \in Nat
      /\ Len(t.stack) = Len(B) + Len(s.stack) - 1
      /\ ToSet(s.stack) = {d} \cup ToSet(Tail(s.stack))
      /\ ToSet(t.stack) = ToSet(B) \cup ToSet(Tail(s.stack))
  BY <1>2, <1>3, <1>4, StackMoves
<1>6. d \in Known(c, s) /\ Known(c, t) = Known(c, s) \cup ToSet(B)
  BY <1>2, <1>5 DEF Met, Known
<1>7. \A b \in t.bases : \E e \in Known(c, t) : b \in DirectBases(e)
  BY <1>2, <1>3, <1>6 DEF Met
<1>8. c \notin t.bases
  BY <1>1, <1>7, TopIsAlone
<1>9. Cardinality(Known(c, t)) = Cardinality(Known(c, s)) + Len(B)
  <2>1. Known(c, s) \cap ToSet(B) = {}
    BY <1>2, <1>3, <1>8 DEF Known
  <2>2. IsFiniteSet(Known(c, s)) /\ Cardinality(Known(c, s)) \in Nat
    BY KnownAreFew, FS_CardinalityType
  <2>3. Cardinality(Known(c, s) \cup ToSet(B)) =
           Cardinality(Known(c, s)) + Cardinality(ToSet(B)) - Cardinality(Known(c, s) \cap ToSet(B))
    BY <1>3, <2>2, FS_Union
  <2>4. Cardinality(Known(c, s) \cap ToSet(B)) = 0
    BY <2>1, FS_EmptySet
  <2>5. QED
    BY <1>3, <1>5, <1>6, <2>2, <2>3, <2>4
<1>10. Done(d, t)
  <2>1. \A i \in DOMAIN Fields[d] : Fields[d][i].name \in t.names \cup {None}
    BY <1>1, <1>2 DEF FieldsAdded, NamesIn
  <2>2. QED
    BY <1>2, <1>3, <2>1 DEF Done
<1>11. Met(c, t)
  <2>1. ToSet(t.stack) \subseteq Known(c, t)
    BY <1>5, <1>6 DEF Met
  <2>2. ASSUME NEW e \in Known(c, t), e \notin ToSet(t.stack) PROVE Done(e, t)
    <3>1. CASE e = d
      BY <1>10, <3>1
    <3>2. CASE e # d
      <4>1. e \in Known(c, s) /\ e \notin ToSet(s.stack)
        BY <1>5, <1>6, <2>2, <3>2
      <4>2. Done(e, s)
        BY <4>1 DEF Met
      <4>3. QED
        BY <1>2, <4>2 DEF Done
    <3>3. QED
      BY <3>1, <3>2
  <2>3. QED
    BY <1>7, <2>1, <2>2 DEF Met
<1>12. QED
  BY <1>5, <1>6, <1>9, <1>11

LEMMA RoundKeeps ==
    ASSUME NEW c \in Classes, NEW s \in VisitStates(c), s.stack # <<>>, NEW t, t = VisitNext(c, s),
           NEW k \in Nat, Counted(c, k, s), Met(c, s), Collected(c, s), InReach(c, s)
    PROVE  Counted(c, k + 1, t) /\ Met(c, t) /\ Collected(c, t) /\ InReach(c, t)
<1>1. PICK d, W, B : FullRound(c, s, t, d, W, B)
  BY VisitGives
<1>2. /\ d \in Known(c, s) /\ Known(c, t) = Known(c, s) \cup ToSet(B)
      /\ Cardinality(Known(c, t)) = Cardinality(Known(c, s)) + Len(B) /\ Len(B) \in Nat
      /\ Len(s.stack) \in Nat /\ Len(t.stack) = Len(B) + Len(s.stack) - 1
      /\ Met(c, t)
  BY <1>1, RoundKnows
<1>3. /\ Round(s, t, d, W, B) /\ t \in VisitStates(c)
      /\ FieldsAdded(c, d, s.names, W) /\ BasesAdded(d, s.bases, B)
  BY <1>1 DEF FullRound
<1>4. Counted(c, k + 1, t)
  <2>1. Len(s.stack) + k = Cardinality(Known(c, s))
    BY DEF Counted
  <2> DEFINE new == Cardinality(Known(c, t))
             old == Cardinality(Known(c, s))
             more == Len(B)
             left == Len(s.stack)
             now == Len(t.stack)
  <2>2. /\ left + k = old /\ new = old + more /\ now = more + left - 1
        /\ more \in Nat /\ left \in Nat
    BY <1>2, <2>1
  <2> HIDE DEF new, old, more, left, now
  <2>3. now + (k + 1) = new
    BY <2>2
  <2>4. QED
    BY <2>3 DEF Counted, now, new
<1>5. Collected(c, t)
  <2>1. t.fields = s.fields \o W /\ t.names = s.names \cup NamesIn(W)
    BY <1>3 DEF Round
  <2>2. /\ W \in Seq(FieldRecords(c)) /\ NamedOnce(W)
        /\ \A i \in DOMAIN W : \E j \in DOMAIN Fields[d] :
              /\ W[i] = FieldRecord(c, Fields[d][j])
              /\ Fields[d][j].name \notin s.names \cup {None}
    BY <1>3 DEF FieldsAdded
  <2>3. s.fields \in Seq(FieldRecords(c))
    BY DEF VisitStates
  <2>4. s.names = NamesIn(s.fields) /\ NamedOnce(s.fields)
    BY DEF Collected
  <2>5. NamesIn(s.fields) \cap NamesIn(W) = {}
    <3>1. \A f : FieldRecord(c, f).name = f.name
      BY OwnFieldFirst
    <3>2. \A x \in NamesIn(W) : x \notin s.names
      BY <2>2, <3>1 DEF NamesIn
    <3>3. QED
      BY <2>4, <3>2
  <2>6. /\ NamedOnce(t.fields) /\ NamesIn(t.fields) = NamesIn(s.fields) \cup NamesIn(W)
        /\ ComesFrom(t.fields, s.fields, W)
    <3>1. W \in Seq(FieldRecords(c)) /\ NamedOnce(W)
      BY <2>2
    <3>2. QED
      BY <3>1, <2>1, <2>3, <2>4, <2>5, NamesAreAdded
  <2>7. ASSUME NEW i \in DOMAIN t.fields
        PROVE  \E e \in Known(c, t) : \E j \in DOMAIN Fields[e] :
                  t.fields[i] = FieldRecord(c, Fields[e][j]) /\ Fields[e][j].name # None
    <3>1. CASE \E j \in DOMAIN s.fields : t.fields[i] = s.fields[j]
      BY <1>2, <3>1 DEF Collected
    <3>2. CASE \E j \in DOMAIN W : t.fields[i] = W[j]
      BY <1>2, <2>2, <3>2
    <3>3. QED
      BY <2>6, <3>1, <3>2 DEF ComesFrom
  <2>8. QED
    BY <2>1, <2>4, <2>6, <2>7 DEF Collected
<1>6. InReach(c, t)
  <2> SUFFICES ASSUME NEW e \in Known(c, t)
               PROVE  \E j \in 0 .. Cardinality(Known(c, t)) - 1 : Reached(c, e, j)
    BY DEF InReach
  <2>1. /\ Cardinality(Known(c, s)) \in 1 .. Depth /\ Cardinality(Known(c, t)) \in 1 .. Depth
        /\ Depth \in Nat
    BY <1>3, KnownAreFew, HierarchiesAreLists
  <2>2. CASE e \in Known(c, s)
    <3>1. PICK j \in 0 .. Cardinality(Known(c, s)) - 1 : Reached(c, e, j)
      BY <2>2 DEF InReach
    <3>2. j \in 0 .. Cardinality(Known(c, t)) - 1
      BY <1>2, <2>1
    <3>3. QED
      BY <3>1, <3>2
  <2>3. CASE e \notin Known(c, s)
    <3>1. ToSet(B) = DirectBases(d) \ s.bases /\ B \in Seq(Classes)
      BY <1>3 DEF BasesAdded
    <3>2. e \in ToSet(B) /\ e \in DirectBases(d)
      BY <1>2, <2>3, <3>1
    <3>3. Len(B) # 0
      BY <3>1, <3>2 DEF ToSet
    <3>4. PICK j \in 0 .. Cardinality(Known(c, s)) - 1 : Reached(c, d, j)
      BY <1>2 DEF InReach
    <3>5. j \in 0 .. Depth - 1 /\ j + 1 \in 0 .. Cardinality(Known(c, t)) - 1
      BY <1>2, <2>1, <3>3
    <3>6. d \in Classes
      BY <1>3 DEF Round
    <3>7. Reached(c, e, j + 1)
      BY <3>2, <3>4, <3>5, <3>6, BasesAreReached
    <3>8. QED
      BY <3>5, <3>7
  <2>4. QED
    BY <2>2, <2>3
<1>7. QED
  BY <1>2, <1>4, <1>5, <1>6
(* Where a walk ends: all that is known is done.                           *)
Finished(c, s) ==
    /\ s \in VisitStates(c) /\ StructFields(c) = s.fields
    /\ \A d \in Known(c, s) : Done(d, s)
    /\ Collected(c, s) /\ InReach(c, s)

LEMMA WalksFinish ==
    ASSUME NEW c \in Classes
    PROVE  \E s : Finished(c, s)
<1> DEFINE Holds(k, s) == /\ s \in VisitStates(c) /\ Counted(c, k, s) /\ Met(c, s)
                          /\ Collected(c, s) /\ InReach(c, s)
<1>1. PICK v : VisitRun(c, v)
  BY VisitsRun
<1>2. Depth \in Nat
  BY HierarchiesAreLists
<1>3. Holds(0, v[0])
  <2> DEFINE s == v[0]
  <2>1. s \in VisitStates(c)
    BY <1>1, <1>2 DEF VisitRun
  <2>2. s.stack = <<c>> /\ s.fields = <<>> /\ s.names = {} /\ s.bases = {}
    BY <1>1 DEF VisitRun, VisitStart
  <2> HIDE DEF s
  <2>3. Known(c, s) = {c}
    BY <2>2 DEF Known
  <2>4. Cardinality({c}) = 1
    BY FS_Singleton
  <2>5. ToSet(<<c>>) = {c} /\ Len(<<c>>) = 1
    BY DEF ToSet
  <2>6. Counted(c, 0, s) /\ Met(c, s)
    BY <2>2, <2>3, <2>4, <2>5 DEF Counted, Met
  <2>7. Collected(c, s)
    BY <2>2 DEF Collected, NamesIn, NamedOnce
  <2>8. Reached(c, c, 0)
    BY <1>2 DEF Reached
  <2>9. InReach(c, s)
    BY <2>3, <2>4, <2>8 DEF InReach
  <2>10. QED
    BY <2>1, <2>6, <2>7, <2>9 DEF s
<1>4. ASSUME NEW k \in 1 .. Depth, Holds(k - 1, v[k - 1]) PROVE Holds(k, v[k])
  <2> DEFINE s == v[k - 1]
             t == v[k]
  <2>1. t = VisitNext(c, s) /\ t \in VisitStates(c)
    BY <1>1, <1>2 DEF VisitRun
  <2>2. k - 1 \in Nat /\ k - 1 + 1 = k
    BY <1>2
  <2>3. s \in VisitStates(c) /\ Counted(c, k - 1, s) /\ Met(c, s) /\ Collected(c, s) /\ InReach(c, s)
    BY <1>4
  <2> HIDE DEF s, t
  <2>4. CASE s.stack = <<>>
    <3>1. t = s
      BY <2>1, <2>4 DEF VisitNext
    <3>2. QED
      BY <2>3, <2>4, <3>1 DEF Counted, s, t
  <2>5. CASE s.stack # <<>>
    <3>1. Counted(c, k - 1 + 1, t) /\ Met(c, t) /\ Collected(c, t) /\ InReach(c, t)
      BY <2>1, <2>2, <2>3, <2>5, RoundKeeps
    <3>2. QED
      BY <2>1, <2>2, <3>1 DEF t
  <2>6. QED
    BY <2>4, <2>5
<1> HIDE DEF Holds
<1>5. Holds(Depth, v[Depth])
  <2> DEFINE P == {k \in 0 .. Depth : Holds(k, v[k])}
  <2>1. 0 \in P /\ P \in SUBSET (0 .. Depth)
    BY <1>2, <1>3
  <2>2. ASSUME NEW i \in 0 .. Depth - 1, i \in P PROVE i + 1 \in P
    <3> DEFINE k == i + 1
    <3>1. k \in 1 .. Depth /\ k - 1 = i /\ k \in 0 .. Depth
      BY <1>2
    <3> HIDE DEF k
    <3>2. Holds(k - 1, v[k - 1])
      BY <2>2, <3>1
    <3>3. Holds(k, v[k])
      BY <1>4, <3>1, <3>2
    <3>4. QED
      BY <3>1, <3>3 DEF k
  <2> HIDE DEF P
  <2>3. P = 0 .. Depth
    BY <1>2, <2>1, <2>2, UpTo
  <2>4. Depth \in P
    BY <1>2, <2>3
  <2>5. QED
    BY <2>4 DEF P
<1> DEFINE s == v[Depth]
<1>6. /\ s \in VisitStates(c) /\ Counted(c, Depth, s) /\ Met(c, s)
      /\ Collected(c, s) /\ InReach(c, s) /\ StructFields(c) = s.fields
  BY <1>1, <1>5 DEF Holds, VisitRun
<1> HIDE DEF s
<1>7. s.stack = <<>>
  <2> SUFFICES ASSUME s.stack # <<>> PROVE FALSE
    OBVIOUS
  <2>1. Len(s.stack) + Depth = Cardinality(Known(c, s))
    BY <1>6 DEF Counted
  <2>2. Cardinality(Known(c, s)) \in 1 .. Depth
    BY <1>6, KnownAreFew
  <2>3. s.stack \in Seq(Classes)
    BY <1>6 DEF VisitStates
  <2>4. Len(s.stack) \in Nat /\ Len(s.stack) # 0
    BY <2>3
  <2>5. QED
    BY <1>2, <2>1, <2>2, <2>4
<1>8. \A d \in Known(c, s) : Done(d, s)
  BY <1>6, <1>7 DEF Met, ToSet
<1>9. Finished(c, s)
  BY <1>6, <1>8 DEF Finished
<1>10. QED
  BY <1>9

(* By then all names of the hierarchy have been met.                       *)
LEMMA NamesAreMet ==
    ASSUME NEW c \in Classes, NEW s, Finished(c, s)
    PROVE  \A l \in Laid[Depth][c] : l.name \in s.names \cup {None}
<1> DEFINE P == {n \in 0 .. Depth : \A d \in Known(c, s) : \A l \in Laid[n][d] :
                    l.name \in s.names \cup {None}}
<1>1. Depth \in Nat /\ Known(c, s) \subseteq Classes /\ c \in Known(c, s)
  BY HierarchiesAreLists, KnownAreFew DEF Finished, Known
<1>2. ASSUME NEW d \in Known(c, s), NEW l \in DeclaredIn(d) PROVE l.name \in s.names \cup {None}
  <2>1. Done(d, s)
    BY DEF Finished
  <2>2. QED
    BY <2>1 DEF Done, DeclaredIn
<1>3. 0 \in P
  BY <1>1, <1>2, LaidByLevel
<1>4. ASSUME NEW i \in 0 .. Depth - 1, i \in P PROVE i + 1 \in P
  <2> DEFINE n == i + 1
  <2>1. n \in 1 .. Depth /\ n - 1 = i /\ n \in 0 .. Depth /\ i \in 0 .. Depth
    BY <1>1
  <2> HIDE DEF n
  <2>2. ASSUME NEW d \in Known(c, s), NEW l \in Laid[n][d] PROVE l.name \in s.names \cup {None}
    <3>1. Laid[n][d] = DeclaredIn(d) \cup LaidBelow(d, Laid[i])
      BY <1>1, <2>1, LaidByLevel
    <3>2. CASE l \in DeclaredIn(d)
      BY <1>2, <3>2
    <3>3. CASE l \in LaidBelow(d, Laid[i])
      <4>1. PICK j \in DOMAIN Bases[d] : \E f \in Laid[i][Bases[d][j].class] : l = Inherited(f, Bases[d][j])
        BY <3>3 DEF LaidBelow
      <4>1a. PICK f \in Laid[i][Bases[d][j].class] : l = Inherited(f, Bases[d][j])
        BY <4>1
      <4>2. Bases[d][j].class \in Known(c, s) /\ Bases[d][j].offset \in Int
        <5>1. Done(d, s)
          BY DEF Finished
        <5>2. Bases[d][j].class \in s.bases
          BY <5>1 DEF Done, DirectBases
        <5>3. QED
          BY <1>1, <5>2, HierarchiesAreLists DEF Known
      <4>3. f.name \in s.names \cup {None}
        BY <1>4, <4>2
      <4>4. l.name = f.name
        BY <4>1a DEF Inherited
      <4>5. QED
        BY <4>3, <4>4
    <3>4. QED
      BY <3>1, <3>2, <3>3
  <2>3. QED
    BY <2>1, <2>2 DEF n
<1>5. P = 0 .. Depth
  <2>1. P \in SUBSET (0 .. Depth)
    OBVIOUS
  <2> HIDE DEF P
  <2>2. QED
    BY <1>1, <1>3, <1>4, <2>1, UpTo
<1>6. Depth \in P
  BY <1>1, <1>5
<1>7. QED
  BY <1>1, <1>6

(* What is laid at depth 0 is declared in the class itself.                *)
LEMMA ShallowAreDeclared ==
    ASSUME NEW c \in Classes, NEW n \in 0 .. Depth
    PROVE  /\ DeclaredIn(c) \subseteq Laid[n][c]
           /\ \A l \in Laid[n][c] : l.depth = 0 => l \in DeclaredIn(c)
<1>1. CASE n = 0
  BY <1>1, LaidByLevel
<1>2. CASE n # 0
  <2>1. n \in 1 .. Depth /\ n - 1 \in 0 .. Depth
    BY <1>2, HierarchiesAreLists
  <2>2. Laid[n][c] = DeclaredIn(c) \cup LaidBelow(c, Laid[n - 1])
    BY <2>1, LaidByLevel
  <2>3. ASSUME NEW l \in LaidBelow(c, Laid[n - 1]) PROVE l.depth # 0
    <3>1. PICK j \in DOMAIN Bases[c] : \E f \in Laid[n - 1][Bases[c][j].class] : l = Inherited(f, Bases[c][j])
      BY DEF LaidBelow
    <3>1a. PICK f \in Laid[n - 1][Bases[c][j].class] : l = Inherited(f, Bases[c][j])
      BY <3>1
    <3>2. Bases[c][j].class \in Classes /\ Bases[c][j].offset \in Int
      BY HierarchiesAreLists
    <3>3. f \in LaidFields
      BY <2>1, <3>2, LaidByLevel
    <3>4. l.depth = f.depth + 1 /\ f.depth \in Nat
      BY <3>1a, <3>2, <3>3, InheritedMoves DEF LaidFields
    <3>5. QED
      BY <3>4
  <2>4. QED
    BY <2>2, <2>3
<1>3. QED
  BY <1>1, <1>2

LEMMA OwnFieldsAreLaid ==
    ASSUME NEW c, NEW k \in DOMAIN Fields[c]
    PROVE  \E l \in DeclaredIn(c) :
              l.name = Fields[c][k].name /\ l.offset = Fields[c][k].offset /\ l.depth = 0
<1> DEFINE l == [name |-> Fields[c][k].name, offset |-> Fields[c][k].offset, depth |-> 0]
<1>1. l \in DeclaredIn(c)
  BY DEF DeclaredIn
<1>2. l.name = Fields[c][k].name /\ l.offset = Fields[c][k].offset /\ l.depth = 0
  OBVIOUS
<1> HIDE DEF l
<1>3. QED
  BY <1>1, <1>2

LEMMA FieldsAreFollowed ==
    ASSUME NEW c \in Classes
    PROVE  FieldsFollow(c)
<1> DEFINE fields == StructFields(c)
           laid == Laid[Depth][c]
           at(i) == {l \in laid : l.name = fields[i].name}
<1>1. PICK s : Finished(c, s)
  BY WalksFinish
<1>2. /\ fields = s.fields /\ s \in VisitStates(c) /\ InReach(c, s) /\ s.names = NamesIn(fields)
      /\ NamedOnce(fields)
      /\ \A i \in DOMAIN fields : \E d \in Known(c, s) : \E j \in DOMAIN Fields[d] :
            fields[i] = FieldRecord(c, Fields[d][j]) /\ Fields[d][j].name # None
  BY <1>1 DEF Finished, Collected
<1>3. fields \in Seq(FieldRecords(c))
  BY <1>2 DEF VisitStates
<1> HIDE DEF fields, laid
<1>4. /\ DeclaredIn(c) \subseteq laid
      /\ \A l \in laid : l.depth = 0 => l \in DeclaredIn(c)
  BY HierarchiesAreLists, ShallowAreDeclared DEF laid
<1>5. ASSUME NEW i \in DOMAIN fields
      PROVE  /\ fields[i].name # None
             /\ \E l \in at(i) : Plain[Depth][c] => l.offset = fields[i].offset
             /\ (\E l \in at(i) : l.depth = 0) =>
                   \E l \in at(i) : l.depth = 0 /\ l.offset = fields[i].offset
  <2>0. PICK d \in Known(c, s) : \E j \in DOMAIN Fields[d] :
           fields[i] = FieldRecord(c, Fields[d][j]) /\ Fields[d][j].name # None
    BY <1>2
  <2>1. PICK j \in DOMAIN Fields[d] :
           fields[i] = FieldRecord(c, Fields[d][j]) /\ Fields[d][j].name # None
    BY <2>0
  <2> DEFINE f == Fields[d][j]
  <2>2. /\ fields[i].name = f.name
        /\ \/ \E k \in DOMAIN Fields[c] :
                 Fields[c][k].name = f.name /\ fields[i].offset = Fields[c][k].offset
           \/ /\ \A k \in DOMAIN Fields[c] : Fields[c][k].name # f.name
              /\ fields[i].offset = f.offset
    BY <2>1, OwnFieldFirst
  <2>3. PICK m \in 0 .. Cardinality(Known(c, s)) - 1 : Reached(c, d, m)
    BY <1>2 DEF InReach
  <2>4. d \in Classes /\ Depth - m \in 0 .. Depth
    BY <1>2, <2>3, KnownAreFew, HierarchiesAreLists
  <2>5. PICK l \in DeclaredIn(d) : l.name = f.name /\ l.offset = f.offset
    BY OwnFieldsAreLaid
  <2> HIDE DEF f
  <2>6. l \in Laid[Depth - m][d]
    BY <2>4, <2>5, ShallowAreDeclared
  <2>7. PICK g \in laid : g.name = f.name /\ (Plain[Depth][c] => g.offset = f.offset)
    BY <2>3, <2>5, <2>6 DEF Reached, laid
  <2>8. CASE \E k \in DOMAIN Fields[c] :
                Fields[c][k].name = f.name /\ fields[i].offset = Fields[c][k].offset
    <3>1. PICK k \in DOMAIN Fields[c] :
             Fields[c][k].name = f.name /\ fields[i].offset = Fields[c][k].offset
      BY <2>8
    <3>2. PICK h \in DeclaredIn(c) :
             h.name = f.name /\ h.offset = fields[i].offset /\ h.depth = 0
      BY <3>1, OwnFieldsAreLaid
    <3>3. h \in at(i)
      BY <1>4, <2>2, <3>2
    <3>4. QED
      BY <2>1, <2>2, <3>2, <3>3 DEF f
  <2>9. CASE /\ \A k \in DOMAIN Fields[c] : Fields[c][k].name # f.name
             /\ fields[i].offset = f.offset
    <3>1. g \in at(i)
      BY <2>2, <2>7
    <3>2. \A h \in at(i) : h.depth # 0
      <4>1. \A h \in DeclaredIn(c) : h.name # f.name
        BY <2>9 DEF DeclaredIn
      <4>2. QED
        BY <1>4, <2>2, <4>1
    <3>3. QED
      BY <2>1, <2>2, <2>7, <2>9, <3>1, <3>2 DEF f
  <2>10. QED
    BY <2>2, <2>8, <2>9
<1>6. NamesIn(fields) = {l.name : l \in laid} \ {None}
  <2>1. \A x \in NamesIn(fields) : x # None /\ \E l \in laid : x = l.name
    BY <1>5 DEF NamesIn
  <2>2. \A l \in laid : l.name \in NamesIn(fields) \cup {None}
    BY <1>1, <1>2, NamesAreMet DEF laid
  <2>3. QED
    BY <2>1, <2>2
<1>7. Len(fields) = Cardinality(NamesIn(fields))
  <2> DEFINE n == Len(fields)
             name == [i \in 1 .. n |-> fields[i].name]
  <2>1. n \in Nat /\ DOMAIN fields = 1 .. n
    BY <1>3
  <2>2. \A p, q \in 1 .. n : name[p] = name[q] => p = q
    BY <1>2, <2>1 DEF NamedOnce
  <2>3. NamesIn(fields) = {name[p] : p \in 1 .. n}
    BY <2>1 DEF NamesIn
  <2> HIDE DEF n, name
  <2>4. Cardinality(NamesIn(fields)) = n
    BY <2>1, <2>2, <2>3, ImagesCount
  <2>5. QED
    BY <2>4 DEF n
<1>8. QED
  BY <1>5, <1>6, <1>7 DEF FieldsFollow, HierarchyFields, Depth, NamesIn, fields, laid

LEMMA FieldsAreListed ==
    ASSUME NEW c \in Classes
    PROVE  Len(StructFields(c)) \in Nat
<1>1. PICK s : Finished(c, s)
  BY WalksFinish
<1>2. StructFields(c) \in Seq(FieldRecords(c))
  BY <1>1 DEF Finished, VisitStates
<1>3. QED
  BY <1>2

-----------------------------------------------------------------------------
(* What a walk returns.  AllRecords are the records that the pool can      *)
(* return.                                                                 *)
AllRecords == UNION {ToSet(WalkRecords(tu)) : tu \in Trees}

LEMMA ToSetConcat ==
    ASSUME NEW S, NEW s \in Seq(S), NEW t \in Seq(S)
    PROVE  s \o t \in Seq(S) /\ ToSet(s \o t) = ToSet(s) \cup ToSet(t)
<1>1. /\ s \o t \in Seq(S) /\ Len(s \o t) = Len(s) + Len(t)
      /\ \A i \in 1 .. Len(s) : (s \o t)[i] = s[i]
      /\ \A i \in 1 .. Len(t) : (s \o t)[Len(s) + i] = t[i]
  OBVIOUS
<1>2. /\ DOMAIN s = 1 .. Len(s) /\ DOMAIN t = 1 .. Len(t) /\ DOMAIN (s \o t) = 1 .. Len(s \o t)
      /\ Len(s) \in Nat /\ Len(t) \in Nat
  BY <1>1
<1> DEFINE st == s \o t
<1> HIDE DEF st
<1>3. ASSUME NEW i \in DOMAIN st PROVE st[i] \in ToSet(s) \cup ToSet(t)
  <2>1. CASE i \in 1 .. Len(s)
    BY <1>1, <1>2, <2>1 DEF ToSet, st
  <2>2. CASE i \notin 1 .. Len(s)
    <3>1. i - Len(s) \in 1 .. Len(t) /\ Len(s) + (i - Len(s)) = i
      BY <1>1, <1>2, <2>2 DEF st
    <3>2. st[i] = t[i - Len(s)]
      BY <1>1, <3>1 DEF st
    <3>3. QED
      BY <1>2, <3>1, <3>2 DEF ToSet
  <2>3. QED
    BY <2>1, <2>2
<1>4. ASSUME NEW i \in DOMAIN s PROVE s[i] \in ToSet(st)
  <2>1. i \in DOMAIN st /\ st[i] = s[i]
    BY <1>1, <1>2 DEF st
  <2>2. QED
    BY <2>1 DEF ToSet
<1>5. ASSUME NEW i \in DOMAIN t PROVE t[i] \in ToSet(st)
  <2>1. Len(s) + i \in DOMAIN st /\ st[Len(s) + i] = t[i]
    BY <1>1, <1>2 DEF st
  <2>2. QED
    BY <2>1 DEF ToSet
<1>6. QED
  BY <1>1, <1>3, <1>4, <1>5 DEF ToSet, st

(* One section of a walk: records of cursors that pass, and for every      *)
(* cursor that passes the record of the first that is seen as the same.    *)
Recorded(tu, section, c) == c \in ToSet(tu) /\ Section(c) = section /\ Passes(c)

LEMMA WalkedLists ==
    ASSUME NEW tu \in Trees, NEW section
    PROVE  /\ Walked(tu, section) \in Seq(ToSet(Walked(tu, section)))
           /\ \A r \in ToSet(Walked(tu, section)) :
                 \E c : Recorded(tu, section, c) /\ r = RecordOf(c)
           /\ \A i \in DOMAIN tu : Recorded(tu, section, tu[i]) =>
                 \E j \in DOMAIN tu :
                    /\ j <= i /\ Recorded(tu, section, tu[j]) /\ Seen(tu[j]) = Seen(tu[i])
                    /\ RecordOf(tu[j]) \in ToSet(Walked(tu, section))
<1> DEFINE visited == {i \in DOMAIN tu : Section(tu[i]) = section /\ Passes(tu[i])}
           fresh == {i \in visited : \A j \in visited : j < i => Seen(tu[j]) # Seen(tu[i])}
           cursors == Selection(tu, fresh)
           W == Walked(tu, section)
<1>1. tu \in Seq(ToSet(tu)) /\ fresh \in SUBSET DOMAIN tu
  BY CursorsAreTyped DEF IsList, ToSet
<1>2. /\ cursors \in Seq(ToSet(tu))
      /\ \A k \in DOMAIN cursors : \E i \in fresh : cursors[k] = tu[i]
      /\ \A i \in fresh : \E k \in DOMAIN cursors : cursors[k] = tu[i]
  BY <1>1, SelectionSelects, SelectionElements
<1>3. W = [k \in DOMAIN cursors |-> RecordOf(cursors[k])]
  BY DEF Walked
<1> HIDE DEF cursors, W
<1>4. Len(cursors) \in Nat /\ DOMAIN cursors = 1 .. Len(cursors)
  BY <1>2
<1>5. W \in Seq(ToSet(W))
  BY <1>3, <1>4 DEF ToSet
<1>6. \A r \in ToSet(W) : \E c : Recorded(tu, section, c) /\ r = RecordOf(c)
  BY <1>2, <1>3 DEF ToSet, Recorded
<1>7. ASSUME NEW i \in DOMAIN tu, Recorded(tu, section, tu[i])
      PROVE  \E j \in DOMAIN tu :
                /\ j <= i /\ Recorded(tu, section, tu[j]) /\ Seen(tu[j]) = Seen(tu[i])
                /\ RecordOf(tu[j]) \in ToSet(W)
  <2> DEFINE same == {j \in visited : Seen(tu[j]) = Seen(tu[i])}
             m == First(same)
  <2>1. same \in SUBSET DOMAIN tu /\ i \in same
    BY <1>7 DEF Recorded
  <2>2. m \in same /\ \A j \in same : m <= j
    BY <1>1, <2>1, FirstIsLeast
  <2> HIDE DEF m
  <2>3. \A j \in DOMAIN tu : j \in Int
    BY <1>1
  <2>4. m \in fresh
    BY <2>2, <2>3
  <2>5. RecordOf(tu[m]) \in ToSet(W)
    <3>1. PICK k \in DOMAIN cursors : cursors[k] = tu[m]
      BY <1>2, <2>4
    <3>2. k \in DOMAIN W /\ W[k] = RecordOf(tu[m])
      BY <1>3, <3>1
    <3>3. QED
      BY <3>2 DEF ToSet
  <2>6. m <= i /\ m \in DOMAIN tu /\ Recorded(tu, section, tu[m]) /\ Seen(tu[m]) = Seen(tu[i])
    BY <2>1, <2>2, <2>3 DEF Recorded, ToSet
  <2>7. QED
    BY <2>5, <2>6
<1>8. QED
  BY <1>5, <1>6, <1>7 DEF W

(* A walk as a whole: the four sections, each record under its name.       *)
LEMMA WalkRecordsAreTagged ==
    ASSUME NEW tu \in Trees
    PROVE  /\ WalkRecords(tu) \in Seq(ToSet(WalkRecords(tu)))
           /\ ToSet(WalkRecords(tu)) =
                 UNION {{[section |-> s, record |-> r] : r \in ToSet(Walked(tu, s))} : s \in Sections}
<1> DEFINE T(s) == {[section |-> s, record |-> r] : r \in ToSet(Walked(tu, s))}
           S == UNION {T(s) : s \in Sections}
<1>1. ASSUME NEW s \in Sections PROVE Tagged(tu, s) \in Seq(S) /\ ToSet(Tagged(tu, s)) = T(s)
  <2> DEFINE W == Walked(tu, s)
  <2>1. W \in Seq(ToSet(W))
    BY WalkedLists
  <2>2. Len(W) \in Nat /\ DOMAIN W = 1 .. Len(W)
    BY <2>1
  <2>3. Tagged(tu, s) = [i \in DOMAIN W |-> [section |-> s, record |-> W[i]]]
    BY DEF Tagged
  <2> HIDE DEF W
  <2>4. \A i \in DOMAIN W : [section |-> s, record |-> W[i]] \in T(s)
    BY DEF ToSet, W
  <2>5. ToSet(Tagged(tu, s)) = T(s)
    BY <2>3, <2>4 DEF ToSet, W
  <2>6. \A i \in DOMAIN W : [section |-> s, record |-> W[i]] \in S
    BY <2>4
  <2>7. Tagged(tu, s) \in Seq(S)
    BY <2>2, <2>3, <2>6
  <2>8. QED
    BY <2>5, <2>7
<1>2. Sections = {"structs", "functions", "enums", "typedefs"}
  BY DEF Sections
<1>3. S = T("structs") \cup T("functions") \cup T("enums") \cup T("typedefs")
  BY <1>2
<1> HIDE DEF T, S
<1> DEFINE one == Tagged(tu, "structs")
           two == one \o Tagged(tu, "functions")
           three == two \o Tagged(tu, "enums")
           four == three \o Tagged(tu, "typedefs")
<1>4. one \in Seq(S) /\ ToSet(one) = T("structs")
  BY <1>1, <1>2
<1> HIDE DEF one
<1>5. two \in Seq(S) /\ ToSet(two) = T("structs") \cup T("functions")
  BY <1>1, <1>2, <1>4, ToSetConcat
<1> HIDE DEF two
<1>6. three \in Seq(S) /\ ToSet(three) = T("structs") \cup T("functions") \cup T("enums")
  BY <1>1, <1>2, <1>5, ToSetConcat
<1> HIDE DEF three
<1>7. four \in Seq(S) /\ ToSet(four) = S
  BY <1>1, <1>2, <1>3, <1>6, ToSetConcat
<1>8. four = WalkRecords(tu)
  BY DEF WalkRecords, one, two, three
<1>9. QED
  BY <1>7, <1>8 DEF S, T

(* The key of a record is what its cursor is known by.                     *)
LEMMA KeysAreNames ==
    ASSUME NEW c, Section(c) \in Sections
    PROVE  Key(Section(c), RecordOf(c)) = KeyOf(c)
<1> USE DEF RecordKinds, FunctionKinds
<1>1. CASE c.kind \in RecordKinds
  <2>1. Section(c) = "structs"
    BY <1>1 DEF Section
  <2>2. QED
    BY <1>1, <2>1 DEF RecordOf, Key, KeyOf, StructRecord
<1>2. CASE c.kind \in FunctionKinds
  <2>1. Section(c) = "functions"
    BY <1>2 DEF Section
  <2>2. QED
    BY <1>2, <2>1 DEF RecordOf, Key, KeyOf, FunctionRecord
<1>3. CASE c.kind = "enum"
  <2>1. Section(c) = "enums"
    BY <1>3 DEF Section
  <2>2. QED
    BY <1>3, <2>1 DEF RecordOf, Key, KeyOf, EnumRecord
<1>4. CASE c.kind = "typedef"
  <2>1. Section(c) = "typedefs"
    BY <1>4 DEF Section
  <2>2. QED
    BY <1>4, <2>1 DEF RecordOf, Key, KeyOf, TypedefRecord
<1>5. CASE c.kind \notin RecordKinds \cup FunctionKinds \cup {"enum", "typedef"}
  BY <1>5 DEF Section, Sections
<1>6. QED
  BY <1>1, <1>2, <1>3, <1>4, <1>5

(* Every score is a number.                                                *)
LEMMA ScoresAreNumbers ==
    ASSUME NEW tu \in Trees, NEW a \in ToSet(WalkRecords(tu))
    PROVE  a.section \in Sections /\ Score(a.section, a.record) \in Int
<1>0. PICK s \in Sections : a \in {[section |-> s, record |-> r] : r \in ToSet(Walked(tu, s))}
  BY WalkRecordsAreTagged
<1>1. PICK r \in ToSet(Walked(tu, s)) : a = [section |-> s, record |-> r]
  BY <1>0
<1>2. PICK c : Recorded(tu, s, c) /\ r = RecordOf(c)
  BY WalkedLists
<1>3. a.section = s /\ a.record = r
  BY <1>1
<1>4. CASE s = "structs"
  <2>1. c.kind \in RecordKinds /\ c.usr \in Classes
    <3>1. c.kind \in RecordKinds
      BY <1>2, <1>4 DEF Recorded, Section
    <3>2. QED
      BY <1>2, <3>1, CursorsAreTyped DEF Recorded
  <2>2. r.size \in Nat /\ Len(r.fields) \in Nat
    BY <1>2, <1>4, <2>1, StructsAreMeasured, FieldsAreListed DEF Recorded, RecordOf, StructRecord
  <2>3. QED
    BY <1>3, <1>4, <2>2 DEF Score, StructScore
<1>5. CASE s # "structs"
  BY <1>3, <1>5 DEF Score, Richness, Flagged
<1>6. QED
  BY <1>3, <1>4, <1>5

(* The records on their way: what was merged and what is still to merge    *)
(* are the records of the TUs that were walked, and of no others.          *)
FlowInv ==
    /\ arrived \in Seq(AllRecords) /\ inbox \in Seq(AllRecords)
    /\ ToSet(arrived) \cup ToSet(inbox) = UNION {ToSet(RecordsOf(f)) : f \in walked}

LEMMA RecordsAreListed ==
    ASSUME ProjectInv, NEW f \in Files
    PROVE  /\ project.tus[f] \in Trees /\ RecordsOf(f) = WalkRecords(project.tus[f])
           /\ RecordsOf(f) \in Seq(AllRecords)
<1>1. project.tus[f] \in Trees
  BY DEF ProjectInv, Files, Trees
<1>2. RecordsOf(f) = WalkRecords(project.tus[f])
  BY <1>1 DEF RecordsOf, Walks
<1>3. /\ WalkRecords(project.tus[f]) \in Seq(ToSet(WalkRecords(project.tus[f])))
      /\ ToSet(WalkRecords(project.tus[f])) \subseteq AllRecords
  BY <1>1, WalkRecordsAreTagged DEF AllRecords
<1>4. QED
  BY <1>1, <1>2, <1>3, SeqMonotonic

(* One record goes from the second list to the first.                      *)
LEMMA RecordMoves ==
    ASSUME NEW S, NEW s \in Seq(S), NEW t \in Seq(S), t # <<>>
    PROVE  /\ Append(s, Head(t)) \in Seq(S) /\ Tail(t) \in Seq(S)
           /\ ToSet(Append(s, Head(t))) \cup ToSet(Tail(t)) = ToSet(s) \cup ToSet(t)
<1>1. /\ Head(t) \in S /\ Tail(t) \in Seq(S) /\ t = <<Head(t)>> \o Tail(t)
      /\ Append(s, Head(t)) = s \o <<Head(t)>>
  <2>1. Head(t) \in S /\ Tail(t) \in Seq(S) /\ t = <<Head(t)>> \o Tail(t)
    OBVIOUS
  <2>2. QED
    BY <2>1, AppendIsConcat
<1>2. <<Head(t)>> \in Seq(S) /\ Append(s, Head(t)) \in Seq(S)
  BY <1>1
<1>3. /\ ToSet(t) = ToSet(<<Head(t)>>) \cup ToSet(Tail(t))
      /\ ToSet(Append(s, Head(t))) = ToSet(s) \cup ToSet(<<Head(t)>>)
  BY <1>1, <1>2, ToSetConcat
<1>4. QED
  BY <1>1, <1>2, <1>3

LEMMA FlowInvStep ==
    ASSUME ProjectInv, PoolInv, FlowInv, [Next]_vars
    PROVE  FlowInv'
<1> DEFINE Flow == <<arrived, inbox, walked>>
<1>1. project' = project
  BY DEF Next, Main, PchStep, Load, AskStale, ParseUmbrella, SavePch, StampPch, ScanArrives, EditDb,
         Restart, StartRun, StartPool, EndWalk, OpenManifest, DumpManifest, TakeResult, MergeRecord,
         Worker, TakeChunk, ReturnChunk, WorkerDies, vars, pchVars
<1>2. \A f : RecordsOf(f)' = RecordsOf(f)
  BY <1>1 DEF RecordsOf
<1>3. CASE UNCHANGED Flow
  BY <1>2, <1>3 DEF FlowInv
<1>4. CASE arrived' = <<>> /\ inbox' = <<>> /\ walked' = {}
  <2>1. \A S : <<>> \in Seq(S)
    OBVIOUS
  <2>2. ToSet(<<>>) = {}
    BY DEF ToSet
  <2>3. QED
    BY <1>4, <2>1, <2>2 DEF FlowInv
<1>5. CASE Restart
  BY <1>4, <1>5 DEF Restart
<1>6. CASE TakeResult
  <2> DEFINE r == Head(results)
  <2>1. /\ inbox = <<>> /\ r.file \in Chosen /\ arrived' = arrived
        /\ inbox' = IF r.ok THEN RecordsOf(r.file) ELSE <<>>
        /\ walked' = IF r.ok THEN walked \cup {r.file} ELSE walked
    <3> DEFINE Result == [file : Chosen, ok : BOOLEAN]
    <3> HIDE DEF Result
    <3>1. r \in Result
      BY <1>6, HeadTailProperties DEF TakeResult, PoolInv, Result
    <3>2. QED
      BY <1>6, <3>1 DEF TakeResult, Result
  <2> HIDE DEF r
  <2>2. CASE r.ok
    <3>1. r.file \in Files /\ RecordsOf(r.file) \in Seq(AllRecords)
      BY <2>1, ItemsAreFiles, RecordsAreListed
    <3>2. ToSet(inbox) = {}
      BY <2>1 DEF ToSet
    <3>3. ToSet(arrived) = UNION {ToSet(RecordsOf(f)) : f \in walked}
      BY <3>2 DEF FlowInv
    <3>4. ToSet(arrived) \cup ToSet(RecordsOf(r.file))
             = UNION {ToSet(RecordsOf(f)) : f \in walked \cup {r.file}}
      BY <3>3
    <3>5. QED
      BY <1>2, <2>1, <2>2, <3>1, <3>4 DEF FlowInv
  <2>3. CASE ~r.ok
    BY <1>3, <2>1, <2>3
  <2>4. QED
    BY <2>2, <2>3
<1>7. CASE MergeRecord
  <2>1. /\ inbox # <<>> /\ arrived' = Append(arrived, Head(inbox)) /\ inbox' = Tail(inbox)
        /\ walked' = walked
    BY <1>7 DEF MergeRecord
  <2>2. arrived \in Seq(AllRecords) /\ inbox \in Seq(AllRecords)
    BY DEF FlowInv
  <2>3. /\ arrived' \in Seq(AllRecords) /\ inbox' \in Seq(AllRecords)
        /\ ToSet(arrived') \cup ToSet(inbox') = ToSet(arrived) \cup ToSet(inbox)
    BY <2>1, <2>2, RecordMoves
  <2>4. UNION {ToSet(RecordsOf(f)) : f \in walked}' = UNION {ToSet(RecordsOf(f)) : f \in walked}
    BY <1>2, <2>1
  <2>5. QED
    BY <2>3, <2>4 DEF FlowInv
<1>8. CASE \/ (PchStep \/ EditDb) /\ UNCHANGED <<poolVars, mergeVars, manifest>>
           \/ StartPool \/ EndWalk \/ OpenManifest \/ DumpManifest
           \/ \E w \in Workers : Worker(w) \/ WorkerDies(w)
           \/ UNCHANGED vars
  BY <1>3, <1>8 DEF StartPool, EndWalk, OpenManifest, DumpManifest, Worker, TakeChunk, ReturnChunk,
                    WorkerDies, vars, mergeVars
<1>9. QED
  BY <1>5, <1>6, <1>7, <1>8 DEF Next, Main

(* Steps that start, or end, with nothing merged and nothing on its way.   *)
LEMMA NothingFlows ==
    ASSUME arrived = <<>>, inbox = <<>>, walked = {}
    PROVE  FlowInv
<1>1. \A S : <<>> \in Seq(S)
  OBVIOUS
<1>2. ToSet(<<>>) = {}
  BY DEF ToSet
<1>3. QED
  BY <1>1, <1>2 DEF FlowInv

-----------------------------------------------------------------------------
(* Which of the records that have arrived are kept: the p-th record of a   *)
(* section stands where its key came p-th, first[p] is the first record    *)
(* with that key, best[p] the one that is kept.                            *)
Picked(log, s, c, first, best) ==
    /\ first \in [1 .. Len(c) -> Offers(log, s)]
    /\ best \in [1 .. Len(c) -> Offers(log, s)]
    /\ \A p, q \in 1 .. Len(c) : p < q => first[p] < first[q]
    /\ \A p \in 1 .. Len(c) :
        OfferKey(log, first[p]) = Key(s, c[p]) /\ c[p] = log[best[p]].record
    /\ \A i \in Offers(log, s) : \E p \in 1 .. Len(c) :
        OfferKey(log, i) = Key(s, c[p]) /\ first[p] <= i /\ Outdoes(log, best[p], i)

KeptInv == \A s \in Sections : \E first, best : Picked(arrived, s, combined[s], first, best)

(* A log of records whose scores can be compared.                          *)
Offered(log) ==
    /\ Len(log) \in Nat /\ DOMAIN log = 1 .. Len(log)
    /\ \A i \in DOMAIN log : OfferScore(log, i) \in Int

(* What a record that arrives changes: it is one more offer, and what was  *)
(* offered before stands as it did.                                        *)
Grown(more, log, s, a) ==
    /\ Len(log) \in Nat
    /\ Offers(log, s) \subseteq 1 .. Len(log)
    /\ Offers(more, s) = Offers(log, s) \cup (IF a.section = s THEN {Len(log) + 1} ELSE {})
    /\ more[Len(log) + 1] = a
    /\ \A i \in Offers(log, s) :
        more[i] = log[i] /\ OfferKey(more, i) = OfferKey(log, i)
    /\ \A i, j \in Offers(log, s) : Outdoes(more, i, j) = Outdoes(log, i, j)
    /\ \A i \in Offers(more, s) :
        OfferScore(more, i) = Score(s, more[i].record) /\ OfferScore(more, i) \in Int

LEMMA LogGrows ==
    ASSUME NEW log, Offered(log), NEW a, NEW more, Appended(more, log, a), Offered(more), NEW s
    PROVE  Grown(more, log, s, a)
<1>1. /\ Len(log) \in Nat /\ Len(more) = Len(log) + 1 /\ more[Len(log) + 1] = a
      /\ DOMAIN log = 1 .. Len(log) /\ DOMAIN more = 1 .. Len(log) + 1
      /\ \A i \in DOMAIN log : more[i] = log[i]
  BY DEF Offered, Appended
<1>2. Offers(log, s) \subseteq 1 .. Len(log)
  BY <1>1 DEF Offers
<1>3. Offers(more, s) = Offers(log, s) \cup (IF a.section = s THEN {Len(log) + 1} ELSE {})
  <2>1. 1 .. Len(log) + 1 = (1 .. Len(log)) \cup {Len(log) + 1}
    BY <1>1
  <2>2. QED
    BY <1>1, <2>1 DEF Offers
<1>4. \A i \in Offers(log, s) : more[i] = log[i] /\ i \in DOMAIN more
  BY <1>1, <1>2
<1>5. \A i \in Offers(log, s) : OfferKey(more, i) = OfferKey(log, i)
                                /\ OfferScore(more, i) = OfferScore(log, i)
  BY <1>4 DEF OfferKey, OfferScore
<1>6. \A i, j \in Offers(log, s) : Outdoes(more, i, j) = Outdoes(log, i, j)
  BY <1>5 DEF Outdoes
<1>7. \A i \in Offers(more, s) :
        OfferScore(more, i) = Score(s, more[i].record) /\ OfferScore(more, i) \in Int
  BY DEF Offers, OfferScore, Offered
<1>8. QED
  BY <1>1, <1>2, <1>3, <1>4, <1>5, <1>6, <1>7 DEF Grown

(* A record of another section.                                            *)
LEMMA OtherKeepsPicked ==
    ASSUME NEW log, NEW more, NEW s, NEW a, Grown(more, log, s, a), a.section # s,
           NEW c, NEW first, NEW best, Picked(log, s, c, first, best)
    PROVE  Picked(more, s, c, first, best)
<1>1. Offers(more, s) = Offers(log, s)
  BY DEF Grown
<1>2. \A p \in 1 .. Len(c) : first[p] \in Offers(log, s) /\ best[p] \in Offers(log, s)
  BY DEF Picked
<1>3. QED
  BY <1>1, <1>2 DEF Picked, Grown

(* A record with a new key.                                                *)
LEMMA NewKeepsPicked ==
    ASSUME NEW log, NEW more, NEW s, NEW a, Grown(more, log, s, a), a.section = s,
           NEW c, NEW first, NEW best, Picked(log, s, c, first, best),
           NEW d, Appended(d, c, a.record)
    PROVE  \E first1, best1 : Picked(more, s, d, first1, best1)
<1> DEFINE m == Len(c)
           n == Len(log)
           first1 == [p \in 1 .. m + 1 |-> IF p = m + 1 THEN n + 1 ELSE first[p]]
           best1 == [p \in 1 .. m + 1 |-> IF p = m + 1 THEN n + 1 ELSE best[p]]
<1>1. /\ m \in Nat /\ n \in Nat /\ Len(d) = m + 1 /\ d[m + 1] = a.record
      /\ \A p \in 1 .. m : d[p] = c[p]
  BY DEF Appended, Grown
<1>2. Offers(more, s) = Offers(log, s) \cup {n + 1} /\ Offers(log, s) \subseteq 1 .. n
      /\ more[n + 1] = a
  BY DEF Grown
<1> HIDE DEF m, n
<1>3. \A p \in 1 .. m : /\ first[p] \in Offers(log, s) /\ best[p] \in Offers(log, s)
                        /\ first1[p] = first[p] /\ best1[p] = best[p]
  BY <1>1 DEF Picked, m
<1>4. first1[m + 1] = n + 1 /\ best1[m + 1] = n + 1
  BY <1>1
<1>5. first1 \in [1 .. m + 1 -> Offers(more, s)] /\ best1 \in [1 .. m + 1 -> Offers(more, s)]
  <2>1. \A p \in 1 .. m + 1 : p = m + 1 \/ p \in 1 .. m
    BY <1>1
  <2>2. \A p \in 1 .. m + 1 : first1[p] \in Offers(more, s) /\ best1[p] \in Offers(more, s)
    BY <1>2, <1>3, <1>4, <2>1
  <2>3. QED
    BY <2>2
<1> HIDE DEF first1, best1
<1>6. \A p, q \in 1 .. m + 1 : p < q => first1[p] < first1[q]
  <2> SUFFICES ASSUME NEW p \in 1 .. m + 1, NEW q \in 1 .. m + 1, p < q
               PROVE  first1[p] < first1[q]
    OBVIOUS
  <2>1. p \in 1 .. m
    BY <1>1
  <2>2. CASE q = m + 1
    BY <1>1, <1>2, <1>3, <1>4, <2>1, <2>2
  <2>3. CASE q \in 1 .. m
    BY <1>3, <2>1, <2>3 DEF Picked, m
  <2>4. QED
    BY <1>1, <2>2, <2>3
<1>7. ASSUME NEW p \in 1 .. m + 1
      PROVE  OfferKey(more, first1[p]) = Key(s, d[p]) /\ d[p] = more[best1[p]].record
  <2>1. CASE p = m + 1
    BY <1>1, <1>2, <1>4, <2>1 DEF OfferKey
  <2>2. CASE p \in 1 .. m
    <3>1. OfferKey(log, first[p]) = Key(s, c[p]) /\ c[p] = log[best[p]].record
      BY <2>2 DEF Picked, m
    <3>2. OfferKey(more, first[p]) = OfferKey(log, first[p]) /\ more[best[p]] = log[best[p]]
      BY <1>3, <2>2 DEF Grown
    <3>3. QED
      BY <1>1, <1>3, <2>2, <3>1, <3>2
  <2>3. QED
    BY <1>1, <2>1, <2>2
<1>8. ASSUME NEW i \in Offers(more, s)
      PROVE  \E p \in 1 .. m + 1 : /\ OfferKey(more, i) = Key(s, d[p]) /\ first1[p] <= i
                                   /\ Outdoes(more, best1[p], i)
  <2>1. CASE i = n + 1
    <3>1. OfferKey(more, i) = Key(s, d[m + 1]) /\ first1[m + 1] <= i
      BY <1>1, <1>2, <1>4, <2>1 DEF OfferKey
    <3>2. Outdoes(more, best1[m + 1], i)
      BY <1>1, <1>4, <2>1 DEF Outdoes
    <3>3. QED
      BY <1>1, <3>1, <3>2
  <2>2. CASE i \in Offers(log, s)
    <3>1. PICK p \in 1 .. m : OfferKey(log, i) = Key(s, c[p]) /\ first[p] <= i /\ Outdoes(log, best[p], i)
      BY <2>2 DEF Picked, m
    <3>2. OfferKey(more, i) = OfferKey(log, i) /\ Outdoes(more, best[p], i)
      BY <1>3, <2>2, <3>1 DEF Grown
    <3>3. p \in 1 .. m + 1
      BY <1>1
    <3>4. QED
      BY <1>1, <1>3, <3>1, <3>2, <3>3
  <2>3. QED
    BY <1>2, <2>1, <2>2
<1>9. Picked(more, s, d, first1, best1)
  BY <1>1, <1>5, <1>6, <1>7, <1>8 DEF Picked
<1>10. QED
  BY <1>9

(* d is c with r in the place p if that is better there.                   *)
Improved(d, c, s, p, r) ==
    /\ Score(s, r) > Score(s, c[p]) => Replaced(d, c, p, r)
    /\ ~(Score(s, r) > Score(s, c[p])) => d = c

(* A record with a known key, that of the p-th: it is kept in its place if *)
(* it is better.                                                           *)
LEMMA AgainKeepsPicked ==
    ASSUME NEW log, NEW more, NEW s, NEW a, Grown(more, log, s, a), a.section = s,
           NEW c, NEW first, NEW best, Picked(log, s, c, first, best),
           NEW p \in 1 .. Len(c), Key(s, c[p]) = Key(s, a.record),
           NEW d, Improved(d, c, s, p, a.record)
    PROVE  \E best1 : Picked(more, s, d, first, best1)
<1> DEFINE m == Len(c)
           n == Len(log)
           better == Score(s, a.record) > Score(s, c[p])
           best1 == [q \in 1 .. m |-> IF q = p /\ better THEN n + 1 ELSE best[q]]
<1>1. Offers(more, s) = Offers(log, s) \cup {n + 1} /\ Offers(log, s) \subseteq 1 .. n
      /\ more[n + 1] = a /\ n \in Nat
  BY DEF Grown
<1>2. \A q \in 1 .. m : /\ first[q] \in Offers(log, s) /\ best[q] \in Offers(log, s)
                        /\ OfferKey(log, first[q]) = Key(s, c[q]) /\ c[q] = log[best[q]].record
                        /\ more[best[q]] = log[best[q]]
                        /\ OfferKey(more, first[q]) = Key(s, c[q])
                        /\ OfferScore(more, best[q]) = Score(s, c[q])
  BY DEF Picked, Grown
<1>3. Len(d) = m /\ \A q \in 1 .. m : d[q] = IF q = p /\ better THEN a.record ELSE c[q]
  BY DEF Improved, Replaced
<1>4. OfferScore(more, n + 1) = Score(s, a.record) /\ OfferKey(more, n + 1) = Key(s, c[p])
  BY <1>1 DEF OfferScore, OfferKey
<1>5. \A i \in Offers(more, s) : OfferScore(more, i) \in Int /\ i \in Int
  BY <1>1 DEF Grown
<1>6. best1 \in [1 .. m -> Offers(more, s)] /\ first \in [1 .. m -> Offers(more, s)]
  BY <1>1, <1>2 DEF Picked
<1>7. \A q \in 1 .. m : Key(s, d[q]) = Key(s, c[q]) /\ d[q] = more[best1[q]].record
  BY <1>1, <1>2, <1>3
<1>8. \A q \in 1 .. m : \A i \in Offers(log, s) :
         Outdoes(log, best[q], i) => Outdoes(more, best1[q], i)
  <2> SUFFICES ASSUME NEW q \in 1 .. m, NEW i \in Offers(log, s), Outdoes(log, best[q], i)
               PROVE  Outdoes(more, best1[q], i)
    OBVIOUS
  <2>1. Outdoes(more, best[q], i)
    BY <1>2 DEF Grown
  <2>2. CASE q = p /\ better
    <3>1. OfferScore(more, n + 1) > OfferScore(more, best[q]) /\ best1[q] = n + 1
      BY <1>2, <1>4, <2>2
    <3>2. OfferScore(more, best[q]) >= OfferScore(more, i)
      BY <1>1, <1>2, <1>5, <2>1 DEF Outdoes
    <3>3. OfferScore(more, n + 1) > OfferScore(more, i)
      BY <1>1, <1>2, <1>5, <3>1, <3>2
    <3>4. QED
      BY <3>1, <3>3 DEF Outdoes
  <2>3. CASE ~(q = p /\ better)
    BY <2>1, <2>3
  <2>4. QED
    BY <2>2, <2>3
<1>9. Outdoes(more, best1[p], n + 1)
  <2>1. CASE better
    BY <1>1, <1>5, <2>1 DEF Outdoes
  <2>2. CASE ~better
    <3>1. best1[p] = best[p] /\ best[p] <= n + 1 /\ best[p] \in Offers(more, s)
      BY <1>1, <1>2, <2>2
    <3>2. ~(OfferScore(more, n + 1) > OfferScore(more, best[p]))
      BY <1>2, <1>4, <2>2
    <3>3. QED
      BY <1>1, <1>5, <3>1, <3>2 DEF Outdoes
  <2>3. QED
    BY <2>1, <2>2
<1> HIDE DEF best1
<1>10. ASSUME NEW i \in Offers(more, s)
       PROVE  \E q \in 1 .. m : /\ OfferKey(more, i) = Key(s, d[q]) /\ first[q] <= i
                                /\ Outdoes(more, best1[q], i)
  <2>1. CASE i = n + 1
    BY <1>1, <1>2, <1>4, <1>7, <1>9, <2>1
  <2>2. CASE i \in Offers(log, s)
    <3>1. PICK q \in 1 .. m : OfferKey(log, i) = Key(s, c[q]) /\ first[q] <= i /\ Outdoes(log, best[q], i)
      BY <2>2 DEF Picked
    <3>2. OfferKey(more, i) = OfferKey(log, i)
      BY <2>2 DEF Grown
    <3>3. QED
      BY <1>7, <1>8, <2>2, <3>1, <3>2
  <2>3. QED
    BY <1>1, <2>1, <2>2
<1>11. \A q, r \in 1 .. m : q < r => first[q] < first[r]
  BY DEF Picked
<1>12. Picked(more, s, d, first, best1)
  BY <1>2, <1>3, <1>6, <1>7, <1>10, <1>11 DEF Picked
<1>13. QED
  BY <1>12

(* The records that arrive have scores that can be compared.               *)
LEMMA LogsAreOffered ==
    ASSUME NEW log \in Seq(AllRecords)
    PROVE  Offered(log) /\ IsSeq(log) /\ \A i \in DOMAIN log : log[i].section \in Sections
<1>1. Len(log) \in Nat /\ DOMAIN log = 1 .. Len(log) /\ \A i \in DOMAIN log : log[i] \in AllRecords
  OBVIOUS
<1>2. \A a \in AllRecords : a.section \in Sections /\ Score(a.section, a.record) \in Int
  BY ScoresAreNumbers DEF AllRecords
<1>3. QED
  BY <1>1, <1>2 DEF Offered, OfferScore, IsSeq

LEMMA KeptInvStep ==
    ASSUME MergeInv, FlowInv, FlowInv', KeptInv, [Next]_vars
    PROVE  KeptInv'
<1>1. ASSUME UNCHANGED <<combined, arrived>>
      PROVE  KeptInv'
  BY <1>1 DEF KeptInv
<1>2. CASE MergeRecord
  <2> DEFINE a == Head(inbox)
  <2>1. arrived' = Append(arrived, a)
    BY <1>2 DEF MergeRecord
  <2>2. Offered(arrived) /\ Offered(arrived') /\ IsSeq(arrived)
    BY LogsAreOffered DEF FlowInv
  <2>3. Appended(arrived', arrived, a)
    BY <2>1, <2>2, AppendAppends
  <2>4. IF Key(a.section, a.record) \in DOMAIN seen_index[a.section]
        THEN MergeAgain(a.section, a.record) ELSE MergeNew(a.section, a.record)
    BY <1>2 DEF MergeRecord
  <2> HIDE DEF a
  <2>5. ASSUME NEW s \in Sections
        PROVE  \E first, best : Picked(arrived', s, combined'[s], first, best)
    <3>1. PICK first, best : Picked(arrived, s, combined[s], first, best)
      BY DEF KeptInv
    <3>2. Grown(arrived', arrived, s, a)
      BY <2>2, <2>3, LogGrows
    <3>3. CASE a.section # s
      <4>1. combined'[s] = combined[s]
        BY <2>4, <3>3 DEF MergeAgain, MergeNew, MergeInv
      <4>2. QED
        BY <3>1, <3>2, <3>3, <4>1, OtherKeepsPicked
    <3>4. CASE a.section = s /\ Key(s, a.record) \notin DOMAIN seen_index[s]
      <4>1. combined'[s] = Append(combined[s], a.record)
        BY <2>4, <3>4 DEF MergeNew, MergeInv
      <4>2. Appended(combined'[s], combined[s], a.record)
        BY <4>1, AppendAppends DEF MergeInv, Kept
      <4>3. QED
        BY <3>1, <3>2, <3>4, <4>2, NewKeepsPicked
    <3>5. CASE a.section = s /\ Key(s, a.record) \in DOMAIN seen_index[s]
      <4> DEFINE p == seen_index[s][Key(s, a.record)]
                 c == combined[s]
      <4>1. /\ p \in 1 .. Len(c) /\ Key(s, c[p]) = Key(s, a.record) /\ IsSeq(c)
            /\ richness_cache[s][p] = Score(s, c[p])
        BY <3>5 DEF MergeInv, Kept
      <4>2. combined' = IF Score(s, a.record) > richness_cache[s][p]
                        THEN [combined EXCEPT ![s][p] = a.record] ELSE combined
        BY <2>4, <3>5 DEF MergeAgain
      <4>3. combined'[s] = IF Score(s, a.record) > Score(s, c[p])
                           THEN [c EXCEPT ![p] = a.record] ELSE c
        BY <4>1, <4>2 DEF MergeInv
      <4>4. Picked(arrived, s, c, first, best)
        BY <3>1
      <4> HIDE DEF p, c
      <4>5. Improved(combined'[s], c, s, p, a.record)
        BY <4>1, <4>3, ExceptReplaces DEF Improved
      <4>6. \E best1 : Picked(arrived', s, combined'[s], first, best1)
        <5>1. a.section = s /\ p \in 1 .. Len(c) /\ Key(s, c[p]) = Key(s, a.record)
          BY <3>5, <4>1
        <5>2. QED
          BY <3>2, <4>4, <4>5, <5>1, AgainKeepsPicked
      <4>7. QED
        BY <4>6
    <3>6. QED
      BY <3>3, <3>4, <3>5
  <2>6. QED
    BY <2>5 DEF KeptInv
<1>3. CASE Restart
  <2>1. arrived' = <<>> /\ \A s \in Sections : combined'[s] = <<>>
    BY <1>3 DEF Restart, Empty
  <2>2. \A s : Picked(<<>>, s, <<>>, <<>>, <<>>)
    BY DEF Picked, Offers
  <2>3. QED
    BY <2>1, <2>2 DEF KeptInv
<1>4. CASE /\ PchStep \/ EditDb
           /\ UNCHANGED mergeVars
  BY <1>1, <1>4 DEF mergeVars
<1>5. CASE StartPool \/ EndWalk \/ OpenManifest \/ DumpManifest \/ TakeResult
  BY <1>1, <1>5 DEF StartPool, EndWalk, OpenManifest, DumpManifest, TakeResult, mergeVars
<1>6. ASSUME NEW w \in Workers, Worker(w) \/ WorkerDies(w)
      PROVE  KeptInv'
  BY <1>1, <1>6 DEF Worker, TakeChunk, ReturnChunk, WorkerDies, mergeVars
<1>7. CASE UNCHANGED vars
  BY <1>1, <1>7 DEF vars
<1>8. QED
  BY <1>2, <1>3, <1>4, <1>5, <1>6, <1>7 DEF Next, Main

(* What KeptIsBest says of one section.                                    *)
LEMMA PickedIsBest ==
    ASSUME NEW log, Offered(log), NEW s, NEW c, NEW scores, NEW index,
           Kept(s, c, scores, index), NEW first, NEW best, Picked(log, s, c, first, best)
    PROVE  /\ Len(c) = Cardinality(OfferedKeys(log, s))
           /\ \A k \in OfferedKeys(log, s) :
                /\ c[KeyPlace(log, s, k)] = log[BestOffer(log, s, k)].record
                /\ scores[KeyPlace(log, s, k)] = OfferScore(log, BestOffer(log, s, k))
                /\ index[k] = KeyPlace(log, s, k)
<1> DEFINE keys == OfferedKeys(log, s)
           m == Len(c)
           key == [p \in 1 .. m |-> Key(s, c[p])]
<1>1. /\ m \in Nat
      /\ \A p \in 1 .. m : scores[p] = Score(s, c[p]) /\ index[key[p]] = p
  BY DEF Kept, IsSeq
<1>2. \A p \in 1 .. m : /\ first[p] \in Offers(log, s) /\ best[p] \in Offers(log, s)
                        /\ OfferKey(log, first[p]) = key[p] /\ c[p] = log[best[p]].record
  BY DEF Picked
<1>3. \A i \in Offers(log, s) : \E p \in 1 .. m :
        OfferKey(log, i) = key[p] /\ first[p] <= i /\ Outdoes(log, best[p], i)
  BY DEF Picked
<1>4. \A p \in 1 .. m : /\ OfferKey(log, best[p]) = key[p]
                        /\ OfferScore(log, best[p]) = scores[p]
  BY <1>1, <1>2 DEF OfferKey, OfferScore, Offers
<1>5. \A p, q \in 1 .. m : p < q => first[p] < first[q]
  BY DEF Picked
<1> HIDE DEF m, key
<1>6. \A p, q \in 1 .. m : key[p] = key[q] => p = q
  BY <1>1
<1>7. keys = {key[p] : p \in 1 .. m}
  BY <1>2, <1>3 DEF OfferedKeys
<1> HIDE DEF keys
<1>8. \A i \in Offers(log, s) : i \in Int /\ OfferScore(log, i) \in Int
  BY DEF Offers, Offered
<1>9. ASSUME NEW p \in 1 .. m
      PROVE  FirstOffer(log, s, key[p]) = first[p] /\ BestOffer(log, s, key[p]) = best[p]
  <2> DEFINE S == OffersOf(log, s, key[p])
  <2>1. first[p] \in S /\ best[p] \in S /\ \A i \in S : i \in Offers(log, s)
    BY <1>2, <1>4 DEF OffersOf
  <2>2. \A i \in S : first[p] <= i /\ Outdoes(log, best[p], i)
    <3>1. ASSUME NEW i \in S PROVE first[p] <= i /\ Outdoes(log, best[p], i)
      <4>1. PICK q \in 1 .. m :
              OfferKey(log, i) = key[q] /\ first[q] <= i /\ Outdoes(log, best[q], i)
        BY <1>3, <2>1
      <4>2. key[q] = key[p]
        BY <4>1 DEF OffersOf
      <4>3. QED
        BY <1>6, <4>1, <4>2
    <3>2. QED
      BY <3>1
  <2> HIDE DEF S
  <2>3. \A i \in S : i \in Int /\ OfferScore(log, i) \in Int
    BY <1>8, <2>1
  <2>4. First(S) = first[p]
    <3>1. First(S) \in S /\ \A j \in S : First(S) <= j
      BY <2>1, <2>2 DEF First
    <3>2. QED
      BY <2>1, <2>2, <2>3, <3>1
  <2>5. \A i, j \in S : Outdoes(log, i, j) /\ Outdoes(log, j, i) => i = j
    BY <2>3 DEF Outdoes
  <2>6. (CHOOSE i \in S : \A j \in S : Outdoes(log, i, j)) = best[p]
    <3> DEFINE b == CHOOSE i \in S : \A j \in S : Outdoes(log, i, j)
    <3>1. b \in S /\ \A j \in S : Outdoes(log, b, j)
      BY <2>1, <2>2
    <3> HIDE DEF b
    <3>2. b = best[p]
      BY <2>1, <2>2, <2>5, <3>1
    <3>3. QED
      BY <3>2 DEF b
  <2>7. QED
    BY <2>4, <2>6 DEF FirstOffer, BestOffer, S
<1>10. m = Cardinality(keys)
  BY <1>1, <1>6, <1>7, ImagesCount
<1>11. ASSUME NEW p \in 1 .. m
       PROVE  p = KeyPlace(log, s, key[p])
  <2> DEFINE V == {l \in keys : FirstOffer(log, s, l) <= FirstOffer(log, s, key[p])}
  <2>1. \A q \in 1 .. m : first[q] \in Int
    BY <1>2, <1>8
  <2>2. \A q \in 1 .. m : first[q] <= first[p] <=> q <= p
    BY <1>1, <1>5, <2>1
  <2>3. 1 .. p \subseteq 1 .. m /\ p \in Nat
    BY <1>1
  <2>4. \A q \in 1 .. m : key[q] \in V <=> q <= p
    BY <1>7, <1>9, <2>2
  <2>5. V = {key[q] : q \in 1 .. p}
    <3>1. \A l \in V : \E q \in 1 .. p : l = key[q]
      <4> SUFFICES ASSUME NEW l \in V PROVE \E q \in 1 .. p : l = key[q]
        OBVIOUS
      <4>1. PICK q \in 1 .. m : l = key[q]
        BY <1>7
      <4>2. q <= p
        BY <2>4, <4>1
      <4>3. q \in 1 .. p
        BY <1>1, <4>2
      <4>4. QED
        BY <4>1, <4>3
    <3>2. \A q \in 1 .. p : key[q] \in V
      BY <2>3, <2>4
    <3> HIDE DEF V
    <3>3. QED
      BY <3>1, <3>2
  <2> HIDE DEF V
  <2>6. \A q, r \in 1 .. p : key[q] = key[r] => q = r
    BY <1>6, <2>3
  <2>7. Cardinality(V) = p
    BY <2>3, <2>5, <2>6, ImagesCount
  <2>8. QED
    BY <2>7 DEF V, KeyPlace, keys
<1>12. ASSUME NEW k \in keys
       PROVE  /\ c[KeyPlace(log, s, k)] = log[BestOffer(log, s, k)].record
              /\ scores[KeyPlace(log, s, k)] = OfferScore(log, BestOffer(log, s, k))
              /\ index[k] = KeyPlace(log, s, k)
  <2>1. PICK p \in 1 .. m : k = key[p]
    BY <1>7
  <2>2. /\ c[p] = log[BestOffer(log, s, k)].record
        /\ scores[p] = OfferScore(log, BestOffer(log, s, k)) /\ index[k] = p
    BY <1>1, <1>2, <1>4, <1>9, <2>1
  <2>3. p = KeyPlace(log, s, k)
    BY <1>11, <2>1
  <2>4. QED
    BY <2>2, <2>3
<1>13. QED
  BY <1>10, <1>12 DEF m, keys

(* FlowInv, KeptInv and what they rest on, in one.                         *)
Phase1Inv == ProjectInv /\ PoolInv /\ FlowInv /\ MergeInv /\ KeptInv

LEMMA Phase1InvHolds == Spec => []Phase1Inv
<1>1. Init => Phase1Inv
  <2> SUFFICES ASSUME Init PROVE Phase1Inv
    OBVIOUS
  <2>1. project \in Projects /\ 1 \in Contents
    BY HasContent DEF Init, PchInit
  <2>2. FileOrder \in Seq(Files)
    BY DEF Init, PchInit, FileOrder
  <2>3. ProjectInv
    BY <2>1, <2>2 DEF Init, PchInit, ProjectInv, Places
  <2>4. \A S : <<>> \in Seq(S)
    OBVIOUS
  <2>5. PoolInv
    BY <2>4 DEF Init, PchInit, PoolInv, Idle
  <2>6. FlowInv
    BY NothingFlows DEF Init
  <2>7. MergeInv
    BY EmptyIsKept DEF Init, MergeInv, Empty
  <2>8. arrived = <<>> /\ \A s \in Sections : combined[s] = <<>>
    BY DEF Init, Empty
  <2>9. \A s : Picked(<<>>, s, <<>>, <<>>, <<>>)
    BY DEF Picked, Offers
  <2>10. QED
    BY <2>3, <2>5, <2>6, <2>7, <2>8, <2>9 DEF Phase1Inv, KeptInv
<1>2. Phase1Inv /\ [Next]_vars => Phase1Inv'
  <2> SUFFICES ASSUME Phase1Inv, [Next]_vars PROVE Phase1Inv'
    OBVIOUS
  <2>1. ProjectInv' /\ PoolInv' /\ FlowInv' /\ MergeInv'
    BY ProjectInvStep, PoolInvStep, FlowInvStep, MergeInvStep DEF Phase1Inv
  <2>2. QED
    BY <2>1, KeptInvStep DEF Phase1Inv
<1>3. QED
  BY <1>1, <1>2, PTL DEF Spec

(* KeptIsBest holds of every pool, for records that come in any order and  *)
(* number: what the merge keeps is the first of the best                   *)
(* (extract.py:188-212).                                                   *)
THEOREM BestIsKept == Spec => []KeptIsBest
<1>1. Phase1Inv => KeptIsBest
  <2> SUFFICES ASSUME Phase1Inv, NEW s \in Sections
               PROVE  /\ Len(combined[s]) = Cardinality(OfferedKeys(arrived, s))
                      /\ \A k \in OfferedKeys(arrived, s) :
                        /\ combined[s][KeyPlace(arrived, s, k)]
                              = arrived[BestOffer(arrived, s, k)].record
                        /\ richness_cache[s][KeyPlace(arrived, s, k)]
                              = OfferScore(arrived, BestOffer(arrived, s, k))
                        /\ seen_index[s][k] = KeyPlace(arrived, s, k)
    BY DEF KeptIsBest
  <2>1. PICK first, best : Picked(arrived, s, combined[s], first, best)
    BY DEF Phase1Inv, KeptInv
  <2>2. Kept(s, combined[s], richness_cache[s], seen_index[s]) /\ Offered(arrived)
    BY LogsAreOffered DEF Phase1Inv, MergeInv, FlowInv
  <2>3. QED
    BY <2>1, <2>2, PickedIsBest
<1>2. QED
  BY <1>1, Phase1InvHolds, PTL

(* Where the records of a section come from: the cursors of its kind in    *)
(* the TUs that were walked.                                               *)
LEMMA MergedAreRecorded ==
    ASSUME Phase1Inv, NEW s \in Sections, NEW r \in ToSet(combined[s])
    PROVE  \E f \in walked : \E c : Recorded(project.tus[f], s, c) /\ r = RecordOf(c)
<1>1. PICK S : combined[s] \in Seq(S)
  BY DEF Phase1Inv, MergeInv, Kept, IsSeq
<1>2. PICK p \in 1 .. Len(combined[s]) : r = combined[s][p]
  BY <1>1 DEF ToSet
<1>3. PICK first, best : Picked(arrived, s, combined[s], first, best)
  BY DEF Phase1Inv, KeptInv
<1>4. PICK i \in Offers(arrived, s) : r = arrived[i].record
  BY <1>2, <1>3 DEF Picked
<1>5. arrived[i] \in ToSet(arrived) /\ arrived[i].section = s
  BY DEF Offers, ToSet
<1>6. PICK f \in walked : arrived[i] \in ToSet(RecordsOf(f))
  BY <1>5 DEF Phase1Inv, FlowInv
<1>7. f \in Files
  BY ItemsAreFiles DEF Phase1Inv, PoolInv
<1>8. project.tus[f] \in Trees /\ arrived[i] \in ToSet(WalkRecords(project.tus[f]))
  BY <1>6, <1>7, RecordsAreListed DEF Phase1Inv
<1>9. PICK s1 \in Sections : arrived[i] \in {[section |-> s1, record |-> r1] :
                                               r1 \in ToSet(Walked(project.tus[f], s1))}
  BY <1>8, WalkRecordsAreTagged
<1>10. r \in ToSet(Walked(project.tus[f], s))
  BY <1>4, <1>5, <1>9
<1>11. QED
  BY <1>8, <1>10, WalkedLists

(* NothingInvented holds of every project and every pool: a record in the  *)
(* manifest is that of a definition in a TU that was walked (walker.py:354 *)
(* to extract.py:203).                                                     *)
THEOREM NothingIsInvented == Spec => []NothingInvented
<1>1. Phase1Inv => NothingInvented
  <2> SUFFICES ASSUME Phase1Inv, NEW s \in Sections, NEW r \in ToSet(combined[s])
               PROVE  \E f \in walked : \E c \in ToSet(project.tus[f]) :
                        Defined(c) /\ Section(c) = s /\ KeyOf(c) = Key(s, r)
    BY DEF NothingInvented
  <2>1. PICK f \in walked : \E c : Recorded(project.tus[f], s, c) /\ r = RecordOf(c)
    BY MergedAreRecorded
  <2>2. PICK c : Recorded(project.tus[f], s, c) /\ r = RecordOf(c)
    BY <2>1
  <2>3. c \in ToSet(project.tus[f]) /\ Section(c) = s /\ Passes(c)
    BY <2>2 DEF Recorded
  <2>4. Key(s, r) = KeyOf(c)
    BY <2>2, <2>3, KeysAreNames
  <2>5. Section(c) # "none"
    BY <2>3 DEF Sections
  <2>6. Defined(c)
    BY <2>3, <2>5 DEF Passes, Defined
  <2>7. QED
    BY <2>3, <2>4, <2>6
<1>2. QED
  BY <1>1, Phase1InvHolds, PTL

(* The first cursor that is seen as the same as another has its key, but   *)
(* for enums.                                                              *)
LEMMA SeenHasKey ==
    ASSUME NEW tu \in Trees, NEW c \in ToSet(tu), NEW d \in ToSet(tu),
           Section(c) = Section(d), Section(c) \in {"structs", "functions", "typedefs"},
           Seen(c) = Seen(d)
    PROVE  KeyOf(c) = KeyOf(d)
<1> USE DEF RecordKinds, FunctionKinds
<1>1. CASE Section(c) = "structs"
  <2>1. c.kind \in RecordKinds /\ d.kind \in RecordKinds
    BY <1>1 DEF Section
  <2>2. c.usr = d.usr
    BY <2>1 DEF Seen
  <2>3. c.name = d.name
    BY <2>1, <2>2, CursorsAreTyped
  <2>4. QED
    BY <2>1, <2>3 DEF KeyOf
<1>2. CASE Section(c) = "functions"
  <2>1. c.kind \in FunctionKinds /\ d.kind \in FunctionKinds
    BY <1>2 DEF Section
  <2>2. QED
    BY <2>1 DEF Seen, KeyOf
<1>3. CASE Section(c) = "typedefs"
  <2>1. c.kind = "typedef" /\ d.kind = "typedef"
    BY <1>3 DEF Section
  <2>2. QED
    BY <2>1 DEF Seen, KeyOf
<1>4. QED
  BY <1>1, <1>2, <1>3

(* NothingDropped holds of every project and every pool, whichever of its  *)
(* processes die and whichever parses fail (walker.py:222 to               *)
(* extract.py:234).                                                        *)
THEOREM NothingIsDropped == Spec => []NothingDropped
<1>1. Phase1Inv => NothingDropped
  <2> SUFFICES ASSUME Phase1Inv, pc \in {"open", "dump", "done"}
               PROVE  /\ accounted = ToSet(Items)
                      /\ \A f \in walked : LET tu == project.tus[f] IN
                          \A i \in DOMAIN tu :
                            Defined(tu[i]) /\ Named(tu[i]) /\ ~HiddenEnum(tu, i) =>
                                \E r \in ToSet(combined[Section(tu[i])]) :
                                    Key(Section(tu[i]), r) = KeyOf(tu[i])
    BY DEF NothingDropped
  <2>1. accounted = Chosen /\ inbox = <<>>
    BY DEF Phase1Inv, PoolInv
  <2>2. ASSUME NEW f \in walked, NEW tu, tu = project.tus[f], NEW i \in DOMAIN tu,
               Defined(tu[i]), Named(tu[i]), ~HiddenEnum(tu, i)
        PROVE  \E r \in ToSet(combined[Section(tu[i])]) : Key(Section(tu[i]), r) = KeyOf(tu[i])
    <3> DEFINE s == Section(tu[i])
    <3>1. /\ f \in Files /\ tu \in Trees /\ RecordsOf(f) = WalkRecords(tu)
      <4>1. f \in Files
        BY ItemsAreFiles DEF Phase1Inv, PoolInv
      <4>2. QED
        BY <2>2, <4>1, RecordsAreListed DEF Phase1Inv
    <3>2. tu[i] \in ToSet(tu) /\ s \in Sections /\ Passes(tu[i])
      <4>1. s \in Sections
        BY <2>2 DEF Defined, Section, Sections
      <4>2. Passes(tu[i])
        BY <2>2 DEF Defined, Named, Passes
      <4>3. QED
        BY <4>1, <4>2 DEF ToSet
    <3> HIDE DEF s
    <3>3. PICK j \in DOMAIN tu : /\ j <= i /\ Recorded(tu, s, tu[j]) /\ Seen(tu[j]) = Seen(tu[i])
                                 /\ RecordOf(tu[j]) \in ToSet(Walked(tu, s))
      <4>1. Recorded(tu, s, tu[i])
        BY <3>2 DEF Recorded, s
      <4>2. QED
        BY <3>1, <4>1, WalkedLists
    <3>4. KeyOf(tu[j]) = KeyOf(tu[i])
      <4>1. CASE s = "enums"
        <5>1. tu[i].kind = "enum" /\ tu[j].kind = "enum"
          BY <3>3, <4>1 DEF Section, Recorded, s
        <5>2. tu[j].name = tu[i].name /\ Passes(tu[j])
          BY <3>3, <5>1 DEF Seen, Recorded, RecordKinds, FunctionKinds
        <5>3. ~(j \in 1 .. i - 1)
          BY <2>2, <5>1, <5>2 DEF HiddenEnum
        <5>4. i \in Nat /\ j \in Nat /\ j >= 1
          BY <3>1, CursorsAreTyped DEF IsList
        <5>5. j = i
          BY <3>3, <5>3, <5>4
        <5>6. QED
          BY <5>5
      <4>2. CASE s \in {"structs", "functions", "typedefs"}
        BY <3>1, <3>2, <3>3, <4>2, SeenHasKey DEF Recorded, s
      <4>3. QED
        BY <3>2, <4>1, <4>2 DEF Sections
    <3> DEFINE a == [section |-> s, record |-> RecordOf(tu[j])]
    <3>5. a \in ToSet(arrived)
      <4>1. a \in ToSet(WalkRecords(tu))
        BY <3>1, <3>2, <3>3, WalkRecordsAreTagged
      <4>2. ToSet(inbox) = {}
        BY <2>1 DEF ToSet
      <4>3. QED
        BY <2>2, <3>1, <4>1, <4>2 DEF Phase1Inv, FlowInv
    <3>6. PICK k \in DOMAIN arrived : arrived[k] = a
      BY <3>5 DEF ToSet
    <3>7. k \in Offers(arrived, s) /\ OfferKey(arrived, k) = Key(s, RecordOf(tu[j]))
      BY <3>6 DEF Offers, OfferKey
    <3>8. PICK p \in 1 .. Len(combined[s]) : OfferKey(arrived, k) = Key(s, combined[s][p])
      BY <3>2, <3>7 DEF Phase1Inv, KeptInv, Picked
    <3>9. combined[s][p] \in ToSet(combined[s])
      <4>1. PICK S : combined[s] \in Seq(S)
        BY <3>2 DEF Phase1Inv, MergeInv, Kept, IsSeq
      <4>2. QED
        BY <4>1 DEF ToSet
    <3>10. Key(s, RecordOf(tu[j])) = KeyOf(tu[i])
      BY <3>2, <3>3, <3>4, KeysAreNames DEF Recorded
    <3>11. QED
      BY <3>7, <3>8, <3>9, <3>10 DEF s
  <2>3. QED
    BY <2>1, <2>2 DEF Chosen
<1>2. QED
  BY <1>1, Phase1InvHolds, PTL

(* TypeOK of Phase1Properties, which run phase1 checks: what the process   *)
(* has read and what it has merged.                                        *)
THEOREM Phase1Types == Spec => []TypeOK
<1> DEFINE Told == manifest \in {"none", "torn", "whole"}
<1>1. Phase1Inv /\ Told => TypeOK
  <2> SUFFICES ASSUME Phase1Inv, Told
               PROVE  TypeOK
    OBVIOUS
  <2>1. pc \in Places /\ {cdb, read} \subseteq DOMAIN project.dbs
        /\ {pch, stamp, pch_path} \subseteq DOMAIN project.dbs \cup {NoPch}
    BY DEF Phase1Inv, ProjectInv, Contents
  <2>2. scanned \cup unscanned \cup accounted \subseteq ToSet(FileOrder) /\ walked \subseteq accounted
    BY ItemsAreFiles DEF Phase1Inv, ProjectInv, PoolInv
  <2>3. ASSUME NEW s \in Sections
        PROVE  /\ Len(combined[s]) = Len(richness_cache[s])
               /\ seen_index[s] \in [DOMAIN seen_index[s] -> DOMAIN combined[s]]
    <3>1. Kept(s, combined[s], richness_cache[s], seen_index[s])
      BY DEF Phase1Inv, MergeInv
    <3>2. DOMAIN combined[s] = 1 .. Len(combined[s])
      BY <3>1 DEF Kept, IsSeq
    <3>3. QED
      BY <3>1, <3>2 DEF Kept
  <2>4. QED
    BY <2>1, <2>2, <2>3 DEF TypeOK
<1>2. Init => Told
  BY DEF Init
<1>3. Told /\ [Next]_vars => Told'
  BY DEF Next, Main, StartPool, TakeResult, MergeRecord, EndWalk, OpenManifest, DumpManifest,
         Restart, Worker, TakeChunk, ReturnChunk, WorkerDies, vars
<1> HIDE DEF Told
<1>4. QED
  BY <1>1, <1>2, <1>3, Phase1InvHolds, PTL DEF Spec

-----------------------------------------------------------------------------
(* The order of the headers.  That g comes before every h is kept by a     *)
(* selection that takes a g before every h that it takes.                  *)
LEMMA SelectionKeepsBefore ==
    ASSUME NEW S, NEW s \in Seq(S), NEW g, NEW h,
           NEW K \in SUBSET DOMAIN s,
           \A j \in K : s[j] = h => \E i \in K : s[i] = g /\ i < j
    PROVE  Before(Selection(s, K), g, h)
<1> DEFINE T == Selection(s, K)
           n == Cardinality(K)
<1>1. DOMAIN T = 1 .. n /\ n \in Nat /\ \E pick : GoesThrough(pick, s, K)
  BY SelectionFollows, IndicesAreFinite
<1>2. PICK pick \in [1 .. n -> K] :
        /\ \A k \in 1 .. n : T[k] = s[pick[k]]
        /\ \A k, l \in 1 .. n : k < l => pick[k] < pick[l]
        /\ \A i \in K : \E k \in 1 .. n : pick[k] = i
  BY <1>1 DEF GoesThrough
<1> HIDE DEF T, n
<1>3. ASSUME NEW l \in 1 .. n, T[l] = h
      PROVE  \E k \in 1 .. n : k < l /\ T[k] = g
  <2>1. pick[l] \in K /\ s[pick[l]] = h
    BY <1>2, <1>3
  <2>2. PICK i \in K : s[i] = g /\ i < pick[l]
    BY <2>1
  <2>3. PICK k \in 1 .. n : pick[k] = i
    BY <1>2
  <2>4. \A x \in K : x \in Int
    OBVIOUS
  <2>5. k < l
    <3>1. ~(l < k) /\ l # k
      BY <1>2, <2>1, <2>2, <2>3, <2>4
    <3>2. QED
      BY <1>1, <3>1
  <2>6. QED
    BY <1>2, <2>2, <2>3, <2>5
<1>4. QED
  BY <1>1, <1>3 DEF Before, T

(* Headers that are added behave as those that are there.                  *)
LEMMA AddKeepsBefore ==
    ASSUME NEW s, IsSeq(s), NEW headers, IsList(headers), NEW g, NEW h,
           Before(s, g, h), Before(headers, g, h)
    PROVE  Before(AddHeaders(s, headers), g, h)
<1> DEFINE K == {i \in Firsts(headers) : headers[i] \notin ToSet(s)}
           new == Selection(headers, K)
           t == s \o new
           n == Len(s)
<1>1. headers \in Seq(ToSet(headers)) /\ K \in SUBSET DOMAIN headers
  BY DEF IsList, ToSet, Firsts
<1>2. /\ new \in Seq(ToSet(headers))
      /\ \A k \in DOMAIN new : \E i \in K : new[k] = headers[i]
  BY <1>1, SelectionSelects, SelectionElements
<1>3. PICK S : s \in Seq(S)
  BY DEF IsSeq
<1> HIDE DEF new
<1>4. /\ n \in Nat /\ DOMAIN s = 1 .. n /\ Len(new) \in Nat /\ DOMAIN new = 1 .. Len(new)
      /\ DOMAIN t = 1 .. n + Len(new)
      /\ \A i \in 1 .. n : t[i] = s[i]
      /\ \A i \in 1 .. Len(new) : t[n + i] = new[i]
  <2>1. s \in Seq(S \cup ToSet(headers)) /\ new \in Seq(S \cup ToSet(headers))
    BY <1>2, <1>3
  <2>2. QED
    BY <2>1
<1> HIDE DEF t, n
<1>5. ASSUME NEW j \in DOMAIN t, t[j] = h
      PROVE  \E i \in DOMAIN t : i < j /\ t[i] = g
  <2>1. CASE j \in 1 .. n
    <3>1. PICK i \in 1 .. n : i < j /\ s[i] = g
      BY <1>4, <1>5, <2>1 DEF Before
    <3>2. QED
      BY <1>4, <3>1
  <2>2. CASE j \notin 1 .. n
    <3> DEFINE k == j - n
    <3>1. k \in 1 .. Len(new) /\ j = n + k
      BY <1>4, <2>2
    <3>2. new[k] = h
      BY <1>4, <1>5, <3>1
    <3> HIDE DEF k
    <3>3. CASE g \in ToSet(s)
      <4>1. PICK i \in 1 .. n : s[i] = g
        BY <1>4, <3>3 DEF ToSet
      <4>2. QED
        BY <1>4, <3>1, <4>1
    <3>4. CASE g \notin ToSet(s)
      <4>1. ASSUME NEW l \in K, headers[l] = h
            PROVE  \E i \in K : headers[i] = g /\ i < l
        <5>1. PICK i \in DOMAIN headers : i < l /\ headers[i] = g
          BY <1>1, <4>1 DEF Before
        <5>2. PICK f \in Firsts(headers) : headers[f] = g /\ f <= i
          BY <1>1, <5>1, FirstsCoverAll
        <5>3. \A x \in DOMAIN headers : x \in Int
          BY <1>1
        <5>4. f \in K /\ f < l
          BY <1>1, <3>4, <5>1, <5>2, <5>3 DEF Firsts
        <5>5. QED
          BY <5>2, <5>4
      <4>2. Before(new, g, h)
        BY <1>1, <4>1, SelectionKeepsBefore DEF new
      <4>3. PICK i \in 1 .. Len(new) : i < k /\ new[i] = g
        BY <1>4, <3>1, <3>2, <4>2 DEF Before
      <4>4. n + i \in DOMAIN t /\ n + i < j /\ t[n + i] = g
        BY <1>4, <3>1, <4>3
      <4>5. QED
        BY <4>4
    <3>5. QED
      BY <3>3, <3>4
  <2>3. QED
    BY <2>1, <2>2
<1>6. QED
  BY <1>5 DEF Before, AddHeaders, t, new

HeadersInv ==
    /\ IsSeq(order)
    /\ \A g, h : (\A file \in scanned : Before(ScanResult(file), g, h)) => Before(order, g, h)

LEMMA HeadersInvStep ==
    ASSUME ProjectInv, HeadersInv, [Next]_vars
    PROVE  HeadersInv'
<1>1. ASSUME UNCHANGED <<project, scanned, order>>
      PROVE  HeadersInv'
  BY <1>1 DEF HeadersInv, ScanResult
<1>2. ASSUME NEW file \in unscanned, ScanArrives(file)
      PROVE  HeadersInv'
  <2>1. CASE UNCHANGED <<order, scanned>>
    BY <1>1, <1>2, <2>1 DEF ScanArrives
  <2>2. CASE order' = AddHeaders(order, ScanResult(file)) /\ scanned' = scanned \cup {file}
    <3> DEFINE headers == ScanResult(file)
               K == {i \in Firsts(headers) : headers[i] \notin ToSet(order)}
    <3>1. IsList(headers)
      <4>1. file \in Files
        BY <1>2 DEF ProjectInv, ToSet
      <4>2. QED
        BY <4>1, ProjectsAreWhole DEF ProjectInv, Files, ScanResult
    <3>2. IsSeq(order')
      <4>1. PICK S : order \in Seq(S)
        BY DEF HeadersInv, IsSeq
      <4>2. Selection(headers, K) \in Seq(ToSet(headers))
        BY <3>1, SelectionSelects DEF IsList, ToSet, Firsts
      <4>3. order' = order \o Selection(headers, K)
        BY <2>2 DEF AddHeaders
      <4>4. order' \in Seq(S \cup ToSet(headers))
        <5> DEFINE new == Selection(headers, K)
        <5> HIDE DEF new
        <5>1. order \in Seq(S \cup ToSet(headers)) /\ new \in Seq(S \cup ToSet(headers))
          BY <4>1, <4>2 DEF new
        <5>2. QED
          BY <4>3, <5>1 DEF new
      <4>5. QED
        BY <4>4 DEF IsSeq
    <3>3. \A f : ScanResult(f)' = ScanResult(f)
      BY <1>2 DEF ScanArrives, ScanResult
    <3>4. ASSUME NEW g, NEW h, \A f \in scanned' : Before(ScanResult(f), g, h)
          PROVE  Before(order', g, h)
      <4>1. Before(order, g, h) /\ Before(headers, g, h)
        BY <2>2, <3>4 DEF HeadersInv
      <4>2. IsSeq(order)
        BY DEF HeadersInv
      <4> HIDE DEF headers
      <4>3. Before(AddHeaders(order, headers), g, h)
        BY <3>1, <4>1, <4>2, AddKeepsBefore
      <4>4. QED
        BY <2>2, <4>3 DEF headers
    <3>5. QED
      BY <3>2, <3>3, <3>4 DEF HeadersInv
  <2>3. QED
    BY <1>2, <2>1, <2>2 DEF ScanArrives
<1>3. CASE Restart
  <2>1. order' = <<>> /\ scanned' = {}
    BY <1>3 DEF Restart, StartRun, ForgetBuild
  <2>2. IsSeq(<<>>) /\ \A g, h : Before(<<>>, g, h)
    <3>1. <<>> \in Seq({}) /\ DOMAIN <<>> = {}
      OBVIOUS
    <3>2. QED
      BY <3>1 DEF IsSeq, Before
  <2>3. QED
    BY <2>1, <2>2 DEF HeadersInv
<1>4. CASE Load \/ AskStale \/ ParseUmbrella \/ SavePch \/ StampPch \/ EditDb
  BY <1>1, <1>4 DEF Load, AskStale, ParseUmbrella, SavePch, StampPch, EditDb, scanVars
<1>5. CASE StartPool \/ EndWalk \/ OpenManifest \/ DumpManifest \/ TakeResult \/ MergeRecord
  BY <1>1, <1>5 DEF StartPool, EndWalk, OpenManifest, DumpManifest, TakeResult, MergeRecord,
                    scanVars, pchVars
<1>6. ASSUME NEW w \in Workers, Worker(w) \/ WorkerDies(w)
      PROVE  HeadersInv'
  BY <1>1, <1>6 DEF Worker, TakeChunk, ReturnChunk, WorkerDies, pchVars
<1>7. CASE UNCHANGED vars
  BY <1>1, <1>7 DEF vars, pchVars
<1>8. QED
  BY <1>2, <1>3, <1>4, <1>5, <1>6, <1>7 DEF Next, Main, PchStep

(* UmbrellaOrder holds of every project, whichever scans fail and in       *)
(* whichever order they come back (_extract_include_order, pch.py:75).     *)
THEOREM HeadersKeepTheirOrder == Spec => []UmbrellaOrder
<1>1. Init => HeadersInv
  <2>1. <<>> \in Seq({}) /\ DOMAIN <<>> = {}
    OBVIOUS
  <2>2. QED
    BY <2>1 DEF Init, PchInit, HeadersInv, IsSeq, Before
<1>2. HeadersInv => UmbrellaOrder
  <2> SUFFICES ASSUME HeadersInv, NEW g \in ToSet(Filtered), NEW h \in ToSet(Filtered),
                      \A file \in scanned : Before(ScanResult(file), g, h)
               PROVE  Before(Filtered, g, h)
    BY DEF UmbrellaOrder
  <2> DEFINE K == {i \in DOMAIN order : order[i] \notin project.hidden}
  <2>1. PICK S : order \in Seq(S)
    BY DEF HeadersInv, IsSeq
  <2>2. Filtered = Selection(order, K) /\ K \in SUBSET DOMAIN order
    BY DEF Filtered
  <2>3. g \notin project.hidden
    <3>1. PICK i \in K : g = order[i]
      BY <2>1, <2>2, SelectionElements DEF ToSet
    <3>2. QED
      BY <3>1
  <2>4. \A j \in K : order[j] = h => \E i \in K : order[i] = g /\ i < j
    BY <2>3 DEF HeadersInv, Before
  <2>5. QED
    BY <2>1, <2>2, <2>4, SelectionKeepsBefore
<1>3. QED
  BY <1>1, <1>2, HeadersInvStep, ProjectInvHolds, PTL DEF Spec


-----------------------------------------------------------------------------
(* Scans of a command line                                                 *)

(* The states of a scan, before the first token and after each.            *)
ScanRun(r, step) ==
    /\ r[0] = [out |-> <<>>, next |-> 1]
    /\ \A i \in 1 .. Len(step) : r[i] = ScanOne(r[i - 1], i, step)
    /\ Scan(step) = r[Len(step)].out
Steps(S) == [out : Seq(S), used : Nat]

LEMMA ScanRuns ==
    ASSUME NEW S, NEW step \in Seq(Steps(S))
    PROVE  \E r : ScanRun(r, step) /\ \A i \in 0 .. Len(step) : r[i] \in [out : Seq(S), next : Nat]
<1> DEFINE n == Len(step)
           A == [out : Seq(S), next : Nat]
           a == [out |-> <<>>, next |-> 1]
           Body(f) == [i \in 0 .. n |-> IF i = 0 THEN a ELSE ScanOne(f[i - 1], i, step)]
           h == CHOOSE x : x = Body(x)
           H == [i \in 1 .. n |-> [s \in A |-> ScanOne(s, i, step)]]
<1>1. n \in Nat /\ \A i \in 1 .. n : step[i] \in Steps(S)
  OBVIOUS
<1>2. Scan(step) = h[n].out
  BY DEF Scan
<1>3. a \in A /\ a.out = <<>> /\ a.next = 1
  OBVIOUS
<1>4. \A i \in 1 .. n : \A s \in A : ScanOne(s, i, step) \in A
  <2> SUFFICES ASSUME NEW i \in 1 .. n, NEW s \in A PROVE ScanOne(s, i, step) \in A
    OBVIOUS
  <2>1. s.out \in Seq(S) /\ step[i].out \in Seq(S) /\ step[i].used \in Nat /\ i \in Nat
    BY <1>1 DEF Steps
  <2>2. s.out \o step[i].out \in Seq(S) /\ i + step[i].used \in Nat
    BY <2>1
  <2>3. QED
    BY <2>2 DEF ScanOne
<1> HIDE DEF n, A, a
<1>5. H \in [1 .. n -> [A -> A]] /\ \A i \in 1 .. n : \A s \in A : H[i][s] = ScanOne(s, i, step)
  BY <1>4
<1> HIDE DEF H
<1>6. PICK f : IsRun(f, A, a, n, H)
  BY <1>1, <1>3, <1>5, Iterates
<1>7. f = Body(f)
  <2>1. ASSUME NEW i \in 0 .. n, i # 0 PROVE f[i] = ScanOne(f[i - 1], i, step)
    <3>1. i \in 1 .. n /\ i - 1 \in 0 .. n
      BY <1>1, <2>1
    <3>2. QED
      BY <1>5, <1>6, <3>1 DEF IsRun
  <2>2. f \in [0 .. n -> A] /\ f[0] = a
    BY <1>6 DEF IsRun
  <2>3. QED
    BY <2>1, <2>2
<1>8. h = Body(h)
  BY <1>7
<1>9. h[0] = a /\ \A i \in 1 .. n : h[i] = ScanOne(h[i - 1], i, step)
  <2> HIDE DEF h
  <2>1. QED
    BY <1>1, <1>8
<1> HIDE DEF h
<1>10. \A i \in 0 .. n : h[i] \in A
  BY <1>1, <1>3, <1>4, <1>9, RunStays
<1>11. ScanRun(h, step)
  BY <1>2, <1>9 DEF ScanRun, n, a
<1>12. QED
  BY <1>10, <1>11 DEF n, A

LEMMA ScanOneGives ==
    ASSUME NEW acc, NEW i, NEW step, ~(i < acc.next)
    PROVE  ScanOne(acc, i, step).out = acc.out \o step[i].out
           /\ ScanOne(acc, i, step).next = i + step[i].used
<1> DEFINE out == acc.out \o step[i].out
           next == i + step[i].used
<1>1. ScanOne(acc, i, step) = [out |-> out, next |-> next]
  BY DEF ScanOne
<1> HIDE DEF out, next
<1>2. ScanOne(acc, i, step).out = out /\ ScanOne(acc, i, step).next = next
  BY <1>1
<1>3. QED
  BY <1>2 DEF out, next

(* What is put out comes from some step.                                   *)
LEMMA ScanElements ==
    ASSUME NEW S, NEW step \in Seq(Steps(S))
    PROVE  Scan(step) \in Seq(S) /\ \A x \in ToSet(Scan(step)) : \E i \in DOMAIN step : x \in ToSet(step[i].out)
<1> DEFINE n == Len(step)
           X == UNION {ToSet(step[i].out) : i \in 1 .. n}
<1>1. n \in Nat /\ DOMAIN step = 1 .. n
  OBVIOUS
<1>2. PICK r : ScanRun(r, step) /\ \A i \in 0 .. n : r[i] \in [out : Seq(S), next : Nat]
  BY ScanRuns
<1>3. \A i \in 1 .. n : step[i].out \in Seq(S)
  <2>1. \A i \in 1 .. n : step[i] \in Steps(S)
    OBVIOUS
  <2>2. QED
    BY <2>1 DEF Steps
<1> HIDE DEF n, X
<1> DEFINE P == {i \in 0 .. n : ToSet(r[i].out) \subseteq X}
<1>4. 0 \in P
  <2>1. r[0].out = <<>>
    BY <1>2 DEF ScanRun
  <2>2. ToSet(<<>>) = {}
    BY DEF ToSet
  <2>3. QED
    BY <1>1, <2>1, <2>2
<1>5. ASSUME NEW i \in 0 .. n - 1, i \in P PROVE i + 1 \in P
  <2> DEFINE k == i + 1
  <2>1. k \in 1 .. n /\ k \in 0 .. n /\ k - 1 = i /\ i \in 0 .. n
    BY <1>1
  <2> HIDE DEF k
  <2>2. r[k] = ScanOne(r[i], k, step)
    BY <1>2, <2>1 DEF ScanRun, n
  <2>3. r[i].out \in Seq(S) /\ step[k].out \in Seq(S)
    BY <1>2, <1>3, <2>1
  <2>4. r[k].out = r[i].out \/ r[k].out = r[i].out \o step[k].out
    <3>1. CASE k < r[i].next
      BY <2>2, <3>1 DEF ScanOne
    <3>2. CASE ~(k < r[i].next)
      <4>1. ScanOne(r[i], k, step).out = r[i].out \o step[k].out
        BY <3>2, ScanOneGives, Zenon
      <4>2. QED
        BY <2>2, <4>1
    <3>3. QED
      BY <3>1, <3>2
  <2>5. ToSet(r[i].out \o step[k].out) = ToSet(r[i].out) \cup ToSet(step[k].out)
    BY <2>3, ConcatElements
  <2>6. ToSet(step[k].out) \subseteq X
    BY <2>1 DEF X
  <2>7. ToSet(r[k].out) \subseteq X
    BY <1>5, <2>4, <2>5, <2>6
  <2>8. QED
    BY <2>1, <2>7 DEF k
<1>6. P = 0 .. n
  <2>1. P \in SUBSET (0 .. n)
    OBVIOUS
  <2> HIDE DEF P
  <2>2. QED
    BY <1>1, <1>4, <1>5, <2>1, UpTo
<1>7. n \in P /\ n \in 0 .. n
  BY <1>1, <1>6
<1>8. Scan(step) = r[n].out
  BY <1>2 DEF ScanRun, n
<1>9. QED
  BY <1>1, <1>2, <1>7, <1>8 DEF X

(* Where no token that is accounted for by the one before it accounts for  *)
(* another, what a step adds depends on the step before it alone.          *)
Local(step) ==
    \A i \in DOMAIN step :
        /\ step[i].used \in {1, 2}
        /\ i + 1 \in DOMAIN step /\ step[i].used = 2 => step[i + 1].used = 1
Added(step, i) ==
    IF i - 1 \in DOMAIN step /\ step[i - 1].used = 2 THEN <<>> ELSE step[i].out
AllAdded(step) == [i \in DOMAIN step |-> Added(step, i)]

LEMMA LocalScan ==
    ASSUME NEW S, NEW step \in Seq(Steps(S)), Local(step)
    PROVE  /\ AllAdded(step) \in Seq(Seq(S)) /\ Len(AllAdded(step)) = Len(step)
           /\ Scan(step) = FlattenSeq(AllAdded(step))
<1> DEFINE n == Len(step)
           seqs == AllAdded(step)
<1>1. n \in Nat /\ DOMAIN step = 1 .. n /\ \A i \in 1 .. n : step[i].out \in Seq(S)
  <2>1. n \in Nat /\ DOMAIN step = 1 .. n /\ \A i \in 1 .. n : step[i] \in Steps(S)
    OBVIOUS
  <2>2. QED
    BY <2>1 DEF Steps
<1>2. DOMAIN seqs = 1 .. n /\ \A i \in 1 .. n : seqs[i] = Added(step, i)
  BY <1>1 DEF AllAdded
<1>3. \A i \in 1 .. n : seqs[i] \in Seq(S)
  <2>1. <<>> \in Seq(S)
    OBVIOUS
  <2>2. QED
    BY <1>1, <1>2, <2>1 DEF Added
<1>4. seqs = [i \in 1 .. n |-> seqs[i]]
  BY <1>1 DEF AllAdded
<1>5. PICK r : ScanRun(r, step) /\ \A i \in 0 .. n : r[i] \in [out : Seq(S), next : Nat]
  BY ScanRuns
<1> HIDE DEF n, seqs
<1>6. seqs \in Seq(Seq(S)) /\ Len(seqs) = n
  BY <1>1, <1>3, <1>4
<1>7. r[0].out = <<>> /\ r[0].next = 1 /\ Scan(step) = r[n].out
      /\ \A i \in 1 .. n : r[i] = ScanOne(r[i - 1], i, step)
  BY <1>5 DEF ScanRun, n
<1>8. ASSUME n = 0 PROVE Scan(step) = FlattenSeq(seqs)
  <2>1. FlattenSeq(seqs) = seqs
    BY <1>6, <1>8 DEF FlattenSeq
  <2>2. seqs = <<>>
    BY <1>6, <1>8
  <2>3. QED
    BY <1>7, <1>8, <2>1, <2>2
<1>9. ASSUME n # 0 PROVE Scan(step) = FlattenSeq(seqs)
  <2>1. PICK h : PutTogether(h, seqs) /\ \A i \in 1 .. n : h[i] \in Seq(S)
    BY <1>6, <1>9, FlattenRuns
  <2>2. h[1] = seqs[1] /\ (\A i \in 1 .. n : i # 1 => h[i] = h[i - 1] \o seqs[i])
        /\ FlattenSeq(seqs) = h[n]
    BY <1>6, <2>1 DEF PutTogether
  <2> DEFINE m == n - 1
             P == {i \in 0 .. m : r[i + 1].out = h[i + 1] /\ r[i + 1].next = i + 1 + step[i + 1].used}
  <2>3. m \in Nat /\ n = m + 1 /\ 1 \in 1 .. n
    BY <1>1, <1>9
  <2> HIDE DEF m
  <2>4. 0 \in P
    <3>1. ~(1 - 1 \in DOMAIN step)
      BY <1>1
    <3>2. seqs[1] = step[1].out
      BY <1>2, <2>3, <3>1 DEF Added
    <3>3. r[1] = ScanOne(r[0], 1, step)
      BY <1>7, <2>3
    <3>4. r[1].out = <<>> \o step[1].out /\ r[1].next = 1 + step[1].used
      BY <1>7, <3>3 DEF ScanOne
    <3>5. <<>> \o step[1].out = step[1].out
      BY <1>1, <2>3
    <3>6. QED
      BY <2>2, <2>3, <3>2, <3>4, <3>5
  <2>5. ASSUME NEW i \in 0 .. m - 1, i \in P PROVE i + 1 \in P
    <3> DEFINE j == i + 1
               k == i + 2
    <3>1. /\ j \in 1 .. n /\ k \in 1 .. n /\ k # 1 /\ k - 1 = j /\ j + 1 = k /\ j \in 0 .. m
          /\ j \in 0 .. n
      BY <2>3
    <3>2. r[j].out = h[j] /\ r[j].next = j + step[j].used
      BY <2>5
    <3> HIDE DEF j, k, P
    <3>3. r[k] = ScanOne(r[j], k, step) /\ h[k] = h[j] \o seqs[k]
      BY <1>7, <2>2, <3>1
    <3>4. step[j].used \in {1, 2} /\ step[k].used \in {1, 2} /\ (step[j].used = 2 => step[k].used = 1)
      BY <1>1, <3>1 DEF Local
    <3>5. CASE step[j].used = 2
      <4>1. seqs[k] = <<>>
        BY <1>1, <1>2, <3>1, <3>5 DEF Added
      <4>2. h[k] = h[j]
        BY <2>1, <3>1, <3>3, <4>1
      <4>3. k < r[j].next /\ r[j].next = k + step[k].used
        BY <3>1, <3>2, <3>4, <3>5
      <4>4. r[k] = r[j]
        BY <3>3, <4>3 DEF ScanOne
      <4>5. r[k].out = h[k] /\ r[k].next = k + step[k].used
        BY <3>2, <4>2, <4>3, <4>4
      <4>6. QED
        BY <3>1, <4>5 DEF P, j, k
    <3>6. CASE step[j].used # 2
      <4>1. seqs[k] = step[k].out
        BY <1>2, <3>1, <3>6 DEF Added
      <4>2. ~(k < r[j].next)
        BY <3>1, <3>2, <3>4, <3>6
      <4>3. r[k].out = r[j].out \o step[k].out /\ r[k].next = k + step[k].used
        <5>1. /\ ScanOne(r[j], k, step).out = r[j].out \o step[k].out
              /\ ScanOne(r[j], k, step).next = k + step[k].used
          BY <4>2, ScanOneGives, Zenon
        <5>2. QED
          BY <3>3, <5>1
      <4>4. r[k].out = h[k] /\ r[k].next = k + step[k].used
        BY <3>2, <3>3, <4>1, <4>3
      <4>5. QED
        BY <3>1, <4>4 DEF P, j, k
    <3>7. QED
      BY <3>5, <3>6
  <2>6. P = 0 .. m
    <3>1. P \in SUBSET (0 .. m)
      OBVIOUS
    <3> HIDE DEF P
    <3>2. QED
      BY <2>3, <2>4, <2>5, <3>1, UpTo
  <2>7. m \in P
    <3> HIDE DEF P
    <3>1. QED
      BY <2>3, <2>6
  <2>8. QED
    BY <1>7, <2>2, <2>3, <2>7
<1>10. QED
  BY <1>6, <1>8, <1>9 DEF n, seqs

-----------------------------------------------------------------------------
(* What a command line says about headers                                  *)

NoWord(options) == "" \notin options
ReadOptions ==
    {"-I", "-D", "-include", "-isystem", "-iframework", "-cxx-isystem", "-iquote",
     "-idirafter", "-isysroot"}
Says(tokens, i) ==
    IF tokens[i].arg = "" THEN Joined(tokens[i].opt, tokens[i + 1].arg) ELSE tokens[i]
Said(tokens) == {Says(tokens, i) : i \in {j \in DOMAIN tokens : tokens[j].opt \in ReadOptions}}

(* Lists that can be read, put end to end, say together what each says.    *)
LEMMA BlocksRead ==
    ASSUME NEW S, NEW seqs \in Seq(Seq(S)), NEW options, ReadOptions \subseteq options,
           \A i \in 1 .. Len(seqs) : Readable(seqs[i], options)
    PROVE  /\ FlattenSeq(seqs) \in Seq(S) /\ Readable(FlattenSeq(seqs), options)
           /\ Said(FlattenSeq(seqs)) = UNION {Said(seqs[i]) : i \in 1 .. Len(seqs)}
<1> DEFINE n == Len(seqs)
           F == FlattenSeq(seqs)
<1>0. PICK at : PutAt(at, seqs)
  BY FlattenPlaces
<1>1. /\ at \in [0 .. n -> Nat] /\ F \in Seq(S) /\ DOMAIN F = 1 .. at[n]
      /\ \A i \in 1 .. n : \A k \in 1 .. Len(seqs[i]) :
           at[i - 1] + k \in 1 .. at[n] /\ F[at[i - 1] + k] = seqs[i][k]
      /\ \A p \in 1 .. at[n] : \E i \in 1 .. n : \E k \in 1 .. Len(seqs[i]) : p = at[i - 1] + k
  <2>1. F \in Seq(S)
    BY FlattenTyped
  <2>2. QED
    BY <1>0, <2>1 DEF PutAt
<1>2. n \in Nat /\ \A i \in 1 .. n : seqs[i] \in Seq(S) /\ Len(seqs[i]) \in Nat
                                     /\ DOMAIN seqs[i] = 1 .. Len(seqs[i])
  OBVIOUS
<1> HIDE DEF n, F
<1>3. Len(F) = at[n] /\ at[n] \in Nat /\ \A i \in 1 .. n : at[i - 1] \in Nat
  <2>1. n \in 0 .. n /\ \A i \in 1 .. n : i - 1 \in 0 .. n
    BY <1>2
  <2>2. at[n] \in Nat /\ \A i \in 1 .. n : at[i - 1] \in Nat
    BY <1>1, <2>1
  <2>3. QED
    BY <1>1, <2>2
<1>4. ASSUME NEW i \in 1 .. n, NEW k \in 1 .. Len(seqs[i])
      PROVE  LET p == at[i - 1] + k IN
             /\ p \in DOMAIN F /\ F[p] = seqs[i][k]
             /\ IsToken(F[p])
             /\ IsBare(F[p], options) => WordFollows(F, p) /\ F[p + 1] = seqs[i][k + 1]
             /\ F[p].opt \in ReadOptions => Says(F, p) = Says(seqs[i], k)
  <2> DEFINE s == seqs[i]
             p == at[i - 1] + k
  <2>1. k \in DOMAIN s /\ Readable(s, options)
    BY <1>2 DEF n
  <2>2. p \in DOMAIN F /\ F[p] = s[k]
    BY <1>1
  <2>3. /\ IsToken(s[k])
        /\ IsBare(s[k], options) => WordFollows(s, k)
    BY <2>1 DEF Readable
  <2>4. ASSUME WordFollows(s, k)
        PROVE  WordFollows(F, p) /\ F[p + 1] = s[k + 1]
    <3>1. k < Len(s) /\ IsWord(s[k + 1])
      BY <2>4 DEF WordFollows
    <3>2. k + 1 \in 1 .. Len(s) /\ at[i - 1] + (k + 1) = p + 1
      <4>1. at[i - 1] \in Nat /\ k \in Nat /\ Len(s) \in Nat /\ k + 1 <= Len(s)
        BY <1>2, <1>3, <3>1
      <4> DEFINE a == at[i - 1]
                 m == Len(s)
      <4>2. a \in Nat /\ m \in Nat /\ k + 1 <= m /\ p = a + k
        BY <4>1
      <4> HIDE DEF s, p, a, m
      <4>3. k + 1 \in 1 .. m /\ a + (k + 1) = p + 1
        BY <4>1, <4>2
      <4>4. QED
        BY <4>3 DEF a, m
    <3>3. p + 1 \in 1 .. at[n] /\ F[p + 1] = s[k + 1]
      <4>1. at[i - 1] + (k + 1) \in 1 .. at[n] /\ F[at[i - 1] + (k + 1)] = s[k + 1]
        BY <1>1, <3>2
      <4> HIDE DEF s, p
      <4>2. QED
        BY <3>2, <4>1
    <3>4. p < Len(F)
      BY <1>3, <3>3
    <3>5. QED
      BY <3>1, <3>3, <3>4 DEF WordFollows
  <2>5. F[p].opt \in ReadOptions => Says(F, p) = Says(s, k)
    <3>1. CASE F[p].arg = "" /\ F[p].opt \in ReadOptions
      <4>1. IsBare(s[k], options)
        BY <2>2, <3>1 DEF IsBare
      <4>2. QED
        BY <2>2, <2>3, <2>4, <4>1 DEF Says
    <3>2. CASE F[p].arg # ""
      BY <2>2, <3>2 DEF Says
    <3>3. QED
      BY <3>1, <3>2
  <2> HIDE DEF p, s
  <2>6. QED
    BY <2>2, <2>3, <2>4, <2>5 DEF p, s
<1>5. \A p \in DOMAIN F : \E i \in 1 .. n : \E k \in 1 .. Len(seqs[i]) : p = at[i - 1] + k
  BY <1>1
<1>6. IsList(F)
  BY <1>1, SequencesAreLists
<1>7. Readable(F, options)
  <2> SUFFICES ASSUME NEW p \in DOMAIN F
               PROVE  /\ IsToken(F[p])
                      /\ IsBare(F[p], options) => WordFollows(F, p)
    BY <1>6 DEF Readable
  <2>1. PICK i \in 1 .. n : \E k \in 1 .. Len(seqs[i]) : p = at[i - 1] + k
    BY <1>5
  <2>2. PICK k \in 1 .. Len(seqs[i]) : p = at[i - 1] + k
    BY <2>1
  <2>3. QED
    BY <1>4, <2>2
<1>8. \A x \in Said(F) : \E i \in 1 .. n : x \in Said(seqs[i])
  <2> SUFFICES ASSUME NEW x \in Said(F) PROVE \E i \in 1 .. n : x \in Said(seqs[i])
    OBVIOUS
  <2>1. PICK p \in DOMAIN F : F[p].opt \in ReadOptions /\ x = Says(F, p)
    BY DEF Said
  <2>2. PICK i \in 1 .. n : \E k \in 1 .. Len(seqs[i]) : p = at[i - 1] + k
    BY <1>5
  <2> PICK k \in 1 .. Len(seqs[i]) : p = at[i - 1] + k
    BY <2>2
  <2>3. F[p] = seqs[i][k] /\ Says(F, p) = Says(seqs[i], k) /\ k \in DOMAIN seqs[i]
    BY <1>2, <1>4, <2>1
  <2>4. QED
    BY <2>1, <2>3 DEF Said
<1>9. \A i \in 1 .. n : \A x \in Said(seqs[i]) : x \in Said(F)
  <2> SUFFICES ASSUME NEW i \in 1 .. n, NEW x \in Said(seqs[i]) PROVE x \in Said(F)
    OBVIOUS
  <2>1. PICK k \in DOMAIN seqs[i] : seqs[i][k].opt \in ReadOptions /\ x = Says(seqs[i], k)
    BY DEF Said
  <2> DEFINE p == at[i - 1] + k
  <2>2. k \in 1 .. Len(seqs[i])
    BY <1>2, <2>1
  <2>3. p \in DOMAIN F /\ F[p].opt \in ReadOptions /\ Says(F, p) = x
    BY <1>4, <2>1, <2>2
  <2> HIDE DEF p
  <2>4. QED
    BY <2>3 DEF Said
<1>10. QED
  BY <1>1, <1>7, <1>8, <1>9 DEF n, F

(* What a step may add: nothing, a token that takes no argument, or an     *)
(* option and the word after it.                                           *)
LEMMA OneElement ==
    ASSUME NEW S, NEW x \in S
    PROVE  <<x>> \in Seq(S) /\ Len(<<x>>) = 1 /\ DOMAIN <<x>> = {1} /\ <<x>>[1] = x
           /\ ToSet(<<x>>) = {x}
<1>1. <<x>> \in Seq(S) /\ Len(<<x>>) = 1 /\ <<x>>[1] = x
  OBVIOUS
<1>2. DOMAIN <<x>> = {1}
  OBVIOUS
<1>3. QED
  BY <1>1, <1>2 DEF ToSet

LEMMA TwoElements ==
    ASSUME NEW S, NEW x \in S, NEW y \in S
    PROVE  <<x, y>> \in Seq(S) /\ Len(<<x, y>>) = 2 /\ DOMAIN <<x, y>> = {1, 2}
           /\ <<x, y>>[1] = x /\ <<x, y>>[2] = y
<1>1. <<x, y>> \in Seq(S) /\ Len(<<x, y>>) = 2 /\ <<x, y>>[1] = x /\ <<x, y>>[2] = y
  OBVIOUS
<1>2. DOMAIN <<x, y>> = {1, 2}
  OBVIOUS
<1>3. QED
  BY <1>1, <1>2

LEMMA TwoElementSet ==
    ASSUME NEW x, NEW y
    PROVE  ToSet(<<x, y>>) = {x, y}
<1>1. DOMAIN <<x, y>> = {1, 2} /\ <<x, y>>[1] = x /\ <<x, y>>[2] = y
  <2>1. x \in {x, y} /\ y \in {x, y}
    OBVIOUS
  <2>2. QED
    BY <2>1, TwoElements
<1>2. QED
  BY <1>1 DEF ToSet

LEMMA NoElement ==
    <<>> \in Seq({}) /\ DOMAIN <<>> = {} /\ ToSet(<<>>) = {}
<1>1. <<>> \in Seq({}) /\ Len(<<>>) = 0
  OBVIOUS
<1>2. DOMAIN <<>> = {}
  OBVIOUS
<1>3. QED
  BY <1>1, <1>2 DEF ToSet

LEMMA ShortLists ==
    ASSUME NEW options, NoWord(options), NEW t, IsToken(t)
    PROVE  /\ Readable(<<>>, options) /\ Said(<<>>) = {}
           /\ ~IsBare(t, options) => Readable(<<t>>, options)
           /\ ~IsBare(t, ReadOptions) =>
                Said(<<t>>) = IF t.opt \in ReadOptions THEN {t} ELSE {}
           /\ \A u : IsToken(u) /\ IsWord(u) =>
                /\ Readable(<<t, u>>, options)
                /\ Said(<<t, u>>) = IF t.opt \in ReadOptions
                                    THEN {IF t.arg = "" THEN Joined(t.opt, u.arg) ELSE t} ELSE {}
<1>1. Readable(<<>>, options) /\ Said(<<>>) = {}
  <2>1. <<>> \in Seq({}) /\ DOMAIN <<>> = {}
    BY NoElement
  <2>2. IsList(<<>>)
    BY <2>1, SequencesAreLists
  <2>3. QED
    BY <2>1, <2>2 DEF Readable, Said
<1> DEFINE one == <<t>>
<1>2. DOMAIN one = {1} /\ one[1] = t /\ IsList(one)
  <2>1. t \in {t}
    OBVIOUS
  <2>2. one \in Seq({t}) /\ DOMAIN one = {1} /\ one[1] = t
    BY <2>1, OneElement
  <2>3. QED
    BY <2>2, SequencesAreLists
<1>3. ASSUME NEW u, IsToken(u), IsWord(u)
      PROVE  /\ Readable(<<t, u>>, options)
             /\ Said(<<t, u>>) = IF t.opt \in ReadOptions
                                 THEN {IF t.arg = "" THEN Joined(t.opt, u.arg) ELSE t} ELSE {}
  <2> DEFINE two == <<t, u>>
  <2>1. two \in Seq({t, u}) /\ DOMAIN two = {1, 2} /\ two[1] = t /\ two[2] = u /\ Len(two) = 2
    <3>1. t \in {t, u} /\ u \in {t, u}
      OBVIOUS
    <3>2. QED
      BY <3>1, TwoElements
  <2>2. IsList(two)
    BY <2>1, SequencesAreLists
  <2> HIDE DEF two
  <2>3. WordFollows(two, 1) /\ ~IsBare(u, options) /\ u.opt = "" /\ "" \notin ReadOptions
    <3>1. u.opt = "" /\ "" \notin ReadOptions
      BY <1>3 DEF IsWord, ReadOptions
    <3>2. ~IsBare(u, options)
      BY <3>1 DEF IsBare, NoWord
    <3>3. 1 + 1 = 2 /\ 1 < Len(two)
      BY <2>1
    <3>4. WordFollows(two, 1)
      BY <1>3, <2>1, <3>3 DEF WordFollows
    <3>5. QED
      BY <3>1, <3>2, <3>4
  <2>4. Readable(two, options)
    BY <1>3, <2>1, <2>2, <2>3 DEF Readable
  <2>5. {j \in DOMAIN two : two[j].opt \in ReadOptions} = IF t.opt \in ReadOptions THEN {1} ELSE {}
    BY <2>1, <2>3
  <2>6. Says(two, 1) = IF t.arg = "" THEN Joined(t.opt, u.arg) ELSE t
    <3>1. 1 + 1 = 2
      OBVIOUS
    <3>2. QED
      BY <2>1, <3>1 DEF Says
  <2>7. QED
    BY <2>4, <2>5, <2>6 DEF Said, two
<1> HIDE DEF one
<1>4. ~IsBare(t, options) => Readable(one, options)
  BY <1>2 DEF Readable
<1>5. ASSUME ~IsBare(t, ReadOptions) PROVE Said(one) = IF t.opt \in ReadOptions THEN {t} ELSE {}
  <2>1. {j \in DOMAIN one : one[j].opt \in ReadOptions} = IF t.opt \in ReadOptions THEN {1} ELSE {}
    BY <1>2
  <2>2. t.opt \in ReadOptions => Says(one, 1) = t
    BY <1>2, <1>5 DEF Says, IsBare
  <2>3. QED
    BY <2>1, <2>2 DEF Said
<1>6. QED
  BY <1>1, <1>3, <1>4, <1>5 DEF one

(* A readable list has tokens, a word or not; a word is no option.         *)
LEMMA ReadableTokens ==
    ASSUME NEW T, NEW options, NoWord(options), Readable(T, options)
    PROVE  /\ T \in Seq(ToSet(T)) /\ Len(T) \in Nat /\ DOMAIN T = 1 .. Len(T)
           /\ \A i \in 1 .. Len(T) :
                /\ IsToken(T[i])
                /\ IsWord(T[i]) => ~IsBare(T[i], options)
                /\ IsBare(T[i], options) => WordFollows(T, i) /\ i + 1 \in 1 .. Len(T) /\ IsWord(T[i + 1])
<1>1. T \in Seq(ToSet(T))
  <2>1. T \in Seq({T[i] : i \in DOMAIN T})
    BY DEF Readable, IsList
  <2>2. QED
    BY <2>1 DEF ToSet
<1>2. Len(T) \in Nat /\ DOMAIN T = 1 .. Len(T)
  BY <1>1
<1>3. ASSUME NEW i \in 1 .. Len(T)
      PROVE  /\ IsToken(T[i])
             /\ IsWord(T[i]) => ~IsBare(T[i], options)
             /\ IsBare(T[i], options) => WordFollows(T, i) /\ i + 1 \in 1 .. Len(T) /\ IsWord(T[i + 1])
  <2>1. /\ IsToken(T[i])
        /\ IsBare(T[i], options) => WordFollows(T, i)
    BY <1>2 DEF Readable
  <2>2. IsWord(T[i]) => ~IsBare(T[i], options)
    BY DEF IsWord, IsBare, NoWord
  <2>3. WordFollows(T, i) => i + 1 \in 1 .. Len(T) /\ IsWord(T[i + 1])
    BY <1>2 DEF WordFollows
  <2>4. QED
    BY <2>1, <2>2, <2>3
<1>4. QED
  BY <1>1, <1>2, <1>3

(* How the compiler reads these options of a command is what it says.      *)
LEMMA MeaningIsSaid ==
    ASSUME NEW T, Readable(T, TakesArg)
    PROVE  /\ {t \in Meaning(T) : t.opt \in ReadOptions} = Said(T)
           /\ \A x \in Meaning(T) : \E t \in ToSet(T) : x.opt = t.opt
<1> DEFINE n == Len(T)
           step == [i \in DOMAIN T |-> MeaningStep(T, i)]
           S == ToSet(T) \cup {Joined(T[i].opt, T[i + 1].arg) : i \in DOMAIN T}
           added == AllAdded(step)
<1>1. "" \notin TakesArg /\ ReadOptions \subseteq TakesArg /\ "" \notin ReadOptions
  BY DEF TakesArg, TakesPathArg, ReadOptions
<1>0. NoWord(TakesArg)
  BY <1>1 DEF NoWord
<1>2. /\ T \in Seq(ToSet(T)) /\ n \in Nat /\ DOMAIN T = 1 .. n
      /\ \A i \in 1 .. n :
           /\ IsWord(T[i]) => ~IsBare(T[i], TakesArg)
           /\ IsBare(T[i], TakesArg) => i + 1 \in 1 .. n /\ IsWord(T[i + 1])
  BY <1>0, ReadableTokens
<1>3. ASSUME NEW i \in 1 .. n
      PROVE  step[i] = IF IsBare(T[i], TakesArg)
                       THEN [out |-> <<Joined(T[i].opt, T[i + 1].arg)>>, used |-> 2]
                       ELSE [out |-> <<T[i]>>, used |-> 1]
  <2>1. IsBare(T[i], TakesArg) => i < n /\ Text(T[i + 1]) = T[i + 1].arg
    BY <1>2 DEF Text
  <2>2. step[i] = MeaningStep(T, i)
    BY <1>2
  <2> HIDE DEF step
  <2>3. QED
    BY <2>1, <2>2 DEF MeaningStep, Keep
<1> DEFINE Out(i) == IF IsBare(T[i], TakesArg) THEN Joined(T[i].opt, T[i + 1].arg) ELSE T[i]
<1>4. ASSUME NEW i \in 1 .. n PROVE Out(i) \in S
  BY <1>2 DEF ToSet
<1>5. ASSUME NEW i \in 1 .. n
      PROVE  /\ step[i].out = <<Out(i)>>
             /\ IsBare(T[i], TakesArg) => step[i].used = 2
             /\ ~IsBare(T[i], TakesArg) => step[i].used = 1
             /\ \E u \in {1, 2} : step[i] = [out |-> <<Out(i)>>, used |-> u]
  <2> HIDE DEF step
  <2>1. CASE IsBare(T[i], TakesArg)
    <3>1. step[i] = [out |-> <<Joined(T[i].opt, T[i + 1].arg)>>, used |-> 2]
      BY <1>3, <2>1
    <3>2. Out(i) = Joined(T[i].opt, T[i + 1].arg)
      BY <2>1
    <3> HIDE DEF Out
    <3>3. step[i] = [out |-> <<Out(i)>>, used |-> 2]
      BY <3>1, <3>2
    <3>4. QED
      BY <2>1, <3>3
  <2>2. CASE ~IsBare(T[i], TakesArg)
    <3>1. step[i] = [out |-> <<T[i]>>, used |-> 1]
      BY <1>3, <2>2
    <3>2. Out(i) = T[i]
      BY <2>2
    <3> HIDE DEF Out
    <3>3. step[i] = [out |-> <<Out(i)>>, used |-> 1]
      BY <3>1, <3>2
    <3>4. QED
      BY <2>2, <3>3
  <2>3. QED
    BY <2>1, <2>2
<1>6. DOMAIN step = 1 .. n /\ step = [i \in 1 .. n |-> step[i]]
  BY <1>2
<1> HIDE DEF n, step, S, Out, added
<1>7. \A i \in 1 .. n : step[i] \in Steps(S)
  <2> SUFFICES ASSUME NEW i \in 1 .. n PROVE step[i] \in Steps(S)
    OBVIOUS
  <2>1. <<Out(i)>> \in Seq(S)
    BY <1>4
  <2>2. PICK u \in {1, 2} : step[i] = [out |-> <<Out(i)>>, used |-> u]
    BY <1>5
  <2>3. QED
    BY <2>1, <2>2 DEF Steps
<1>8. step \in Seq(Steps(S)) /\ Len(step) = n
  BY <1>2, <1>6, <1>7
<1>9. Local(step)
  BY <1>2, <1>5, <1>6 DEF Local
<1>10. added \in Seq(Seq(S)) /\ Len(added) = n /\ Scan(step) = FlattenSeq(added)
  BY <1>8, <1>9, LocalScan DEF added
<1>11. \A i \in 1 .. n : added[i] = IF i - 1 \in 1 .. n /\ IsBare(T[i - 1], TakesArg) THEN <<>> ELSE <<Out(i)>>
  <2> SUFFICES ASSUME NEW i \in 1 .. n
               PROVE  added[i] = IF i - 1 \in 1 .. n /\ IsBare(T[i - 1], TakesArg) THEN <<>> ELSE <<Out(i)>>
    OBVIOUS
  <2>1. added[i] = Added(step, i)
    BY <1>6 DEF added, AllAdded
  <2>2. i - 1 \in 1 .. n => (step[i - 1].used = 2 <=> IsBare(T[i - 1], TakesArg))
    <3> DEFINE j == i - 1
    <3> HIDE DEF j
    <3>1. ASSUME j \in 1 .. n PROVE step[j].used = 2 <=> IsBare(T[j], TakesArg)
      <4>1. CASE IsBare(T[j], TakesArg)
        BY <1>5, <3>1, <4>1
      <4>2. CASE ~IsBare(T[j], TakesArg)
        <5>1. step[j].used = 1
          BY <1>5, <3>1, <4>2
        <5>2. QED
          BY <4>2, <5>1
      <4>3. QED
        BY <4>1, <4>2
    <3>2. QED
      BY <3>1 DEF j
  <2>3. step[i].out = <<Out(i)>>
    BY <1>5
  <2>4. QED
    BY <1>6, <2>1, <2>2, <2>3 DEF Added
<1>12. DOMAIN added = 1 .. n
  BY <1>10
<1>13. ToSet(Scan(step)) = UNION {ToSet(added[i]) : i \in 1 .. n}
  BY <1>10, <1>12, FlattenElements
<1>14. Meaning(T) = ToSet(Scan(step))
  BY DEF Meaning, step
<1>15. ASSUME NEW i \in 1 .. n, T[i].opt \in ReadOptions
       PROVE  Out(i) = Says(T, i) /\ added[i] = <<Out(i)>> /\ Out(i).opt \in ReadOptions
  <2>1. ~IsWord(T[i])
    BY <1>1, <1>15 DEF IsWord
  <2>2. ~(i - 1 \in 1 .. n /\ IsBare(T[i - 1], TakesArg))
    <3>1. i - 1 \in 1 .. n => i - 1 + 1 = i
      BY <1>2
    <3>2. QED
      BY <1>2, <2>1, <3>1
  <2>3. Out(i) = Says(T, i)
    BY <1>1, <1>15 DEF Out, Says, IsBare
  <2>4. Out(i).opt = T[i].opt
    BY DEF Out, Joined
  <2>5. QED
    BY <1>11, <1>15, <2>2, <2>3, <2>4
<1>16. \A y : ToSet(<<y>>) = {y}
  <2> SUFFICES ASSUME NEW y PROVE ToSet(<<y>>) = {y}
    OBVIOUS
  <2>1. DOMAIN <<y>> = {1} /\ <<y>>[1] = y
    OBVIOUS
  <2>2. QED
    BY <2>1 DEF ToSet
<1>17. ASSUME NEW x \in Meaning(T)
       PROVE  \E i \in 1 .. n : x = Out(i) /\ x.opt = T[i].opt /\ T[i] \in ToSet(T)
  <2>1. PICK i \in 1 .. n : x \in ToSet(added[i])
    BY <1>13, <1>14
  <2>2. x = Out(i)
    <3>1. ToSet(<<>>) = {}
      BY DEF ToSet
    <3>2. QED
      BY <1>11, <1>16, <2>1, <3>1
  <2>3. x.opt = T[i].opt
    BY <2>2 DEF Out, Joined
  <2>4. T[i] \in ToSet(T)
    BY <1>2
  <2>5. QED
    BY <2>2, <2>3, <2>4
<1>18. ASSUME NEW x \in Meaning(T), x.opt \in ReadOptions PROVE x \in Said(T)
  <2>1. PICK i \in 1 .. n : x = Out(i) /\ T[i].opt \in ReadOptions
    BY <1>17, <1>18
  <2>2. QED
    BY <1>2, <1>15, <2>1 DEF Said, n
<1>19. ASSUME NEW x \in Said(T) PROVE x \in Meaning(T) /\ x.opt \in ReadOptions
  <2>1. PICK i \in 1 .. n : T[i].opt \in ReadOptions /\ x = Says(T, i)
    BY <1>2 DEF Said
  <2>2. x \in ToSet(added[i]) /\ x.opt \in ReadOptions
    BY <1>15, <1>16, <2>1
  <2>3. QED
    BY <1>13, <1>14, <2>2
<1>20. \A x \in Meaning(T) : \E t \in ToSet(T) : x.opt = t.opt
  BY <1>17
<1>21. QED
  BY <1>18, <1>19, <1>20

(* Where no other option speaks of headers, that is all there is.          *)
LEMMA SearchedIsSaid ==
    ASSUME NEW T, Readable(T, TakesArg)
    PROVE  /\ Said(T) \subseteq Searched(T)
           /\ \A x \in Searched(T) : x.opt \in ReadOptions => x \in Said(T)
           /\ (\A t \in ToSet(T) : t.opt \in SearchOptions => t.opt \in ReadOptions)
                => Searched(T) = Said(T)
<1>1. ReadOptions \subseteq SearchOptions
  BY DEF ReadOptions, SearchOptions
<1>2. /\ {t \in Meaning(T) : t.opt \in ReadOptions} = Said(T)
      /\ \A x \in Meaning(T) : \E t \in ToSet(T) : x.opt = t.opt
  BY MeaningIsSaid
<1>3. QED
  BY <1>1, <1>2 DEF Searched

LEMMA SaidAreJoined ==
    ASSUME NEW T, Readable(T, TakesArg)
    PROVE  \A x \in Said(T) : x = Joined(x.opt, x.arg)
<1>1. SUFFICES ASSUME NEW i \in DOMAIN T PROVE Says(T, i) = Joined(Says(T, i).opt, Says(T, i).arg)
  BY DEF Said
<1>2. IsToken(T[i])
  BY DEF Readable
<1>3. T[i] = [opt |-> T[i].opt, arg |-> T[i].arg]
  BY <1>2 DEF IsToken
<1>4. QED
  BY <1>3 DEF Says, Joined

(* Blocks of tokens that each say what one token of T says.                *)
LEMMA BlocksSay ==
    ASSUME NEW T, NEW kept, NEW S, NEW seqs \in Seq(Seq(S)), ReadOptions \subseteq kept,
           DOMAIN T = 1 .. Len(seqs),
           \A i \in 1 .. Len(seqs) :
              /\ Readable(seqs[i], kept)
              /\ T[i].opt \in ReadOptions => Said(seqs[i]) = {Says(T, i)}
              /\ T[i].opt \notin ReadOptions => Said(seqs[i]) = {}
    PROVE  FlattenSeq(seqs) \in Seq(S) /\ Readable(FlattenSeq(seqs), kept) /\ Said(FlattenSeq(seqs)) = Said(T)
<1> DEFINE n == Len(seqs)
<1>1. /\ FlattenSeq(seqs) \in Seq(S) /\ Readable(FlattenSeq(seqs), kept)
      /\ Said(FlattenSeq(seqs)) = UNION {Said(seqs[i]) : i \in 1 .. n}
  BY BlocksRead
<1> HIDE DEF n
<1>2. Said(T) = UNION {Said(seqs[i]) : i \in 1 .. n}
  <2>1. ASSUME NEW x \in Said(T) PROVE x \in UNION {Said(seqs[i]) : i \in 1 .. n}
    <3>1. PICK i \in 1 .. n : T[i].opt \in ReadOptions /\ x = Says(T, i)
      BY DEF Said, n
    <3>2. x \in Said(seqs[i])
      BY <3>1 DEF n
    <3>3. QED
      BY <3>2
  <2>2. ASSUME NEW i \in 1 .. n, NEW x \in Said(seqs[i]) PROVE x \in Said(T)
    <3>1. T[i].opt \in ReadOptions /\ x = Says(T, i)
      BY DEF n
    <3>2. QED
      BY <3>1 DEF Said, n
  <2>3. QED
    BY <2>1, <2>2
<1>3. QED
  BY <1>1, <1>2 DEF n

(* A loop over a command line that keeps each token as it is, alone or     *)
(* with the word it takes, or drops it, and drops no search option.        *)
Keeps(T, step, options, kept) ==
    \A i \in DOMAIN T :
        /\ \/ step[i] = Skip(1) /\ T[i].opt \notin ReadOptions
           \/ step[i] = Skip(2) /\ T[i].opt \notin ReadOptions /\ IsBare(T[i], options)
           \/ step[i] = Keep(T[i]) /\ ~IsBare(T[i], kept)
           \/ step[i] = KeepTwo(T[i], T[i + 1]) /\ IsBare(T[i], options)
        /\ IsWord(T[i]) => step[i].used = 1

LEMMA StepFields ==
    ASSUME NEW S
    PROVE  /\ Skip(1) \in Steps(S) /\ Skip(1).out = <<>> /\ Skip(1).used = 1
           /\ Skip(2) \in Steps(S) /\ Skip(2).out = <<>> /\ Skip(2).used = 2
           /\ \A t \in S : Keep(t) \in Steps(S) /\ Keep(t).out = <<t>> /\ Keep(t).used = 1
           /\ \A t, u \in S : KeepTwo(t, u) \in Steps(S) /\ KeepTwo(t, u).out = <<t, u>>
                               /\ KeepTwo(t, u).used = 2
<1>1. <<>> \in Seq(S) /\ (\A t \in S : <<t>> \in Seq(S)) /\ (\A t, u \in S : <<t, u>> \in Seq(S))
  OBVIOUS
<1>2. ASSUME NEW n \in Nat PROVE Skip(n) \in Steps(S) /\ Skip(n).out = <<>> /\ Skip(n).used = n
  BY <1>1 DEF Skip, Steps
<1>3. ASSUME NEW t \in S PROVE Keep(t) \in Steps(S) /\ Keep(t).out = <<t>> /\ Keep(t).used = 1
  BY <1>1 DEF Keep, Steps
<1>4. ASSUME NEW t \in S, NEW u \in S
      PROVE  KeepTwo(t, u) \in Steps(S) /\ KeepTwo(t, u).out = <<t, u>> /\ KeepTwo(t, u).used = 2
  BY <1>1 DEF KeepTwo, Steps
<1>5. 1 \in Nat /\ 2 \in Nat
  OBVIOUS
<1>6. QED
  BY <1>2, <1>3, <1>4, <1>5

LEMMA LoopKeeps ==
    ASSUME NEW T, NEW options, NEW kept, NoWord(options), NoWord(kept), ReadOptions \subseteq kept,
           Readable(T, options), NEW step, DOMAIN step = DOMAIN T, step = [i \in DOMAIN T |-> step[i]],
           Keeps(T, step, options, kept)
    PROVE  /\ Scan(step) \in Seq(ToSet(T))
           /\ Readable(Scan(step), kept) /\ Said(Scan(step)) = Said(T)
           /\ \A i \in DOMAIN T : ~IsWord(T[i]) /\ step[i].out # <<>> => T[i] \in ToSet(Scan(step))
<1> DEFINE n == Len(T)
           S == ToSet(T)
           added == AllAdded(step)
<1>1. /\ T \in Seq(S) /\ n \in Nat /\ DOMAIN T = 1 .. n
      /\ \A i \in 1 .. n :
           /\ IsToken(T[i])
           /\ IsWord(T[i]) => ~IsBare(T[i], options)
           /\ IsBare(T[i], options) => i + 1 \in 1 .. n /\ IsWord(T[i + 1])
  BY ReadableTokens
<1>2. \A i \in 1 .. n : T[i] \in S
  BY <1>1
<1> HIDE DEF n, S, added
<1>3. ASSUME NEW i \in 1 .. n
      PROVE  /\ step[i] \in Steps(S) /\ step[i].used \in {1, 2}
             /\ step[i].used = 2 => IsBare(T[i], options)
             /\ IsWord(T[i]) => step[i].used = 1
             /\ \/ step[i].out = <<>> /\ T[i].opt \notin ReadOptions
                \/ step[i].out = <<T[i]>> /\ ~IsBare(T[i], kept)
                \/ step[i].out = <<T[i], T[i + 1]>> /\ IsBare(T[i], options)
  <2>1. /\ \/ step[i] = Skip(1) /\ T[i].opt \notin ReadOptions
           \/ step[i] = Skip(2) /\ T[i].opt \notin ReadOptions /\ IsBare(T[i], options)
           \/ step[i] = Keep(T[i]) /\ ~IsBare(T[i], kept)
           \/ step[i] = KeepTwo(T[i], T[i + 1]) /\ IsBare(T[i], options)
        /\ IsWord(T[i]) => step[i].used = 1
    BY <1>1 DEF Keeps
  <2>2. T[i] \in S /\ (IsBare(T[i], options) => T[i + 1] \in S)
    BY <1>1, <1>2
  <2>3. 1 # 2
    OBVIOUS
  <2>4. CASE step[i] = Skip(1) /\ T[i].opt \notin ReadOptions
    <3>1. step[i] \in Steps(S) /\ step[i].out = <<>> /\ step[i].used = 1
      BY <2>2, <2>4, StepFields
    <3>2. QED
      BY <2>1, <2>3, <2>4, <3>1
  <2>5. CASE step[i] = Skip(2) /\ T[i].opt \notin ReadOptions /\ IsBare(T[i], options)
    <3>1. step[i] \in Steps(S) /\ step[i].out = <<>> /\ step[i].used = 2
      BY <2>2, <2>5, StepFields
    <3>2. QED
      BY <2>1, <2>3, <2>5, <3>1
  <2>6. CASE step[i] = Keep(T[i]) /\ ~IsBare(T[i], kept)
    <3>1. step[i] \in Steps(S) /\ step[i].out = <<T[i]>> /\ step[i].used = 1
      BY <2>2, <2>6, StepFields
    <3>2. QED
      BY <2>1, <2>3, <2>6, <3>1
  <2>7. CASE step[i] = KeepTwo(T[i], T[i + 1]) /\ IsBare(T[i], options)
    <3>1. step[i] \in Steps(S) /\ step[i].out = <<T[i], T[i + 1]>> /\ step[i].used = 2
      <4> DEFINE t == T[i]
                 u == T[i + 1]
      <4>1. t \in S /\ u \in S /\ step[i] = KeepTwo(t, u)
        BY <2>2, <2>7
      <4> HIDE DEF t, u
      <4>2. KeepTwo(t, u) \in Steps(S) /\ KeepTwo(t, u).out = <<t, u>> /\ KeepTwo(t, u).used = 2
        BY <4>1, StepFields, Zenon
      <4>3. QED
        BY <4>1, <4>2 DEF t, u
    <3>2. QED
      BY <2>1, <2>3, <2>7, <3>1
  <2>8. QED
    BY <2>1, <2>4, <2>5, <2>6, <2>7
<1>4. DOMAIN step = 1 .. n /\ step \in Seq(Steps(S)) /\ Len(step) = n
  <2>1. step = [i \in 1 .. n |-> step[i]]
    BY <1>1
  <2>2. QED
    BY <1>1, <1>3, <2>1
<1>5. Local(step)
  <2> SUFFICES ASSUME NEW i \in 1 .. n
               PROVE  step[i].used \in {1, 2} /\ (i + 1 \in 1 .. n /\ step[i].used = 2 => step[i + 1].used = 1)
    BY <1>4 DEF Local
  <2>1. ASSUME step[i].used = 2 PROVE step[i + 1].used = 1
    <3>1. i + 1 \in 1 .. n /\ IsWord(T[i + 1])
      BY <1>1, <1>3, <2>1
    <3>2. QED
      BY <1>3, <3>1
  <2>2. QED
    BY <1>3, <2>1
<1>6. added \in Seq(Seq(S)) /\ Len(added) = n /\ Scan(step) = FlattenSeq(added)
  BY <1>4, <1>5, LocalScan DEF added
<1>7. ASSUME NEW i \in 1 .. n
      PROVE  /\ Readable(added[i], kept)
             /\ T[i].opt \in ReadOptions => Said(added[i]) = {Says(T, i)}
             /\ T[i].opt \notin ReadOptions => Said(added[i]) = {}
  <2>1. added[i] = Added(step, i)
    BY <1>4 DEF added, AllAdded
  <2>2. Readable(<<>>, kept) /\ Said(<<>>) = {} /\ IsToken(T[i])
    BY <1>1, ShortLists
  <2>3. IsWord(T[i]) => T[i].opt \notin ReadOptions
    BY DEF IsWord, ReadOptions
  <2>4. CASE i - 1 \in 1 .. n /\ step[i - 1].used = 2
    <3>1. IsWord(T[i])
      <4>1. IsBare(T[i - 1], options)
        BY <1>3, <2>4
      <4>2. IsWord(T[i - 1 + 1]) /\ i - 1 + 1 = i
        BY <1>1, <2>4, <4>1
      <4>3. QED
        BY <4>2
    <3>2. added[i] = <<>>
      BY <1>4, <2>1, <2>4 DEF Added
    <3>3. QED
      BY <2>2, <2>3, <3>1, <3>2
  <2>5. CASE ~(i - 1 \in 1 .. n /\ step[i - 1].used = 2)
    <3>1. added[i] = step[i].out
      BY <1>4, <2>1, <2>5 DEF Added
    <3>2. CASE step[i].out = <<>> /\ T[i].opt \notin ReadOptions
      BY <2>2, <3>1, <3>2
    <3>3. CASE step[i].out = <<T[i]>> /\ ~IsBare(T[i], kept)
      <4>1. ~IsBare(T[i], ReadOptions)
        BY <3>3 DEF IsBare
      <4>2. /\ Readable(<<T[i]>>, kept)
            /\ Said(<<T[i]>>) = IF T[i].opt \in ReadOptions THEN {T[i]} ELSE {}
        BY <2>2, <3>3, <4>1, ShortLists
      <4>3. T[i].opt \in ReadOptions => Says(T, i) = T[i]
        BY <4>1 DEF Says, IsBare
      <4>4. QED
        BY <3>1, <3>3, <4>2, <4>3
    <3>4. CASE step[i].out = <<T[i], T[i + 1]>> /\ IsBare(T[i], options)
      <4>1. IsToken(T[i + 1]) /\ IsWord(T[i + 1]) /\ T[i].arg = ""
        BY <1>1, <3>4 DEF IsBare
      <4>2. /\ Readable(<<T[i], T[i + 1]>>, kept)
            /\ Said(<<T[i], T[i + 1]>>) = IF T[i].opt \in ReadOptions
                   THEN {IF T[i].arg = "" THEN Joined(T[i].opt, T[i + 1].arg) ELSE T[i]} ELSE {}
        BY <2>2, <4>1, ShortLists
      <4>3. Says(T, i) = Joined(T[i].opt, T[i + 1].arg)
        BY <4>1 DEF Says
      <4>4. QED
        BY <3>1, <3>4, <4>1, <4>2, <4>3
    <3>5. QED
      BY <1>3, <3>2, <3>3, <3>4
  <2>6. QED
    BY <2>4, <2>5
<1>8. /\ FlattenSeq(added) \in Seq(S) /\ Readable(FlattenSeq(added), kept)
      /\ Said(FlattenSeq(added)) = Said(T)
  <2>1. DOMAIN T = 1 .. Len(added)
    BY <1>1, <1>6
  <2>2. \A i \in 1 .. Len(added) :
           /\ Readable(added[i], kept)
           /\ T[i].opt \in ReadOptions => Said(added[i]) = {Says(T, i)}
           /\ T[i].opt \notin ReadOptions => Said(added[i]) = {}
    BY <1>6, <1>7
  <2>3. QED
    BY <1>6, <2>1, <2>2, BlocksSay
<1>9. ASSUME NEW i \in DOMAIN T, ~IsWord(T[i]), step[i].out # <<>>
      PROVE  T[i] \in ToSet(Scan(step))
  <2>1. ~(i - 1 \in 1 .. n /\ step[i - 1].used = 2)
    <3>1. SUFFICES ASSUME i - 1 \in 1 .. n, step[i - 1].used = 2 PROVE FALSE
      OBVIOUS
    <3>2. IsWord(T[i - 1 + 1]) /\ i - 1 + 1 = i
      BY <1>1, <1>3, <3>1
    <3>3. QED
      BY <1>9, <3>2
  <2>2. added[i] = step[i].out
    BY <1>1, <1>4, <2>1 DEF added, AllAdded, Added
  <2>3. added[i] = <<T[i]>> \/ added[i] = <<T[i], T[i + 1]>>
    BY <1>1, <1>3, <1>9, <2>2
  <2> DEFINE t == T[i]
             u == T[i + 1]
  <2> HIDE DEF t, u
  <2>7. t \in ToSet(<<t>>) /\ t \in ToSet(<<t, u>>)
    <3>1. ToSet(<<t>>) = {t} /\ ToSet(<<t, u>>) = {t, u}
      BY OneElement, TwoElementSet
    <3>2. QED
      BY <3>1
  <2>4. T[i] \in ToSet(added[i])
    BY <2>3, <2>7 DEF t, u
  <2>5. ToSet(Scan(step)) = UNION {ToSet(added[j]) : j \in 1 .. n}
    <3>1. DOMAIN added = 1 .. n
      BY <1>6
    <3>2. QED
      BY <1>6, <3>1, FlattenElements
  <2>6. QED
    BY <1>1, <2>4, <2>5
<1>10. QED
  BY <1>6, <1>8, <1>9 DEF S

(* What _strip_non_flags leaves can be read, and says the same.            *)
LEMMA StripKeeps ==
    ASSUME NEW T, Readable(T, TakesArg)
    PROVE  /\ StripNonFlags(T) \in Seq(ToSet(T))
           /\ Readable(StripNonFlags(T), TakesPathArg) /\ Said(StripNonFlags(T)) = Said(T)
           /\ \A t \in ToSet(T) : t.opt \in SearchOptions => t \in ToSet(StripNonFlags(T))
<1> DEFINE step == [i \in DOMAIN T |-> StripStep(T, i)]
<1>1. NoWord(TakesArg) /\ NoWord(TakesPathArg) /\ ReadOptions \subseteq TakesPathArg
  BY DEF NoWord, TakesArg, TakesPathArg, ReadOptions
<1>2. /\ Len(T) \in Nat /\ DOMAIN T = 1 .. Len(T)
      /\ \A i \in DOMAIN T : IsBare(T[i], TakesArg) => WordFollows(T, i)
  BY <1>1, ReadableTokens
<1>3. ASSUME NEW i \in DOMAIN T
      PROVE  /\ \/ step[i] = Skip(1) /\ T[i].opt \notin ReadOptions
                \/ step[i] = Skip(2) /\ T[i].opt \notin ReadOptions /\ IsBare(T[i], TakesArg)
                \/ step[i] = Keep(T[i]) /\ ~IsBare(T[i], TakesPathArg)
                \/ step[i] = KeepTwo(T[i], T[i + 1]) /\ IsBare(T[i], TakesArg)
             /\ IsWord(T[i]) => step[i].used = 1
             /\ T[i].opt \in SearchOptions => step[i].out # <<>> /\ ~IsWord(T[i])
  <2> DEFINE t == T[i]
             a == IsBare(t, {"-o", "--output", "-MF", "-MT", "-MQ"})
             b == (t.opt = "-o" /\ t.arg # "") \/ IsBare(t, {"-c", "-MD", "-MMD", "-MP"})
             c == IsBare(t, TakesPathArg)
             d == IsWord(t) /\ t.arg \in SourceFiles
  <2>1. step[i] = CASE a -> Skip(2) [] b -> Skip(1) [] c -> KeepOption(T, i) [] d -> Skip(1)
                    [] OTHER -> Keep(t)
    <3>1. step[i] = StripStep(T, i)
      OBVIOUS
    <3> HIDE DEF step
    <3>2. QED
      BY <3>1, Zenon DEF StripStep
  <2>2. /\ a => IsBare(t, TakesArg) /\ t.opt \notin ReadOptions
        /\ b => t.opt \notin ReadOptions
        /\ c => IsBare(t, TakesArg)
        /\ IsWord(t) => t.opt \notin ReadOptions
    BY DEF IsBare, IsWord, TakesArg, TakesPathArg, ReadOptions
  <2>3. ~(a /\ b) /\ ~(a /\ c) /\ ~(b /\ c) /\ (IsWord(t) => ~a /\ ~b /\ ~c)
    BY DEF IsBare, IsWord, TakesPathArg
  <2>4. IsBare(t, TakesArg) => WordFollows(T, i)
    BY <1>2
  <2>5. /\ Skip(1).used = 1 /\ Keep(t).used = 1 /\ Keep(t).out # <<>>
        /\ \A u : KeepTwo(t, u).out # <<>>
    BY DEF Skip, Keep, KeepTwo
  <2>13. /\ a \/ b \/ d => t.opt \notin SearchOptions
         /\ t.opt \in SearchOptions => ~IsWord(t)
    BY DEF IsBare, IsWord, SearchOptions
  <2>6. d => IsWord(t)
    OBVIOUS
  <2> HIDE DEF step, a, b, c, d
  <2>7. CASE a
    <3>1. step[i] = Skip(2)
      BY <2>1, <2>3, <2>6, <2>7
    <3>2. QED
      BY <2>2, <2>3, <2>7, <2>13, <3>1
  <2>8. CASE b
    <3>1. step[i] = Skip(1)
      BY <2>1, <2>3, <2>6, <2>8
    <3>2. QED
      BY <2>2, <2>3, <2>8, <2>13, <3>1
  <2>9. CASE c
    <3>1. step[i] = KeepOption(T, i)
      BY <2>1, <2>3, <2>6, <2>9
    <3>2. KeepOption(T, i) = KeepTwo(T[i], T[i + 1])
      BY <2>2, <2>4, <2>9 DEF KeepOption
    <3>3. step[i].out # <<>>
      BY <2>5, <3>1, <3>2
    <3>4. QED
      BY <2>2, <2>3, <2>9, <2>13, <3>1, <3>2, <3>3
  <2>10. CASE d
    <3>1. step[i] = Skip(1)
      BY <2>1, <2>3, <2>6, <2>10
    <3>2. QED
      BY <2>2, <2>5, <2>6, <2>10, <2>13, <3>1
  <2>11. CASE ~a /\ ~b /\ ~c /\ ~d
    <3>1. step[i] = Keep(t)
      BY <2>1, <2>11
    <3>2. QED
      BY <2>5, <2>11, <2>13, <3>1 DEF c
  <2>12. QED
    BY <2>7, <2>8, <2>9, <2>10, <2>11
<1>4. DOMAIN step = DOMAIN T /\ step = [i \in DOMAIN T |-> step[i]]
  OBVIOUS
<1>5. StripNonFlags(T) = Scan(step)
  BY DEF StripNonFlags
<1> HIDE DEF step
<1>6. Keeps(T, step, TakesArg, TakesPathArg)
  BY <1>3 DEF Keeps
<1>7. /\ Scan(step) \in Seq(ToSet(T))
      /\ Readable(Scan(step), TakesPathArg) /\ Said(Scan(step)) = Said(T)
      /\ \A i \in DOMAIN T : ~IsWord(T[i]) /\ step[i].out # <<>> => T[i] \in ToSet(Scan(step))
  BY <1>1, <1>4, <1>6, LoopKeeps
<1>8. ASSUME NEW t \in ToSet(T), t.opt \in SearchOptions PROVE t \in ToSet(Scan(step))
  <2>1. PICK i \in DOMAIN T : t = T[i]
    BY DEF ToSet
  <2>2. QED
    BY <1>3, <1>7, <1>8, <2>1
<1>9. QED
  BY <1>5, <1>7, <1>8

(* What a scan passes over makes no difference.                            *)
LEMMA PassedOver ==
    ASSUME NEW S, NEW a \in Seq(Steps(S)), NEW b \in Seq(Steps(S)), Len(a) = Len(b),
           Local(a), Local(b),
           \A i \in 1 .. Len(a) :
              /\ a[i].used = b[i].used
              /\ a[i].out = b[i].out \/ (i - 1 \in 1 .. Len(a) /\ a[i - 1].used = 2)
    PROVE  Scan(a) = Scan(b)
<1> DEFINE n == Len(a)
<1>1. n \in Nat /\ DOMAIN a = 1 .. n /\ DOMAIN b = 1 .. n
  OBVIOUS
<1>2. ASSUME NEW i \in 1 .. n PROVE Added(a, i) = Added(b, i)
  <2>1. CASE i - 1 \in 1 .. n /\ a[i - 1].used = 2
    <3>1. b[i - 1].used = 2
      BY <2>1
    <3>2. QED
      BY <1>1, <2>1, <3>1 DEF Added
  <2>2. CASE ~(i - 1 \in 1 .. n /\ a[i - 1].used = 2)
    <3>1. a[i].out = b[i].out
      BY <2>2
    <3>2. i - 1 \in 1 .. n => b[i - 1].used = a[i - 1].used
      OBVIOUS
    <3>3. QED
      BY <1>1, <2>2, <3>1, <3>2 DEF Added
  <2>3. QED
    BY <2>1, <2>2
<1>3. AllAdded(a) = AllAdded(b)
  BY <1>1, <1>2 DEF AllAdded
<1>4. QED
  BY <1>3, LocalScan

(* What the loop of walk leaves can be read, and says the same, where walk *)
(* knows the form of every option about headers.                           *)
LEMMA CleanKeeps ==
    ASSUME NEW T, Readable(T, TakesPathArg), WalkKnows(T)
    PROVE  /\ CleanedFlags(T) \in Seq(ToSet(T))
           /\ Readable(CleanedFlags(T), TakesArg) /\ Said(CleanedFlags(T)) = Said(T)
<1> DEFINE n == Len(T)
           step == [i \in DOMAIN T |-> CleanStep(T, i)]
           bare == [i \in DOMAIN T |-> IF IsWord(T[i]) THEN Skip(1) ELSE CleanStep(T, i)]
           S == ToSet(T) \cup {SlashWords[w] : w \in DOMAIN SlashWords}
<1>1. /\ NoWord(TakesArg) /\ NoWord(TakesPathArg) /\ NoWord(ReadOptions) /\ ReadOptions \subseteq TakesArg
      /\ KeptApart \subseteq TakesPathArg /\ NoWord(KeptApart) /\ ReadOptions \subseteq SearchOptions
  BY DEF NoWord, TakesArg, TakesPathArg, ReadOptions, KeptApart, SearchOptions
<1>2. /\ n \in Nat /\ DOMAIN T = 1 .. n
      /\ \A i \in 1 .. n :
           /\ T[i] \in ToSet(T)
           /\ IsBare(T[i], TakesPathArg) => WordFollows(T, i) /\ i + 1 \in 1 .. n /\ IsWord(T[i + 1])
  BY <1>1, ReadableTokens DEF ToSet
<1>3. ASSUME NEW i \in 1 .. n
      PROVE  /\ IsBare(T[i], KeptApart) =>
                   CleanStep(T, i) = KeepTwo(T[i], T[i + 1]) /\ IsBare(T[i], TakesPathArg)
             /\ ~IsWord(T[i]) =>
                \/ CleanStep(T, i) = Skip(1) /\ T[i].opt \notin ReadOptions
                \/ CleanStep(T, i) = Keep(T[i]) /\ ~IsBare(T[i], TakesArg)
                \/ CleanStep(T, i) = KeepTwo(T[i], T[i + 1]) /\ IsBare(T[i], TakesPathArg)
             /\ IsWord(T[i]) =>
                \/ CleanStep(T, i) = Skip(1)
                \/ /\ T[i].arg \in DOMAIN SlashWords /\ CleanStep(T, i) = Keep(SlashWords[T[i].arg])
                   /\ i - 1 \in 1 .. n /\ IsBare(T[i - 1], KeptApart)
  <2> DEFINE t == T[i]
             a == IsBare(t, KeptApart)
             b == t.opt \in {"-I", "-D", "-std="} \cup IncludeFamily \cup IsystemFamily
                    /\ ~IsBare(t, KeptApart)
             c == IsWord(t) /\ t.arg \in DOMAIN SlashWords
  <2>1. CleanStep(T, i) = CASE a -> KeepOption(T, i) [] b -> Keep(t)
                            [] c -> Keep(SlashWords[t.arg]) [] OTHER -> Skip(1)
    BY Zenon DEF CleanStep
  <2>2. /\ t.opt \in SearchOptions => t.opt \in (IF t.arg = "" THEN KeptApart ELSE KeptJoined)
        /\ c => i > 1 /\ IsBare(T[i - 1], KeptApart)
    BY <1>2 DEF WalkKnows
  <2>3. /\ a => IsBare(t, TakesPathArg) /\ ~IsWord(t)
        /\ b => ~IsBare(t, TakesArg) /\ ~IsWord(t)
        /\ ~a /\ ~b => t.opt \notin ReadOptions
    <3>1. a => IsBare(t, TakesPathArg) /\ ~IsWord(t)
      BY <1>1 DEF IsBare, IsWord, NoWord
    <3>2. b => ~IsBare(t, TakesArg)
      BY <2>2 DEF IsBare, TakesArg, TakesPathArg, KeptApart, SearchOptions, IncludeFamily, IsystemFamily
    <3>3. b => ~IsWord(t)
      BY DEF IsWord, IncludeFamily, IsystemFamily
    <3>4. ~a /\ ~b => t.opt \notin ReadOptions
      BY <1>1, <2>2 DEF IsBare, KeptApart, KeptJoined, ReadOptions, IncludeFamily, IsystemFamily
    <3>5. QED
      BY <3>1, <3>2, <3>3, <3>4
  <2>4. a => KeepOption(T, i) = KeepTwo(T[i], T[i + 1])
    <3>1. IsBare(t, TakesPathArg) => WordFollows(T, i)
      BY <1>2
    <3> HIDE DEF a
    <3>2. QED
      BY <2>3, <3>1 DEF KeepOption
  <2>5. c => IsWord(t) /\ i - 1 \in 1 .. n
    <3>1. i > 1 => i - 1 \in 1 .. n
      BY <1>2
    <3>2. c => i > 1
      BY <2>2
    <3>3. QED
      BY <3>1, <3>2
  <2>6. ~(a /\ b) /\ (c => ~a /\ ~b)
    BY <2>3
  <2> HIDE DEF a, b, c
  <2>7. CASE a
    <3>1. CleanStep(T, i) = KeepOption(T, i)
      BY <2>1, <2>6, <2>7
    <3>2. QED
      BY <2>3, <2>4, <2>7, <3>1
  <2>8. CASE b
    <3>1. CleanStep(T, i) = Keep(t)
      BY <2>1, <2>6, <2>8
    <3>2. QED
      BY <2>3, <2>6, <2>8, <3>1 DEF a
  <2>9. CASE c
    <3>1. CleanStep(T, i) = Keep(SlashWords[t.arg])
      BY <2>1, <2>6, <2>9
    <3>2. QED
      BY <2>2, <2>5, <2>6, <2>9, <3>1 DEF a, c
  <2>10. CASE ~a /\ ~b /\ ~c
    <3>1. CleanStep(T, i) = Skip(1)
      BY <2>1, <2>10
    <3>2. QED
      BY <2>3, <2>10, <3>1 DEF a
  <2>11. QED
    BY <2>7, <2>8, <2>9, <2>10
<1>4. /\ DOMAIN step = 1 .. n /\ step = [i \in 1 .. n |-> step[i]]
      /\ DOMAIN bare = 1 .. n /\ bare = [i \in 1 .. n |-> bare[i]]
      /\ \A i \in 1 .. n : step[i] = CleanStep(T, i)
      /\ \A i \in 1 .. n : bare[i] = IF IsWord(T[i]) THEN Skip(1) ELSE step[i]
  BY <1>2
<1>5. CleanedFlags(T) = Scan(step)
  BY DEF CleanedFlags
<1>6. \A i \in 1 .. n : T[i] \in S /\ (IsWord(T[i]) /\ T[i].arg \in DOMAIN SlashWords => SlashWords[T[i].arg] \in S)
  BY <1>2
<1> HIDE DEF n, step, bare, S
<1>7. Skip(1).used = 1 /\ \A t : Keep(t).used = 1
  BY DEF Skip, Keep
<1>8. Keeps(T, bare, TakesPathArg, TakesArg)
  <2> SUFFICES ASSUME NEW i \in 1 .. n
               PROVE  /\ \/ bare[i] = Skip(1) /\ T[i].opt \notin ReadOptions
                         \/ bare[i] = Skip(2) /\ T[i].opt \notin ReadOptions /\ IsBare(T[i], TakesPathArg)
                         \/ bare[i] = Keep(T[i]) /\ ~IsBare(T[i], TakesArg)
                         \/ bare[i] = KeepTwo(T[i], T[i + 1]) /\ IsBare(T[i], TakesPathArg)
                      /\ IsWord(T[i]) => bare[i].used = 1
    BY <1>2 DEF Keeps
  <2>1. CASE IsWord(T[i])
    <3>1. T[i].opt \notin ReadOptions
      BY <1>1, <2>1 DEF IsWord, NoWord
    <3>2. QED
      BY <1>4, <1>7, <2>1, <3>1
  <2>2. CASE ~IsWord(T[i])
    BY <1>3, <1>4, <2>2
  <2>3. QED
    BY <2>1, <2>2
<1>9. /\ Scan(bare) \in Seq(ToSet(T)) /\ Readable(Scan(bare), TakesArg) /\ Said(Scan(bare)) = Said(T)
  <2>1. DOMAIN bare = DOMAIN T /\ bare = [i \in DOMAIN T |-> bare[i]]
    BY <1>2, <1>4
  <2>2. QED
    BY <1>1, <1>8, <2>1, LoopKeeps
<1>10. ASSUME NEW i \in 1 .. n
       PROVE  /\ step[i] \in Steps(S) /\ bare[i] \in Steps(S)
              /\ step[i].used \in {1, 2} /\ bare[i].used = step[i].used
              /\ step[i].used = 2 => IsBare(T[i], TakesPathArg)
              /\ IsWord(T[i]) => step[i].used = 1
              /\ step[i].out = bare[i].out \/ (i - 1 \in 1 .. n /\ step[i - 1].used = 2)
  <2>1. CASE ~IsWord(T[i])
    <3>1. bare[i] = step[i]
      BY <1>4, <2>1
    <3>2. IsBare(T[i], TakesPathArg) => T[i + 1] \in S
      BY <1>2, <1>6
    <3>3. step[i] \in Steps(S) /\ step[i].used \in {1, 2} /\ (step[i].used = 2 => IsBare(T[i], TakesPathArg))
      <4>1. T[i] \in S
        BY <1>6
      <4>2. CASE step[i] = Skip(1)
        <5>1. Skip(1) \in Steps(S)
          BY StepFields
        <5>2. QED
          BY <1>7, <4>2, <5>1
      <4>3. CASE step[i] = Keep(T[i])
        <5>1. Keep(T[i]) \in Steps(S)
          BY <4>1, StepFields
        <5>2. QED
          BY <1>7, <4>3, <5>1
      <4>4. CASE step[i] = KeepTwo(T[i], T[i + 1]) /\ IsBare(T[i], TakesPathArg)
        <5> DEFINE t == T[i]
                   u == T[i + 1]
        <5>1. t \in S /\ u \in S /\ step[i] = KeepTwo(t, u)
          BY <3>2, <4>1, <4>4
        <5> HIDE DEF t, u
        <5>2. KeepTwo(t, u) \in Steps(S) /\ KeepTwo(t, u).used = 2
          BY <5>1, StepFields, Zenon
        <5>3. QED
          BY <4>4, <5>1, <5>2
      <4>5. QED
        BY <1>3, <1>4, <2>1, <4>2, <4>3, <4>4
    <3>4. QED
      BY <2>1, <3>1, <3>3
  <2>2. CASE IsWord(T[i])
    <3>1. bare[i] = Skip(1) /\ Skip(1) \in Steps(S) /\ Skip(1).out = <<>> /\ Skip(1).used = 1
      BY <1>4, <2>2, StepFields
    <3>2. CASE step[i] = Skip(1)
      BY <3>1, <3>2
    <3>3. CASE /\ T[i].arg \in DOMAIN SlashWords /\ step[i] = Keep(SlashWords[T[i].arg])
               /\ i - 1 \in 1 .. n /\ IsBare(T[i - 1], KeptApart)
      <4>1. step[i] \in Steps(S) /\ step[i].used = 1
        <5> DEFINE t == SlashWords[T[i].arg]
        <5>1. t \in S /\ step[i] = Keep(t)
          BY <1>6, <2>2, <3>3
        <5> HIDE DEF t
        <5>2. Keep(t) \in Steps(S) /\ Keep(t).used = 1
          BY <5>1, StepFields
        <5>3. QED
          BY <5>1, <5>2
      <4>2. step[i - 1].used = 2
        <5> DEFINE j == i - 1
        <5>1. j \in 1 .. n /\ step[j] = KeepTwo(T[j], T[j + 1])
          BY <1>3, <1>4, <3>3
        <5> HIDE DEF j
        <5>2. step[j].used = 2
          BY <5>1 DEF KeepTwo
        <5>3. QED
          BY <5>2 DEF j
      <4>3. QED
        BY <3>1, <3>3, <4>1, <4>2
    <3>4. QED
      BY <1>3, <1>4, <2>2, <3>2, <3>3
  <2>3. QED
    BY <2>1, <2>2
<1>11. ASSUME NEW i \in 1 .. n, i + 1 \in 1 .. n, step[i].used = 2 PROVE step[i + 1].used = 1
  <2>1. IsWord(T[i + 1])
    BY <1>2, <1>10, <1>11
  <2>2. QED
    BY <1>10, <1>11, <2>1
<1>12. /\ step \in Seq(Steps(S)) /\ Len(step) = n /\ Local(step)
       /\ bare \in Seq(Steps(S)) /\ Len(bare) = n /\ Local(bare)
  <2>5. ASSUME NEW f, f = [i \in 1 .. n |-> f[i]], \A i \in 1 .. n : f[i] \in Steps(S)
        PROVE  f \in Seq(Steps(S)) /\ Len(f) = n
    BY <1>2, <2>5
  <2>6. step \in Seq(Steps(S)) /\ Len(step) = n
    BY <1>4, <1>10, <2>5
  <2>7. bare \in Seq(Steps(S)) /\ Len(bare) = n
    BY <1>4, <1>10, <2>5
  <2>1. /\ step \in Seq(Steps(S)) /\ Len(step) = n
        /\ bare \in Seq(Steps(S)) /\ Len(bare) = n
    BY <2>6, <2>7
  <2>2. Local(step)
    BY <1>4, <1>10, <1>11 DEF Local
  <2>3. Local(bare)
    BY <1>4, <1>10, <1>11 DEF Local
  <2>4. QED
    BY <2>1, <2>2, <2>3
<1>13. Scan(step) = Scan(bare)
  <2>1. \A i \in 1 .. Len(step) :
           /\ step[i].used = bare[i].used
           /\ step[i].out = bare[i].out \/ (i - 1 \in 1 .. Len(step) /\ step[i - 1].used = 2)
    BY <1>10, <1>12
  <2>2. QED
    BY <1>12, <2>1, PassedOver
<1>14. QED
  BY <1>5, <1>9, <1>13

(* What _fix_flags leaves can be read, and says the same; no option goes.  *)
LEMMA FixKeeps ==
    ASSUME NEW T, Readable(T, TakesPathArg)
    PROVE  /\ Readable(FixFlags(T), TakesPathArg) /\ Said(FixFlags(T)) = Said(T)
           /\ \A t \in ToSet(T) : \E x \in ToSet(FixFlags(T)) : x.opt = t.opt
<1> DEFINE n == Len(T)
           seqs == [i \in DOMAIN T |-> FixFlag(T[i])]
           Fixed(i) == T[i].opt = "-include" /\ T[i].arg # ""
           W(i) == Word(T[i].arg)
           S == ToSet(T) \cup {Bare("-include")} \cup {W(i) : i \in DOMAIN T}
           F == FixFlags(T)
           options == TakesPathArg
<1>1. NoWord(options) /\ ReadOptions \subseteq options /\ "-include" \in options /\ NoWord(ReadOptions)
      /\ "-include" \in ReadOptions /\ ~IsWord(Bare("-include"))
  BY DEF NoWord, TakesPathArg, ReadOptions, IsWord, Bare
<1>2. /\ T \in Seq(ToSet(T)) /\ n \in Nat /\ DOMAIN T = 1 .. n
      /\ \A i \in 1 .. n :
           /\ IsToken(T[i])
           /\ IsWord(T[i]) => ~IsBare(T[i], options)
           /\ IsBare(T[i], options) => WordFollows(T, i) /\ i + 1 \in 1 .. n /\ IsWord(T[i + 1])
  BY <1>1, ReadableTokens
<1>3. /\ DOMAIN seqs = 1 .. n /\ F = FlattenSeq(seqs) /\ seqs = [i \in 1 .. n |-> seqs[i]]
      /\ \A i \in 1 .. n : seqs[i] = IF Fixed(i) THEN <<Bare("-include"), W(i)>> ELSE <<T[i]>>
  <2>1. ASSUME NEW t
        PROVE  FixFlag(t) = IF t.opt = "-include" /\ t.arg # "" THEN <<Bare("-include"), Word(t.arg)>>
                            ELSE <<t>>
    <3>1. t.opt \in IncludeFamily \ {"-include-pch"} /\ ~IsBare(t, IncludeFamily)
            <=> t.opt = "-include" /\ t.arg # ""
      BY DEF IncludeFamily, IsBare
    <3>2. QED
      BY <3>1 DEF FixFlag
  <2>2. \A i \in 1 .. n : seqs[i] = FixFlag(T[i])
    BY <1>2
  <2>3. \A i \in 1 .. n : seqs[i] = IF Fixed(i) THEN <<Bare("-include"), W(i)>> ELSE <<T[i]>>
    BY <2>1, <2>2
  <2>4. QED
    BY <1>2, <2>3 DEF FixFlags
<1>4. /\ Bare("-include") \in S /\ \A i \in 1 .. n : T[i] \in S /\ W(i) \in S
  BY <1>2 DEF ToSet
<1>5. ASSUME NEW i \in 1 .. n
      PROVE  /\ Fixed(i) => Joined("-include", W(i).arg) = T[i] /\ W(i).opt = "" /\ W(i).arg # ""
                            /\ IsToken(W(i)) /\ IsWord(W(i))
             /\ T[i].arg = "" => ~Fixed(i)
             /\ IsWord(T[i]) => ~Fixed(i)
  <2>1. IsToken(T[i])
    BY <1>2
  <2>2. T[i] = [opt |-> T[i].opt, arg |-> T[i].arg]
    BY <2>1 DEF IsToken
  <2>3. Fixed(i) => Joined("-include", W(i).arg) = T[i]
    BY <2>2 DEF Joined, Word
  <2>4. Fixed(i) => W(i).opt = "" /\ W(i).arg # "" /\ IsToken(W(i)) /\ IsWord(W(i))
    BY DEF Word, IsToken, IsWord
  <2>5. QED
    BY <2>3, <2>4 DEF IsWord
<1> HIDE DEF n, seqs, Fixed, W, S, F, options
<1>6. \A i \in 1 .. n : seqs[i] \in Seq(S)
  <2> SUFFICES ASSUME NEW i \in 1 .. n PROVE seqs[i] \in Seq(S)
    OBVIOUS
  <2> DEFINE b == Bare("-include")
             w == W(i)
             t == T[i]
  <2>1. b \in S /\ w \in S /\ t \in S
    BY <1>4
  <2>2. seqs[i] = <<b, w>> \/ seqs[i] = <<t>>
    BY <1>3
  <2> HIDE DEF b, w, t
  <2>3. <<b, w>> \in Seq(S) /\ <<t>> \in Seq(S)
    BY <2>1
  <2>4. QED
    BY <2>2, <2>3
<1>7. seqs \in Seq(Seq(S)) /\ Len(seqs) = n
  BY <1>2, <1>3, <1>6
<1>8. PICK at : PutAt(at, seqs)
  BY <1>7, FlattenPlaces
<1>9. /\ at \in [0 .. n -> Nat] /\ DOMAIN F = 1 .. at[n]
      /\ \A i \in 1 .. n : at[i] = at[i - 1] + Len(seqs[i])
      /\ \A i \in 1 .. n : \A k \in 1 .. Len(seqs[i]) :
           at[i - 1] + k \in 1 .. at[n] /\ F[at[i - 1] + k] = seqs[i][k]
      /\ \A p \in 1 .. at[n] : \E i \in 1 .. n : \E k \in 1 .. Len(seqs[i]) : p = at[i - 1] + k
  BY <1>3, <1>7, <1>8 DEF PutAt
<1>10. F \in Seq(S) /\ Len(F) = at[n] /\ at[n] \in Nat
  <2>1. F \in Seq(S)
    BY <1>3, <1>7, FlattenTyped
  <2>2. QED
    BY <1>2, <1>9, <2>1
<1>11. ASSUME NEW i \in 1 .. n
       PROVE  /\ at[i - 1] \in Nat /\ at[i - 1] + 1 \in 1 .. at[n]
              /\ Fixed(i) => /\ Len(seqs[i]) = 2 /\ at[i - 1] + 2 \in 1 .. at[n] /\ at[i] = at[i - 1] + 2
                             /\ F[at[i - 1] + 1] = Bare("-include") /\ F[at[i - 1] + 2] = W(i)
              /\ ~Fixed(i) => Len(seqs[i]) = 1 /\ F[at[i - 1] + 1] = T[i] /\ at[i] = at[i - 1] + 1
  <2>1. at[i - 1] \in Nat
    BY <1>2, <1>9
  <2>2. Fixed(i) => Len(seqs[i]) = 2 /\ seqs[i][1] = Bare("-include") /\ seqs[i][2] = W(i)
    BY <1>3, <1>4, TwoElements
  <2>3. ~Fixed(i) => Len(seqs[i]) = 1 /\ seqs[i][1] = T[i]
    BY <1>3, <1>4, OneElement
  <2>4. Len(seqs[i]) \in {1, 2} /\ 1 \in 1 .. Len(seqs[i]) /\ (Len(seqs[i]) = 2 => 2 \in 1 .. Len(seqs[i]))
    BY <2>2, <2>3
  <2>5. at[i - 1] + 1 \in 1 .. at[n] /\ F[at[i - 1] + 1] = seqs[i][1] /\ at[i] = at[i - 1] + Len(seqs[i])
    BY <1>9, <2>4
  <2>6. Fixed(i) => at[i - 1] + 2 \in 1 .. at[n] /\ F[at[i - 1] + 2] = seqs[i][2]
    BY <1>9, <2>2, <2>4
  <2>7. QED
    BY <2>1, <2>2, <2>3, <2>5, <2>6
(* The first token of a block, and the second of a block that has one.     *)
<1>12. ASSUME NEW i \in 1 .. n
       PROVE  LET p == at[i - 1] + 1 IN
              /\ p \in DOMAIN F /\ IsToken(F[p])
              /\ IsBare(F[p], options) => WordFollows(F, p)
              /\ F[p].opt \in ReadOptions <=> T[i].opt \in ReadOptions
              /\ F[p].opt \in ReadOptions => Says(F, p) = Says(T, i)
              /\ F[p] = T[i] \/ F[p] = Bare("-include")
  <2> DEFINE p == at[i - 1] + 1
  <2>1. p \in DOMAIN F /\ p \in Nat
    BY <1>9, <1>11
  <2>2. CASE Fixed(i)
    <3>1. /\ F[p] = Bare("-include") /\ p + 1 \in 1 .. at[n] /\ F[p + 1] = W(i) /\ p < Len(F)
      <4>1. at[i - 1] \in Nat /\ at[i - 1] + 2 \in 1 .. at[n] /\ F[p] = Bare("-include")
            /\ F[at[i - 1] + 2] = W(i)
        BY <1>11, <2>2
      <4>2. p + 1 = at[i - 1] + 2
        BY <4>1
      <4> HIDE DEF p
      <4>3. QED
        BY <1>10, <2>1, <4>1, <4>2
    <3>2. WordFollows(F, p)
      BY <1>5, <2>2, <3>1 DEF WordFollows
    <3>3. F[p].opt = "-include" /\ F[p].arg = "" /\ IsToken(F[p])
      <4>1. Bare("-include").opt = "-include" /\ Bare("-include").arg = "" /\ IsToken(Bare("-include"))
        BY DEF Bare, IsToken, IsWord
      <4> HIDE DEF p
      <4>2. QED
        BY <3>1, <4>1
    <3>4. T[i].opt = "-include" /\ T[i].arg # ""
      BY <2>2 DEF Fixed
    <3>5. Says(F, p) = T[i] /\ Says(T, i) = T[i]
      <4>1. Says(F, p) = Joined("-include", W(i).arg)
        BY <3>1, <3>3 DEF Says
      <4>2. QED
        BY <1>5, <2>2, <3>4, <4>1 DEF Says
    <3> HIDE DEF p
    <3>6. QED
      BY <1>1, <2>1, <3>1, <3>2, <3>3, <3>4, <3>5 DEF p
  <2>3. CASE ~Fixed(i)
    <3>1. F[p] = T[i] /\ at[i] = p /\ IsToken(T[i])
      BY <1>2, <1>11, <2>3
    <3>2. ASSUME IsBare(T[i], options)
          PROVE  WordFollows(F, p) /\ F[p + 1] = T[i + 1]
      <4>1. i + 1 \in 1 .. n /\ IsWord(T[i + 1])
        BY <1>2, <3>2
      <4> DEFINE j == i + 1
      <4>2. j \in 1 .. n /\ j - 1 = i /\ ~Fixed(j)
        <5>1. j \in 1 .. n /\ IsWord(T[j])
          BY <4>1
        <5>2. j - 1 = i
          BY <1>2
        <5> HIDE DEF j
        <5>3. QED
          BY <1>5, <5>1, <5>2
      <4> HIDE DEF j, p
      <4>3. F[at[j - 1] + 1] = T[j] /\ at[j - 1] + 1 \in 1 .. at[n]
        BY <1>11, <4>2
      <4>4. F[p + 1] = T[j] /\ p + 1 \in 1 .. at[n]
        BY <3>1, <4>2, <4>3
      <4>5. p < Len(F)
        BY <1>10, <2>1, <4>4
      <4>6. QED
        BY <4>1, <4>4, <4>5 DEF WordFollows, j
    <3>3. ASSUME T[i].opt \in ReadOptions PROVE Says(F, p) = Says(T, i)
      <4>1. CASE T[i].arg = ""
        <5>1. IsBare(T[i], options)
          BY <1>1, <3>3, <4>1 DEF IsBare
        <5>2. QED
          BY <3>1, <3>2, <5>1 DEF Says
      <4>2. CASE T[i].arg # ""
        BY <3>1, <4>2 DEF Says
      <4>3. QED
        BY <4>1, <4>2
    <3> HIDE DEF p
    <3>4. QED
      BY <2>1, <3>1, <3>2, <3>3 DEF p
  <2>4. QED
    BY <2>2, <2>3
<1>13. ASSUME NEW i \in 1 .. n, Fixed(i)
       PROVE  LET p == at[i - 1] + 2 IN
              F[p] = W(i) /\ IsToken(F[p]) /\ ~IsBare(F[p], options) /\ F[p].opt \notin ReadOptions
              /\ F[p].opt = ""
  <2> DEFINE p == at[i - 1] + 2
  <2>1. F[p] = W(i)
    BY <1>11, <1>13
  <2>2. W(i).opt = "" /\ IsToken(W(i))
    BY <1>5, <1>13
  <2>3. ~IsBare(W(i), options) /\ W(i).opt \notin ReadOptions
    BY <1>1, <2>2 DEF IsBare, NoWord
  <2> HIDE DEF p
  <2>4. QED
    BY <2>1, <2>2, <2>3 DEF p
<1>14. ASSUME NEW p \in DOMAIN F
       PROVE  \E i \in 1 .. n : p = at[i - 1] + 1 \/ (Fixed(i) /\ p = at[i - 1] + 2)
  <2>1. PICK i \in 1 .. n : \E k \in 1 .. Len(seqs[i]) : p = at[i - 1] + k
    BY <1>9
  <2>2. PICK k \in 1 .. Len(seqs[i]) : p = at[i - 1] + k
    BY <2>1
  <2>3. k = 1 \/ (Fixed(i) /\ k = 2)
    <3>1. (Fixed(i) => Len(seqs[i]) = 2) /\ (~Fixed(i) => Len(seqs[i]) = 1)
      BY <1>11
    <3> DEFINE l == Len(seqs[i])
    <3> HIDE DEF l
    <3>2. k \in 1 .. l
      BY DEF l
    <3>3. (l = 1 => k = 1) /\ (l = 2 => k = 1 \/ k = 2)
      BY <3>2
    <3>4. QED
      BY <3>1, <3>3 DEF l
  <2>4. QED
    BY <2>2, <2>3
<1>15. Readable(F, TakesPathArg)
  <2>1. IsList(F)
    BY <1>10, SequencesAreLists
  <2>2. ASSUME NEW p \in DOMAIN F PROVE IsToken(F[p]) /\ (IsBare(F[p], options) => WordFollows(F, p))
    BY <1>12, <1>13, <1>14
  <2>3. QED
    BY <2>1, <2>2 DEF Readable, options
<1>16. Said(F) = Said(T)
  <2>1. ASSUME NEW x \in Said(F) PROVE x \in Said(T)
    <3>1. PICK p \in DOMAIN F : F[p].opt \in ReadOptions /\ x = Says(F, p)
      BY DEF Said
    <3>2. PICK i \in 1 .. n : p = at[i - 1] + 1
      BY <1>13, <1>14, <3>1
    <3>3. T[i].opt \in ReadOptions /\ x = Says(T, i)
      BY <1>12, <3>1, <3>2
    <3>4. QED
      BY <1>2, <3>3 DEF Said
  <2>2. ASSUME NEW x \in Said(T) PROVE x \in Said(F)
    <3>1. PICK i \in 1 .. n : T[i].opt \in ReadOptions /\ x = Says(T, i)
      BY <1>2 DEF Said
    <3> DEFINE p == at[i - 1] + 1
    <3>2. p \in DOMAIN F /\ F[p].opt \in ReadOptions /\ Says(F, p) = x
      BY <1>12, <3>1
    <3> HIDE DEF p
    <3>3. QED
      BY <3>2 DEF Said
  <2>3. QED
    BY <2>1, <2>2
<1>17. ASSUME NEW t \in ToSet(T) PROVE \E x \in ToSet(F) : x.opt = t.opt
  <2>1. PICK i \in 1 .. n : t = T[i]
    BY <1>2 DEF ToSet
  <2> DEFINE p == at[i - 1] + 1
  <2>2. p \in DOMAIN F /\ F[p].opt = t.opt
    <3>1. p \in DOMAIN F
      BY <1>9, <1>11
    <3>2. CASE Fixed(i)
      <4>1. F[p] = Bare("-include") /\ t.opt = "-include"
        BY <1>11, <2>1, <3>2 DEF Fixed
      <4>2. Bare("-include").opt = "-include"
        BY DEF Bare
      <4>3. QED
        BY <3>1, <4>1, <4>2
    <3>3. CASE ~Fixed(i)
      BY <1>11, <2>1, <3>1, <3>3
    <3>4. QED
      BY <3>1, <3>2, <3>3
  <2> HIDE DEF p
  <2>3. F[p] \in ToSet(F)
    BY <2>2 DEF ToSet
  <2>4. QED
    BY <2>2, <2>3
<1>18. QED
  BY <1>15, <1>16, <1>17 DEF F

LEMMA TwoListsRead ==
    ASSUME NEW s, NEW t, Readable(s, TakesArg), Readable(t, TakesArg)
    PROVE  Readable(s \o t, TakesArg) /\ Said(s \o t) = Said(s) \cup Said(t)
           /\ ToSet(s \o t) = ToSet(s) \cup ToSet(t)
<1> DEFINE S == ToSet(s) \cup ToSet(t)
           seqs == <<s, t>>
           options == TakesArg
<1>0. ReadOptions \subseteq options
  BY DEF ReadOptions, TakesArg, TakesPathArg
<1> HIDE DEF options
<1>1. s \in Seq(S) /\ t \in Seq(S)
  <2>1. s \in Seq(ToSet(s)) /\ t \in Seq(ToSet(t))
    BY DEF Readable, IsList, ToSet
  <2>2. QED
    BY <2>1
<1> HIDE DEF S
<1>2. seqs \in Seq(Seq(S)) /\ Len(seqs) = 2 /\ seqs[1] = s /\ seqs[2] = t
  BY <1>1
<1> HIDE DEF seqs
<1>3. PICK h : PutTogether(h, seqs) /\ \A i \in 1 .. 2 : h[i] \in Seq(S)
  <2>1. Len(seqs) # 0
    BY <1>2
  <2>2. QED
    BY <1>2, <2>1, FlattenRuns
<1>4. FlattenSeq(seqs) = s \o t
  <2>1. h[1] = seqs[1] /\ (\A i \in 1 .. 2 : i # 1 => h[i] = h[i - 1] \o seqs[i]) /\ FlattenSeq(seqs) = h[2]
    BY <1>2, <1>3 DEF PutTogether
  <2>2. h[2] = h[1] \o seqs[2]
    <3>1. 2 \in 1 .. 2 /\ 2 # 1 /\ 2 - 1 = 1
      OBVIOUS
    <3>2. h[2] = h[2 - 1] \o seqs[2]
      BY <2>1, <3>1
    <3>3. QED
      BY <3>1, <3>2
  <2>3. QED
    BY <1>2, <2>1, <2>2
<1>5. \A i \in 1 .. 2 : i = 1 \/ i = 2
  OBVIOUS
<1>6. /\ Readable(FlattenSeq(seqs), options)
      /\ Said(FlattenSeq(seqs)) = UNION {Said(seqs[i]) : i \in 1 .. 2}
  <2>1. \A i \in 1 .. 2 : Readable(seqs[i], options)
    BY <1>2, <1>5 DEF options
  <2>2. QED
    BY <1>0, <1>2, <2>1, BlocksRead
<1>7. UNION {Said(seqs[i]) : i \in 1 .. 2} = Said(s) \cup Said(t)
  <2>1. 1 \in 1 .. 2 /\ 2 \in 1 .. 2
    OBVIOUS
  <2>2. QED
    BY <1>2, <1>5, <2>1
<1>8. ToSet(s \o t) = ToSet(s) \cup ToSet(t)
  BY <1>1, ToSetConcat
<1>9. QED
  BY <1>4, <1>6, <1>7, <1>8 DEF options

(* Options that say nothing of headers.                                    *)
LEMMA QuietOptions ==
    ASSUME NEW t, IsToken(t), t.opt \notin ReadOptions
    PROVE  /\ ~IsBare(t, TakesArg) => Readable(<<t>>, TakesArg) /\ Said(<<t>>) = {}
           /\ \A u : IsToken(u) /\ IsWord(u) => Readable(<<t, u>>, TakesArg) /\ Said(<<t, u>>) = {}
<1>1. NoWord(TakesArg) /\ ~IsBare(t, ReadOptions)
  BY DEF NoWord, TakesArg, TakesPathArg, IsBare
<1>2. QED
  BY <1>1, ShortLists

(* The flags that walk parses with say of headers what the flag map says.  *)
LEMMA ParseKeeps ==
    ASSUME NEW T, Readable(T, TakesPathArg), WalkKnows(T)
    PROVE  /\ Readable(ParseFlags(T), TakesArg) /\ Said(ParseFlags(T)) = Said(T)
           /\ \A x \in ToSet(ParseFlags(T)) : x.opt \in SearchOptions => x \in ToSet(T)
<1> DEFINE cleaned == CleanedFlags(T)
           a == <<Bare("-x"), Word("c++")>>
           b == IF \E i \in DOMAIN cleaned : cleaned[i].opt = "-std=" THEN <<>>
                ELSE <<Joined("-std=", "c++17")>>
           c == <<Bare("-Wno-everything")>>
<1>1. ParseFlags(T) = cleaned \o a \o b \o c
  BY DEF ParseFlags
<1>2. Readable(cleaned, TakesArg) /\ Said(cleaned) = Said(T)
  BY CleanKeeps
<1>13. \A x \in ToSet(a) \cup ToSet(b) \cup ToSet(c) : x.opt \notin SearchOptions
  <2> DEFINE x1 == Bare("-x")
             x2 == Word("c++")
             x3 == Joined("-std=", "c++17")
             x4 == Bare("-Wno-everything")
  <2>1. /\ a = <<x1, x2>> /\ (b = <<>> \/ b = <<x3>>) /\ c = <<x4>>
    OBVIOUS
  <2>2. /\ x1.opt \notin SearchOptions /\ x2.opt \notin SearchOptions
        /\ x3.opt \notin SearchOptions /\ x4.opt \notin SearchOptions
    BY DEF Bare, Word, Joined, SearchOptions
  <2> HIDE DEF a, b, c, x1, x2, x3, x4
  <2>3. /\ ToSet(a) = {x1, x2} /\ ToSet(c) = {x4} /\ ToSet(b) \subseteq {x3}
    <3>1. ToSet(<<x1, x2>>) = {x1, x2}
      BY TwoElementSet
    <3>2. ToSet(<<x3>>) = {x3} /\ ToSet(<<x4>>) = {x4} /\ ToSet(<<>>) = {}
      BY OneElement, NoElement
    <3>3. QED
      BY <2>1, <3>1, <3>2
  <2>4. QED
    BY <2>2, <2>3
<1>14. ToSet(cleaned) \subseteq ToSet(T)
  <2>1. cleaned \in Seq(ToSet(T))
    BY CleanKeeps
  <2>2. QED
    BY <2>1 DEF ToSet
<1>3. ReadOptions \subseteq TakesArg /\ NoWord(TakesArg)
  BY DEF ReadOptions, TakesArg, TakesPathArg, NoWord
<1>4. Readable(a, TakesArg) /\ Said(a) = {}
  <2> DEFINE t == Bare("-x")
             u == Word("c++")
  <2>1. IsToken(t) /\ t.opt \notin ReadOptions /\ IsToken(u) /\ IsWord(u)
    BY DEF Bare, Word, IsToken, IsWord, ReadOptions
  <2> HIDE DEF t, u
  <2>2. Readable(<<t, u>>, TakesArg) /\ Said(<<t, u>>) = {}
    BY <2>1, QuietOptions
  <2>3. QED
    BY <2>2 DEF t, u
<1>5. Readable(b, TakesArg) /\ Said(b) = {}
  <2> DEFINE t == Joined("-std=", "c++17")
  <2>1. IsToken(t) /\ t.opt \notin ReadOptions /\ ~IsBare(t, TakesArg)
    BY DEF Joined, IsToken, IsWord, ReadOptions, IsBare
  <2>2. b = <<>> \/ b = <<t>>
    OBVIOUS
  <2> HIDE DEF t, b
  <2>3. Readable(<<t>>, TakesArg) /\ Said(<<t>>) = {} /\ Readable(<<>>, TakesArg) /\ Said(<<>>) = {}
    BY <1>3, <2>1, QuietOptions, ShortLists
  <2>4. QED
    BY <2>2, <2>3
<1>6. Readable(c, TakesArg) /\ Said(c) = {}
  <2> DEFINE t == Bare("-Wno-everything")
  <2>1. IsToken(t) /\ t.opt \notin ReadOptions /\ ~IsBare(t, TakesArg)
    BY DEF Bare, IsToken, IsWord, ReadOptions, IsBare, TakesArg, TakesPathArg
  <2> HIDE DEF t
  <2>2. Readable(<<t>>, TakesArg) /\ Said(<<t>>) = {}
    BY <2>1, QuietOptions
  <2>3. QED
    BY <2>2 DEF t
<1> HIDE DEF cleaned, a, b, c
<1>7. /\ Readable(cleaned \o a, TakesArg) /\ Said(cleaned \o a) = Said(T)
      /\ ToSet(cleaned \o a) \subseteq ToSet(T) \cup ToSet(a)
  BY <1>2, <1>4, <1>14, TwoListsRead
<1> DEFINE ca == cleaned \o a
           cab == ca \o b
<1> HIDE DEF ca
<1>8. /\ Readable(cab, TakesArg) /\ Said(cab) = Said(T)
      /\ ToSet(cab) \subseteq ToSet(T) \cup ToSet(a) \cup ToSet(b)
  <2>1. /\ Readable(ca, TakesArg) /\ Said(ca) = Said(T)
        /\ ToSet(ca) \subseteq ToSet(T) \cup ToSet(a)
    BY <1>7 DEF ca
  <2>2. QED
    BY <1>5, <2>1, TwoListsRead
<1> HIDE DEF cab
<1>9. /\ Readable(cab \o c, TakesArg) /\ Said(cab \o c) = Said(T)
      /\ ToSet(cab \o c) \subseteq ToSet(T) \cup ToSet(a) \cup ToSet(b) \cup ToSet(c)
  BY <1>6, <1>8, TwoListsRead
<1>10. \A x \in ToSet(ParseFlags(T)) : x.opt \in SearchOptions => x \in ToSet(T)
  BY <1>1, <1>9, <1>13 DEF ca, cab
<1>11. QED
  BY <1>1, <1>9, <1>10 DEF ca, cab

(* What is loaded from a command that can be read.                         *)
LEMMA ExtractKeeps ==
    ASSUME NEW e, Readable(e.argv, TakesArg)
    PROVE  /\ Readable(ExtractFlags(e), TakesPathArg) /\ Said(ExtractFlags(e)) = Said(e.argv)
           /\ \A t \in ToSet(e.argv) : t.opt \in SearchOptions =>
                \E x \in ToSet(ExtractFlags(e)) : x.opt = t.opt
<1> DEFINE stripped == StripNonFlags(e.argv)
<1>1. /\ stripped \in Seq(ToSet(e.argv)) /\ Readable(stripped, TakesPathArg) /\ Said(stripped) = Said(e.argv)
      /\ \A t \in ToSet(e.argv) : t.opt \in SearchOptions => t \in ToSet(stripped)
  BY StripKeeps
<1> HIDE DEF stripped
<1>2. /\ Readable(FixFlags(stripped), TakesPathArg) /\ Said(FixFlags(stripped)) = Said(stripped)
      /\ \A t \in ToSet(stripped) : \E x \in ToSet(FixFlags(stripped)) : x.opt = t.opt
  BY <1>1, FixKeeps
<1>3. ExtractFlags(e) = FixFlags(stripped)
  BY DEF ExtractFlags, stripped
<1>4. QED
  BY <1>1, <1>2, <1>3

-----------------------------------------------------------------------------
(* The flag map, once loaded, is that of the content that was read.        *)
LoadedInv == pc # "load" => flag_map = FlagMaps[Db(read)]

LEMMA LoadedInvHolds == Spec => []LoadedInv
<1>1. Init => LoadedInv
  BY DEF Init, PchInit, LoadedInv
<1>2. ASSUME LoadedInv, [Next]_vars
      PROVE  LoadedInv'
  <2>1. CASE Load
    BY <2>1 DEF Load, LoadedInv, Db
  <2>2. CASE AskStale \/ ParseUmbrella \/ SavePch \/ StampPch \/ EditDb
    BY <1>2, <2>2 DEF AskStale, ParseUmbrella, SavePch, StampPch, EditDb, LoadedInv, Db, readVars
  <2>3. ASSUME NEW file \in unscanned, ScanArrives(file)
        PROVE  LoadedInv'
    BY <1>2, <2>3 DEF ScanArrives, LoadedInv, Db, readVars
  <2>4. CASE Restart
    BY <2>4 DEF Restart, StartRun, LoadedInv
  <2>5. ASSUME UNCHANGED <<project, readVars>>, pc' = pc \/ (pc # "load" /\ pc' # "load")
        PROVE  LoadedInv'
    BY <1>2, <2>5 DEF LoadedInv, Db, readVars
  <2>6. CASE StartPool \/ EndWalk \/ OpenManifest \/ DumpManifest
    BY <2>5, <2>6 DEF StartPool, EndWalk, OpenManifest, DumpManifest
  <2>7. CASE TakeResult \/ MergeRecord
    BY <2>5, <2>7 DEF TakeResult, MergeRecord, pchVars, diskVars, readVars, scanVars
  <2>8. ASSUME NEW w \in Workers, Worker(w) \/ WorkerDies(w)
        PROVE  LoadedInv'
    BY <2>5, <2>8 DEF Worker, TakeChunk, ReturnChunk, WorkerDies, pchVars, diskVars, readVars, scanVars
  <2>9. CASE UNCHANGED vars
    BY <2>5, <2>9 DEF vars, pchVars, diskVars, readVars, scanVars
  <2>10. QED
    BY <1>2, <2>1, <2>2, <2>3, <2>4, <2>6, <2>7, <2>8, <2>9 DEF Next, Main, PchStep
<1>3. QED
  BY <1>1, <1>2, PTL DEF Spec

(* The last entry of a file is one of its entries.                         *)
LEMMA LastEntryIsOne ==
    ASSUME NEW S, NEW db \in Seq(S), NEW f \in {db[i].file : i \in DOMAIN db}
    PROVE  LastEntry(db, f) \in DOMAIN db /\ db[LastEntry(db, f)].file = f
<1> DEFINE K == EntriesOf(db, f)
           R == {p \in K \X K : p[1] > p[2]}
<1>1. K \in SUBSET (1 .. Len(db)) /\ Len(db) \in Nat /\ K # {} /\ DOMAIN db = 1 .. Len(db)
  BY DEF EntriesOf
<1>2. IsFiniteSet(K)
  <2>1. K \in SUBSET DOMAIN db
    BY <1>1
  <2> HIDE DEF K
  <2>2. QED
    BY <2>1, IndicesAreFinite
<1>3. \A i \in K : i \in Nat
  BY <1>1
<1>4. \A i, j \in K : <<i, j>> \in R <=> i > j
  OBVIOUS
<1> HIDE DEF K, R
<1>5. StrictTotalOrder(R, K)
  BY <1>3, <1>4 DEF StrictTotalOrder
<1>6. PICK i \in K : \A j \in K : i = j \/ <<i, j>> \in R
  BY <1>1, <1>2, <1>5, LeastExists
<1>7. \A j \in K : j <= i
  <2> SUFFICES ASSUME NEW j \in K PROVE j <= i
    OBVIOUS
  <2>1. i \in Nat /\ j \in Nat /\ (i = j \/ i > j)
    BY <1>3, <1>4, <1>6
  <2>2. QED
    BY <2>1
<1>8. LastEntry(db, f) \in K
  BY <1>7 DEF LastEntry, K
<1>9. QED
  BY <1>1, <1>8 DEF EntriesOf, K

(* What the flag map holds for a file comes from a command of the content. *)
LEMMA FlagMapEntries ==
    ASSUME ProjectInv, LoadedInv, pc # "load", NEW f \in DOMAIN FlagMap
    PROVE  Readable(EntryOf(f).argv, TakesArg) /\ FlagMap[f] = ExtractFlags(EntryOf(f))
<1> DEFINE db == Db(read)
<1>1. db \in ToSet(project.dbs) /\ db \in Databases /\ db \in Seq(ToSet(db))
  <2>1. db \in ToSet(project.dbs)
    BY DEF ProjectInv, Contents, ToSet, Db
  <2>2. db \in Databases
    BY <2>1 DEF Databases, ProjectInv
  <2>3. IsList(db)
    BY <2>1, ProjectsAreWhole DEF ProjectInv
  <2>4. QED
    BY <2>1, <2>2, <2>3 DEF IsList, ToSet
<1> HIDE DEF db
<1>2. FlagMap = LoadFlags(db)
  BY <1>1 DEF LoadedInv, FlagMap, FlagMaps, db
<1>3. f \in {db[i].file : i \in DOMAIN db} /\ FlagMap[f] = ExtractFlags(db[LastEntry(db, f)])
  BY <1>2 DEF LoadFlags
<1>4. LastEntry(db, f) \in DOMAIN db
  BY <1>1, <1>3, LastEntryIsOne
<1>5. EntryOf(f) = db[LastEntry(db, f)]
  BY DEF EntryOf, db
<1>6. EntryOf(f) \in ToSet(db)
  BY <1>4, <1>5 DEF ToSet
<1>7. QED
  BY <1>1, <1>3, <1>5, <1>6, CommandsRun

(* For every command line that can be read, however long, and options and  *)
(* words about anything else in it, the loops that strip, fix and clean it *)
(* (compile_db.py:172, compile_db.py:14, walker.py:152) change nothing in  *)
(* the directories, files and macros that libclang works with, as long as  *)
(* the options about these have the forms that walk knows.                 *)
THEOREM FlagsMeanTheSame == Spec => []KeptFlagsMeanTheSame
<1>1. ASSUME ProjectInv, LoadedInv PROVE KeptFlagsMeanTheSame
  <2> SUFFICES ASSUME pc = "walk", NEW f \in DOMAIN FlagMap, WalkKnows(FlagMap[f])
               PROVE  Searched(ParseFlags(FlagMap[f])) = Searched(EntryOf(f).argv)
    BY DEF KeptFlagsMeanTheSame
  <2> DEFINE e == EntryOf(f)
             T == FlagMap[f]
  <2>1. Readable(e.argv, TakesArg) /\ T = ExtractFlags(e) /\ WalkKnows(T)
    BY <1>1, FlagMapEntries
  <2> HIDE DEF e, T
  <2>2. /\ Readable(T, TakesPathArg) /\ Said(T) = Said(e.argv)
        /\ \A t \in ToSet(e.argv) : t.opt \in SearchOptions => \E x \in ToSet(T) : x.opt = t.opt
    BY <2>1, ExtractKeeps
  <2>3. /\ Readable(ParseFlags(T), TakesArg) /\ Said(ParseFlags(T)) = Said(T)
        /\ \A x \in ToSet(ParseFlags(T)) : x.opt \in SearchOptions => x \in ToSet(T)
    BY <2>1, <2>2, ParseKeeps
  <2>4. \A x \in ToSet(T) : x.opt \in SearchOptions => x.opt \in ReadOptions
    <3>1. KeptApart \cup KeptJoined \subseteq ReadOptions
      BY DEF KeptApart, KeptJoined, ReadOptions
    <3>2. QED
      BY <2>1, <3>1 DEF WalkKnows, ToSet
  <2>5. /\ \A x \in ToSet(ParseFlags(T)) : x.opt \in SearchOptions => x.opt \in ReadOptions
        /\ \A t \in ToSet(e.argv) : t.opt \in SearchOptions => t.opt \in ReadOptions
    BY <2>2, <2>3, <2>4
  <2>6. Searched(ParseFlags(T)) = Said(ParseFlags(T)) /\ Searched(e.argv) = Said(e.argv)
    BY <2>1, <2>3, <2>5, SearchedIsSaid
  <2>7. QED
    BY <2>2, <2>3, <2>6 DEF e, T
<1>2. QED
  BY <1>1, ProjectInvHolds, LoadedInvHolds, PTL

-----------------------------------------------------------------------------
(* The flags of the PCH                                                    *)

(* Tokens that stand alone and have what they need.                        *)
Complete(t) == IsToken(t) /\ ~IsBare(t, TakesArg)

LEMMA CompleteTokensRead ==
    ASSUME NEW S, \A t \in S : Complete(t), NEW s \in Seq(S)
    PROVE  Readable(s, TakesArg) /\ \A x \in ToSet(s) : x.opt \in ReadOptions => x \in Said(s)
<1>1. \A i \in DOMAIN s : s[i] \in S
  OBVIOUS
<1>2. IsList(s)
  BY SequencesAreLists
<1>3. Readable(s, TakesArg)
  BY <1>1, <1>2 DEF Readable, Complete
<1>4. ASSUME NEW x \in ToSet(s), x.opt \in ReadOptions PROVE x \in Said(s)
  <2>1. PICK i \in DOMAIN s : x = s[i]
    BY DEF ToSet
  <2>2. Complete(s[i])
    BY <1>1
  <2>3. ReadOptions \subseteq TakesArg
    BY DEF ReadOptions, TakesArg, TakesPathArg
  <2>4. s[i].arg # ""
    BY <1>4, <2>1, <2>2, <2>3 DEF Complete, IsBare
  <2>5. x = Says(s, i)
    BY <2>1, <2>4 DEF Says
  <2>6. QED
    BY <1>4, <2>1, <2>5 DEF Said
<1>5. QED
  BY <1>3, <1>4

(* The loop of build_pch over a TU finds its directories and macros.       *)
LEMMA SpellingKeeps ==
    ASSUME NEW t, Complete(t)
    PROVE  Complete(PchSpelling(t))
<1>1. CASE t.opt = "-I"
  <2>1. t.arg # ""
    BY <1>1 DEF Complete, IsBare, TakesArg, TakesPathArg
  <2>2. Respelt(Posix, t.arg) # ""
    BY <2>1, SpellingsAreNames DEF Respelt
  <2>3. PchSpelling(t) = Joined("-I", Respelt(Posix, t.arg))
    BY <1>1 DEF PchSpelling
  <2> DEFINE a == Respelt(Posix, t.arg)
  <2>4. PchSpelling(t) = Joined("-I", a) /\ a # ""
    BY <2>2, <2>3
  <2> HIDE DEF a
  <2>5. Complete(Joined("-I", a))
    BY <2>4 DEF Complete, Joined, IsToken, IsWord, IsBare
  <2>6. QED
    BY <2>4, <2>5
<1>2. CASE t.opt = "-D"
  <2>1. t.arg # ""
    BY <1>2 DEF Complete, IsBare, TakesArg, TakesPathArg
  <2>2. Respelt(Slashed, t.arg) # ""
    BY <2>1, SpellingsAreNames DEF Respelt
  <2>3. PchSpelling(t) = Joined("-D", Respelt(Slashed, t.arg))
    BY <1>2 DEF PchSpelling
  <2> DEFINE a == Respelt(Slashed, t.arg)
  <2>4. PchSpelling(t) = Joined("-D", a) /\ a # ""
    BY <2>2, <2>3
  <2> HIDE DEF a
  <2>5. Complete(Joined("-D", a))
    BY <2>4 DEF Complete, Joined, IsToken, IsWord, IsBare
  <2>6. QED
    BY <2>4, <2>5
<1>3. CASE t.opt # "-I" /\ t.opt # "-D"
  <2>1. PchSpelling(t) = t
    BY <1>3 DEF PchSpelling
  <2>2. QED
    BY <2>1
<1>4. QED
  BY <1>1, <1>2, <1>3

LEMMA PchFlagsSay ==
    ASSUME NEW T, Readable(T, TakesPathArg), ~Contains(T, Bare("-D"))
    PROVE  /\ PchFlagsOf(T) \in Seq(ToSet(PchFlagsOf(T)))
           /\ \A x \in ToSet(PchFlagsOf(T)) : Complete(x)
           /\ \A x \in Said(T) : x.opt \in {"-I", "-D"} => PchSpelling(x) \in ToSet(PchFlagsOf(T))
<1> DEFINE n == Len(T)
           step == [i \in DOMAIN T |-> PchFlagStep(T, i)]
           J(i) == Joined("-I", T[i + 1].arg)
           U == ToSet(T) \cup {J(i) : i \in DOMAIN T}
           S == {PchSpelling(t) : t \in U}
           added == AllAdded(step)
           PF == PchFlagsOf(T)
<1>1. NoWord(TakesPathArg) /\ ReadOptions \subseteq TakesPathArg
  BY DEF TakesPathArg, ReadOptions, NoWord
<1>2. /\ n \in Nat /\ DOMAIN T = 1 .. n
      /\ \A i \in 1 .. n :
           /\ IsToken(T[i])
           /\ IsBare(T[i], TakesPathArg) => WordFollows(T, i) /\ i + 1 \in 1 .. n /\ IsWord(T[i + 1])
  BY <1>1, ReadableTokens
<1>3. \A i \in 1 .. n : PchSpelling(T[i]) \in S /\ PchSpelling(J(i)) \in S
  BY <1>2 DEF ToSet
<1>4. ASSUME NEW i \in 1 .. n
      PROVE  /\ ~IsBare(T[i], {"-D"})
             /\ IsBare(T[i], {"-I"}) => Complete(J(i)) /\ Text(T[i + 1]) = T[i + 1].arg /\ i < n
  <2>1. ASSUME IsBare(T[i], {"-D"}) PROVE FALSE
    <3>1. T[i] = [opt |-> T[i].opt, arg |-> T[i].arg]
      BY <1>2 DEF IsToken
    <3>2. T[i] = Bare("-D")
      BY <2>1, <3>1 DEF IsBare, Bare
    <3>3. QED
      BY <3>2 DEF Contains, n
  <2>2. ASSUME IsBare(T[i], {"-I"})
        PROVE  Complete(J(i)) /\ Text(T[i + 1]) = T[i + 1].arg /\ i < n
    <3>1. IsBare(T[i], TakesPathArg)
      BY <2>2 DEF IsBare, TakesPathArg
    <3>2. WordFollows(T, i) /\ IsToken(T[i + 1]) /\ IsWord(T[i + 1])
      BY <1>2, <3>1
    <3>3. T[i + 1].arg # ""
      BY <3>2 DEF IsToken
    <3>4. Complete(J(i))
      BY <3>3 DEF Complete, Joined, IsToken, IsWord, IsBare
    <3>5. Text(T[i + 1]) = T[i + 1].arg /\ i < n
      BY <3>2 DEF Text, WordFollows
    <3>6. QED
      BY <3>4, <3>5
  <2>3. QED
    BY <2>1, <2>2
<1> HIDE DEF S, U, J
<1>5. ASSUME NEW i \in 1 .. n
      PROVE  /\ step[i] \in Steps(S) /\ step[i].used \in {1, 2}
             /\ step[i].used = 2 => IsBare(T[i], TakesPathArg)
             /\ IsWord(T[i]) => step[i].used = 1
             /\ \/ step[i].out = <<>> /\ T[i].opt \notin {"-I", "-D"}
                \/ step[i].out = <<PchSpelling(J(i))>> /\ IsBare(T[i], {"-I"})
                \/ step[i].out = <<PchSpelling(T[i])>> /\ Complete(T[i])
  <2> DEFINE t == T[i]
             a == IsBare(t, {"-include"})
             b == JoinsNext(T, i)
             c == WorthKeeping(t) /\ ~JoinsNext(T, i)
             joined == [out |-> <<PchSpelling(Joined("-I", Text(T[i + 1])))>>, used |-> 2]
             u == PchSpelling(t)
  <2>1. step[i] = CASE a -> Skip(2) [] b -> joined [] c -> Keep(u) [] OTHER -> Skip(1)
    <3>1. step[i] = PchFlagStep(T, i)
      BY <1>2
    <3> HIDE DEF step
    <3>2. QED
      BY <3>1, Zenon DEF PchFlagStep
  <2>2. b <=> IsBare(t, {"-I"})
    BY <1>4 DEF JoinsNext
  <2>3. /\ a => IsBare(t, TakesPathArg) /\ t.opt \notin {"-I", "-D"} /\ ~IsWord(t)
        /\ b => IsBare(t, TakesPathArg) /\ ~IsWord(t)
        /\ ~(a /\ b) /\ ~(a /\ c) /\ ~(b /\ c)
    BY <2>2 DEF IsBare, IsWord, TakesPathArg, WorthKeeping
  <2>4. c => Complete(t)
    <3>1. c => ~IsBare(t, TakesArg)
      BY <1>4, <2>2 DEF IsBare, TakesArg, TakesPathArg, WorthKeeping
    <3>2. QED
      BY <1>2, <3>1 DEF Complete
  <2>5. ~a /\ ~b /\ ~c => t.opt \notin {"-I", "-D"}
    BY DEF WorthKeeping
  <2>6. u \in S /\ PchSpelling(J(i)) \in S
    BY <1>3
  <2>7. b => joined = [out |-> <<PchSpelling(J(i))>>, used |-> 2]
    <3>1. b => Joined("-I", Text(T[i + 1])) = J(i)
      BY <1>4, <2>2 DEF J
    <3>2. QED
      BY <3>1
  <2> HIDE DEF step, a, b, c, joined, u
  <2>8. CASE a
    <3>1. step[i] = Skip(2)
      BY <2>1, <2>3, <2>8
    <3>2. step[i] \in Steps(S) /\ step[i].out = <<>> /\ step[i].used = 2
      BY <3>1, StepFields
    <3>3. QED
      BY <2>3, <2>8, <3>2
  <2>9. CASE b
    <3>1. step[i] = [out |-> <<PchSpelling(J(i))>>, used |-> 2]
      BY <2>1, <2>3, <2>7, <2>9
    <3>2. <<PchSpelling(J(i))>> \in Seq(S)
      BY <2>6
    <3>3. step[i] \in Steps(S) /\ step[i].out = <<PchSpelling(J(i))>> /\ step[i].used = 2
      BY <3>1, <3>2 DEF Steps
    <3>4. QED
      BY <2>2, <2>3, <2>9, <3>3
  <2>10. CASE c
    <3>1. step[i] = Keep(u)
      BY <2>1, <2>3, <2>10
    <3>2. step[i] \in Steps(S) /\ step[i].out = <<u>> /\ step[i].used = 1
      BY <2>6, <3>1, StepFields
    <3>3. QED
      BY <2>4, <2>10, <3>2 DEF u
  <2>11. CASE ~a /\ ~b /\ ~c
    <3>1. step[i] = Skip(1)
      BY <2>1, <2>11
    <3>2. step[i] \in Steps(S) /\ step[i].out = <<>> /\ step[i].used = 1
      BY <3>1, StepFields
    <3>3. QED
      BY <2>5, <2>11, <3>2
  <2>12. QED
    BY <2>8, <2>9, <2>10, <2>11
<1>6. DOMAIN step = 1 .. n /\ step = [i \in 1 .. n |-> step[i]] /\ PF = Scan(step)
  BY <1>2 DEF PchFlagsOf
<1> HIDE DEF n, step, added, PF
<1>7. step \in Seq(Steps(S)) /\ Len(step) = n
  BY <1>2, <1>5, <1>6
<1>8. Local(step)
  <2> SUFFICES ASSUME NEW i \in 1 .. n
               PROVE  step[i].used \in {1, 2} /\ (i + 1 \in 1 .. n /\ step[i].used = 2 => step[i + 1].used = 1)
    BY <1>6 DEF Local
  <2>1. ASSUME step[i].used = 2 PROVE step[i + 1].used = 1
    <3>1. i + 1 \in 1 .. n /\ IsWord(T[i + 1])
      BY <1>2, <1>5, <2>1
    <3>2. QED
      BY <1>5, <3>1
  <2>2. QED
    BY <1>5, <2>1
<1>9. added \in Seq(Seq(S)) /\ Len(added) = n /\ PF = FlattenSeq(added)
  BY <1>6, <1>7, <1>8, LocalScan DEF added
<1>10. PF \in Seq(S) /\ ToSet(PF) = UNION {ToSet(added[i]) : i \in 1 .. n}
  <2>1. DOMAIN added = 1 .. n
    BY <1>9
  <2>2. QED
    BY <1>9, <2>1, FlattenElements, FlattenTyped
<1>11. \A i \in 1 .. n : added[i] = Added(step, i)
  BY <1>6 DEF added, AllAdded
<1>12. ASSUME NEW x \in ToSet(PF) PROVE Complete(x)
  <2>1. PICK i \in 1 .. n : x \in ToSet(added[i])
    BY <1>10
  <2>2. added[i] = <<>> \/ added[i] = step[i].out
    BY <1>11 DEF Added
  <2> DEFINE u == PchSpelling(J(i))
             v == PchSpelling(T[i])
  <2>3. added[i] = <<>> \/ (added[i] = <<u>> /\ Complete(J(i))) \/ (added[i] = <<v>> /\ Complete(T[i]))
    BY <1>4, <1>5, <2>2
  <2>4. (Complete(J(i)) => Complete(u)) /\ (Complete(T[i]) => Complete(v))
    BY SpellingKeeps
  <2> HIDE DEF u, v
  <2>5. ToSet(<<u>>) = {u} /\ ToSet(<<v>>) = {v} /\ ToSet(<<>>) = {}
    BY OneElement, NoElement
  <2>6. QED
    BY <2>1, <2>3, <2>4, <2>5
<1>13. ASSUME NEW x \in Said(T), x.opt \in {"-I", "-D"} PROVE PchSpelling(x) \in ToSet(PF)
  <2>1. PICK i \in 1 .. n : T[i].opt \in ReadOptions /\ x = Says(T, i)
    BY <1>2 DEF Said
  <2>2. T[i].opt \in {"-I", "-D"}
    BY <1>13, <2>1 DEF Says, Joined
  <2>3. ~(i - 1 \in 1 .. n /\ step[i - 1].used = 2)
    <3>1. SUFFICES ASSUME i - 1 \in 1 .. n, step[i - 1].used = 2 PROVE FALSE
      OBVIOUS
    <3>2. IsWord(T[i - 1 + 1]) /\ i - 1 + 1 = i
      BY <1>2, <1>5, <3>1
    <3>3. QED
      BY <2>2, <3>2 DEF IsWord
  <2>4. added[i] = step[i].out
    BY <1>6, <1>11, <2>3 DEF Added
  <2>5. step[i].out = <<PchSpelling(x)>>
    <3>1. CASE step[i].out = <<PchSpelling(J(i))>> /\ IsBare(T[i], {"-I"})
      <4>1. x = J(i)
        BY <2>1, <3>1 DEF Says, J, IsBare
      <4>2. QED
        BY <3>1, <4>1
    <3>2. CASE step[i].out = <<PchSpelling(T[i])>> /\ Complete(T[i])
      <4>1. x = T[i]
        BY <2>1, <2>2, <3>2 DEF Says, Complete, IsBare, TakesArg, TakesPathArg
      <4>2. QED
        BY <3>2, <4>1
    <3>3. QED
      BY <1>5, <2>2, <3>1, <3>2
  <2>6. ToSet(<<PchSpelling(x)>>) = {PchSpelling(x)}
    BY OneElement
  <2>7. QED
    BY <1>10, <2>4, <2>5, <2>6
<1>14. PF \in Seq(ToSet(PF))
  BY <1>10 DEF ToSet
<1>15. QED
  BY <1>12, <1>13, <1>14 DEF PF

(* A loaded flag map lists the files it has flags for, and no others.      *)
LEMMA FlagMapIsListed ==
    ASSUME ProjectInv, LoadedInv, pc # "load"
    PROVE  ToSet(FileOrder) = DOMAIN FlagMap
<1> DEFINE db == Db(read)
           files == [i \in DOMAIN db |-> db[i].file]
           K == Firsts(files)
<1>1. db \in ToSet(project.dbs) /\ db \in Databases /\ db \in Seq(ToSet(db))
  <2>1. db \in ToSet(project.dbs)
    BY DEF ProjectInv, Contents, ToSet, Db
  <2>2. db \in Databases
    BY <2>1 DEF Databases, ProjectInv
  <2>3. IsList(db)
    BY <2>1, ProjectsAreWhole DEF ProjectInv
  <2>4. QED
    BY <2>1, <2>2, <2>3 DEF IsList, ToSet
<1> HIDE DEF db
<1>2. FlagMap = LoadFlags(db) /\ FileOrder = LoadOrder(db)
  BY <1>1 DEF LoadedInv, FlagMap, FileOrder, FlagMaps, db
<1>3. DOMAIN FlagMap = ToSet(files)
  BY <1>2 DEF LoadFlags, ToSet
<1>4. FileOrder = Selection(files, K)
  BY <1>2 DEF LoadOrder
<1>5. files \in Seq(ToSet(files))
  BY <1>1 DEF ToSet
<1> HIDE DEF files, K
<1>6. K \in SUBSET DOMAIN files /\ \A i \in DOMAIN files : \E j \in K : files[j] = files[i]
  BY <1>5, FirstsCoverAll DEF K
<1>7. /\ \A k \in DOMAIN FileOrder : \E i \in K : FileOrder[k] = files[i]
      /\ \A i \in K : \E k \in DOMAIN FileOrder : FileOrder[k] = files[i]
  BY <1>4, <1>5, <1>6, SelectionElements
<1>8. ASSUME NEW f \in ToSet(FileOrder) PROVE f \in ToSet(files)
  BY <1>6, <1>7 DEF ToSet
<1>9. ASSUME NEW f \in ToSet(files) PROVE f \in ToSet(FileOrder)
  <2>1. PICK i \in DOMAIN files : f = files[i]
    BY DEF ToSet
  <2>2. PICK j \in K : files[j] = f
    BY <1>6, <2>1
  <2>3. PICK k \in DOMAIN FileOrder : FileOrder[k] = f
    BY <1>7, <2>2
  <2>4. QED
    BY <2>3 DEF ToSet
<1>10. QED
  BY <1>3, <1>8, <1>9

(* However many commands there are and however long they are, the PCH is   *)
(* compiled with all their -I directories, respelt, and all their macros   *)
(* without backslashes, as long as no -D is separate from its macro        *)
(* (build_pch, pch.py:133).                                                *)
THEOREM PchHasAllFlags == Spec => []PchSeesAllFlags
<1>1. ASSUME ProjectInv, LoadedInv PROVE PchSeesAllFlags
  <2>0. SUFFICES ASSUME pc = "save", \A f \in DOMAIN FlagMap : ~Contains(FlagMap[f], Bare("-D")),
                        NEW f \in DOMAIN FlagMap, NEW r \in Searched(EntryOf(f).argv),
                        r.opt \in {"-I", "-D"}
                 PROVE  PchSpelling(r) \in Searched(ClangArgs)
    <3>1. SUFFICES ASSUME pc = "save", \A f \in DOMAIN FlagMap : ~Contains(FlagMap[f], Bare("-D")),
                          NEW f \in DOMAIN FlagMap, NEW r \in Searched(EntryOf(f).argv)
                   PROVE  /\ r.opt = "-I" => Joined("-I", Respelt(Posix, r.arg)) \in Searched(ClangArgs)
                          /\ r.opt = "-D" /\ r.arg \notin DOMAIN Slashed => r \in Searched(ClangArgs)
      BY DEF PchSeesAllFlags
    <3>2. r.opt \in {"-I", "-D"} => PchSpelling(r) \in Searched(ClangArgs)
      BY <2>0, <3>1
    <3>3. r.opt = "-I" => PchSpelling(r) = Joined("-I", Respelt(Posix, r.arg))
      BY DEF PchSpelling
    <3>4. r.opt = "-D" /\ r.arg \notin DOMAIN Slashed => PchSpelling(r) = r
      <4>1. Readable(EntryOf(f).argv, TakesArg)
        BY <1>1, <3>1, FlagMapEntries
      <4>2. r.opt = "-D" => r \in Said(EntryOf(f).argv)
        BY <4>1, SearchedIsSaid DEF ReadOptions
      <4>3. r.opt = "-D" => r = Joined(r.opt, r.arg)
        BY <4>1, <4>2, SaidAreJoined
      <4>4. QED
        BY <4>3 DEF PchSpelling, Respelt
    <3>5. QED
      BY <3>2, <3>3, <3>4
  <2> DEFINE t == PchSpelling(r)
  <2> DEFINE PF(g) == PchFlagsOf(FlagMap[g])
             S == UNION {ToSet(PF(g)) : g \in DOMAIN FlagMap}
             parts == [i \in DOMAIN FileOrder |-> PF(FileOrder[i])]
             all == FlattenSeq(parts)
             K == Firsts(all)
             merged == Selection(all, K)
             std == Joined("-std=", "c++20")
             lead == <<Bare("-x"), Word("c++-header")>>
  <2>1. ASSUME NEW g \in DOMAIN FlagMap
        PROVE  /\ PF(g) \in Seq(ToSet(PF(g))) /\ \A x \in ToSet(PF(g)) : Complete(x)
               /\ \A x \in Said(FlagMap[g]) : x.opt \in {"-I", "-D"} => PchSpelling(x) \in ToSet(PF(g))
    <3> DEFINE T == FlagMap[g]
    <3>1. Readable(T, TakesPathArg) /\ ~Contains(T, Bare("-D"))
      BY <1>1, <2>0, FlagMapEntries, ExtractKeeps
    <3> HIDE DEF T
    <3>2. /\ PchFlagsOf(T) \in Seq(ToSet(PchFlagsOf(T)))
          /\ \A x \in ToSet(PchFlagsOf(T)) : Complete(x)
          /\ \A x \in Said(T) : x.opt \in {"-I", "-D"} => PchSpelling(x) \in ToSet(PchFlagsOf(T))
      BY <3>1, PchFlagsSay
    <3>3. QED
      BY <3>2 DEF T
  <2>2. ToSet(FileOrder) = DOMAIN FlagMap /\ FileOrder \in Seq(Files)
    BY <1>1, <2>0, FlagMapIsListed DEF ProjectInv
  <2>3. t \in ToSet(PF(f)) /\ \A x \in S : Complete(x)
    <3> DEFINE e == EntryOf(f)
               T == FlagMap[f]
    <3>1. Readable(e.argv, TakesArg) /\ T = ExtractFlags(e) /\ r \in Searched(e.argv) /\ r.opt \in ReadOptions
      BY <1>1, <2>0, FlagMapEntries DEF ReadOptions
    <3> HIDE DEF e, T
    <3>2. r \in Said(T)
      BY <3>1, ExtractKeeps, SearchedIsSaid
    <3>3. QED
      BY <2>0, <2>1, <3>2 DEF S, T
  <2>4. ClangArgs = lead \o (merged \o <<std>>)
    BY DEF ClangArgs, MergedFlags
  <2>5. /\ DOMAIN parts = DOMAIN FileOrder
        /\ \A i \in DOMAIN FileOrder : parts[i] = PF(FileOrder[i]) /\ FileOrder[i] \in DOMAIN FlagMap
    BY <2>2 DEF ToSet
  <2>6. parts = [i \in DOMAIN FileOrder |-> parts[i]]
    OBVIOUS
  <2>21. t.opt \in ReadOptions
    BY <2>0 DEF PchSpelling, Joined, ReadOptions
  <2> HIDE DEF PF, S, parts, all, K, merged, std, lead, t
  <2>7. ASSUME NEW i \in DOMAIN FileOrder PROVE parts[i] \in Seq(S)
    <3>1. parts[i] \in Seq(ToSet(PF(FileOrder[i])))
      BY <2>1, <2>5
    <3>2. ToSet(PF(FileOrder[i])) \subseteq S
      BY <2>5 DEF S
    <3>3. QED
      BY <3>1, <3>2
  <2>8. parts \in Seq(Seq(S))
    <3>1. DOMAIN FileOrder = 1 .. Len(FileOrder) /\ Len(FileOrder) \in Nat
      BY <2>2
    <3>2. QED
      BY <2>6, <2>7, <3>1
  <2>9. all \in Seq(S) /\ ToSet(all) = UNION {ToSet(parts[i]) : i \in DOMAIN FileOrder}
    BY <2>5, <2>8, FlattenTyped, FlattenElements DEF all
  <2>10. t \in ToSet(all)
    <3>1. PICK i \in DOMAIN FileOrder : FileOrder[i] = f
      BY <2>2 DEF ToSet
    <3>2. t \in ToSet(parts[i])
      BY <2>3, <2>5, <3>1
    <3>3. QED
      BY <2>9, <3>2
  <2>11. K \in SUBSET DOMAIN all /\ \A i \in DOMAIN all : \E j \in K : all[j] = all[i]
    BY <2>9, FirstsCoverAll DEF K
  <2>12. merged \in Seq(S) /\ t \in ToSet(merged)
    <3>1. merged \in Seq(S)
      BY <2>9, <2>11, SelectionSelects DEF merged
    <3>2. \A i \in K : \E k \in DOMAIN merged : merged[k] = all[i]
      BY <2>9, <2>11, SelectionElements DEF merged
    <3>3. PICK i \in DOMAIN all : t = all[i]
      BY <2>10 DEF ToSet
    <3>4. PICK j \in K : all[j] = t
      BY <2>11, <3>3
    <3>5. PICK k \in DOMAIN merged : merged[k] = t
      BY <3>2, <3>4
    <3>6. QED
      BY <3>1, <3>5 DEF ToSet
  <2>13. Readable(merged, TakesArg) /\ t \in Said(merged)
    BY <2>3, <2>12, <2>21, CompleteTokensRead
  <2>14. Readable(<<std>>, TakesArg)
    <3>1. IsToken(std) /\ std.opt \notin ReadOptions /\ ~IsBare(std, TakesArg)
      BY DEF std, Joined, IsToken, IsWord, ReadOptions, IsBare
    <3>2. QED
      BY <3>1, QuietOptions
  <2>15. Readable(lead, TakesArg)
    <3> DEFINE x == Bare("-x")
               u == Word("c++-header")
    <3>1. IsToken(x) /\ x.opt \notin ReadOptions /\ IsToken(u) /\ IsWord(u)
      BY DEF Bare, Word, IsToken, IsWord, ReadOptions
    <3> HIDE DEF x, u
    <3>2. Readable(<<x, u>>, TakesArg)
      BY <3>1, QuietOptions
    <3>3. QED
      BY <3>2 DEF x, u, lead
  <2> DEFINE one == <<std>>
             rest == merged \o one
  <2>16. Readable(one, TakesArg)
    BY <2>14
  <2> HIDE DEF one
  <2>17. Readable(rest, TakesArg) /\ t \in Said(rest)
    BY <2>13, <2>16, TwoListsRead
  <2> HIDE DEF rest
  <2>18. Readable(lead \o rest, TakesArg) /\ t \in Said(lead \o rest)
    BY <2>15, <2>17, TwoListsRead
  <2>19. Readable(ClangArgs, TakesArg) /\ t \in Said(ClangArgs)
    BY <2>4, <2>18 DEF rest, one
  <2>20. QED
    BY <2>19, SearchedIsSaid DEF t
<1>2. QED
  BY <1>1, ProjectInvHolds, LoadedInvHolds, PTL

-----------------------------------------------------------------------------
(* For every hierarchy, the fields that a record lists are those of its    *)
(* class and of all its bases, each name once, with the offset in the      *)
(* class itself where the class declares it, and with the offset in the    *)
(* object where no base is moved (_collect_struct_fields, walker.py:328).  *)
THEOREM FieldsFollowHierarchy == Spec => []FieldsMatchHierarchy
<1>1. Phase1Inv => FieldsMatchHierarchy
  <2> SUFFICES ASSUME Phase1Inv, NEW f \in walked, NEW c \in ToSet(project.tus[f]),
                      c.kind \in RecordKinds, Passes(c)
               PROVE  FieldsFollow(c.usr)
    BY DEF FieldsMatchHierarchy
  <2>1. project.tus[f] \in Trees
    <3>1. f \in Files
      BY ItemsAreFiles DEF Phase1Inv, PoolInv
    <3>2. QED
      BY <3>1, RecordsAreListed DEF Phase1Inv
  <2>2. c.usr \in Classes
    BY <2>1, CursorsAreTyped
  <2>3. QED
    BY <2>2, FieldsAreFollowed
<1>2. QED
  BY <1>1, Phase1InvHolds, PTL

=============================================================================
