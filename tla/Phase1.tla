------------------------------- MODULE Phase1 -------------------------------
(***************************************************************************)
(* phase1 of extract.py: load the flag map, make or reuse the PCH (module  *)
(* Pch), walk every TU in a pool of processes (module Walker) and merge    *)
(* the records of the TUs in the order in which they come back.            *)
(*                                                                         *)
(* multiprocessing.Pool is external: it hands chunks to idle processes,    *)
(* delivers the results of a chunk together, in the order in which the     *)
(* chunks end, and starts a new process for one that dies, whose chunk is  *)
(* lost.  One record is merged at a time, between steps of the pool.       *)
(***************************************************************************)
EXTENDS Pch, Walker

CONSTANTS
    Workers,     \* the processes of the pool
    MinChunk,    \* the least chunk (4)
    MaxDeaths    \* bound: processes that die

ASSUME PoolWorks == IsFiniteSet(Workers) /\ Workers # {} /\ MinChunk \in Nat \ {0}

VARIABLES
    tasks,       \* chunks no process has taken
    busy,        \* the chunk of each process, <<>> if idle
    results,     \* results of TUs that phase1 has not taken
    inbox,       \* records of the current result still to merge
    combined, seen_index, richness_cache,
    accounted,   \* files whose results phase1 has taken
    walked,      \* history: those of them that were walked without error
    arrived,     \* history: the records that were merged, in order
    manifest,    \* the file at ast_out: "none", "torn" or "whole"
    deaths

poolVars == <<tasks, busy, results, deaths>>
mergeVars == <<inbox, combined, seen_index, richness_cache, accounted, walked, arrived>>
vars == <<pchVars, tasks, busy, results, inbox, combined, seen_index,
          richness_cache, accounted, walked, arrived, manifest, deaths>>

Sections == {"structs", "functions", "enums", "typedefs"}

(* _KEY_FIELD *)
Key(section, r) ==
    CASE section = "functions" -> r.mangled
      [] section = "typedefs"  -> r.alias
      [] OTHER                 -> r.name

Flagged(b) == IF b THEN 1 ELSE 0
Richness(r) == Flagged(r.loc # None) + Flagged(r.self_view # None) + Flagged(r.member)
StructScore(r) ==
    IF \E i \in DOMAIN r.fields : r.fields[i].offset < 0 THEN 0
    ELSE 1 + r.size + Len(r.fields)

Score(section, r) ==
    CASE section = "functions" -> Richness(r)
      [] section = "structs"   -> StructScore(r)
      [] OTHER                 -> 0

(* What walk returns for a TU, in the order of the keys of combined. *)
Tagged(tu, section) ==
    [i \in DOMAIN Walked(tu, section) |->
        [section |-> section, record |-> Walked(tu, section)[i]]]

WalkRecords(tu) ==
    Tagged(tu, "structs") \o Tagged(tu, "functions")
        \o Tagged(tu, "enums") \o Tagged(tu, "typedefs")

Trees == UNION {{p.tus[f] : f \in DOMAIN p.tus} : p \in Projects}
Walks == [tu \in Trees |-> WalkRecords(tu)]

(* What libclang gives: the definition of a record type is of a class, and *)
(* a type has one name.                                                    *)
ASSUME CursorsAreTyped ==
    \A tu \in Trees :
        /\ IsList(tu)
        /\ \A c, d \in ToSet(tu) : c.kind \in RecordKinds =>
            /\ Passes(c) => c.usr \in Classes
            /\ d.kind \in RecordKinds /\ d.usr = c.usr => d.name = c.name

RecordsOf(file) == Walks[project.tus[file]]

(* items, and how imap_unordered cuts them. *)
Items == Selection(FileOrder, {i \in DOMAIN FileOrder : FileOrder[i] \notin project.outside})
ChunkSize ==
    LET fair == Len(Items) \div (Cardinality(Workers) * 8)
    IN  IF fair > MinChunk THEN fair ELSE MinChunk
Chunks ==
    [k \in 1 .. (Len(Items) + ChunkSize - 1) \div ChunkSize |->
        SubSeq(Items, (k - 1) * ChunkSize + 1,
               IF k * ChunkSize < Len(Items) THEN k * ChunkSize ELSE Len(Items))]

Empty == [s \in Sections |-> <<>>]
Idle == [w \in Workers |-> <<>>]

Init ==
    /\ PchInit
    /\ tasks = <<>> /\ busy = Idle /\ results = <<>> /\ inbox = <<>>
    /\ combined = Empty /\ seen_index = Empty /\ richness_cache = Empty
    /\ accounted = {} /\ walked = {} /\ arrived = <<>>
    /\ manifest = "none" /\ deaths = 0

StartPool ==
    /\ pc = "walk" /\ pc' = "merge"
    /\ tasks' = Chunks
    /\ UNCHANGED <<project, diskVars, readVars, scanVars, pch_path, edits, runs, raced, suspect,
                   busy, results, deaths, mergeVars, manifest>>

TakeChunk(w) ==
    /\ pc = "merge" /\ busy[w] = <<>> /\ tasks # <<>>
    /\ busy' = [busy EXCEPT ![w] = Head(tasks)]
    /\ tasks' = Tail(tasks)
    /\ UNCHANGED <<pchVars, results, deaths, mergeVars, manifest>>

(* _walk_one over a chunk.  A parse that fails with the PCH is tried       *)
(* without it; one that fails then leaves an empty result.                 *)
ReturnChunk(w) ==
    /\ pc = "merge" /\ busy[w] # <<>>
    /\ \E failed \in SUBSET ToSet(busy[w]) :
        results' = results \o [i \in DOMAIN busy[w] |->
            [file |-> busy[w][i], ok |-> busy[w][i] \notin failed]]
    /\ busy' = [busy EXCEPT ![w] = <<>>]
    /\ UNCHANGED <<pchVars, tasks, deaths, mergeVars, manifest>>

WorkerDies(w) ==
    /\ pc = "merge" /\ busy[w] # <<>> /\ deaths < MaxDeaths
    /\ busy' = [busy EXCEPT ![w] = <<>>]
    /\ deaths' = deaths + 1
    /\ UNCHANGED <<pchVars, tasks, results, mergeVars, manifest>>

(* A slip: a result that brings no records is not counted. *)
TakeResultIfWalked ==
    /\ pc = "merge" /\ inbox = <<>> /\ results # <<>>
    /\ LET r == Head(results) IN
        /\ results' = Tail(results)
        /\ inbox' = IF r.ok THEN RecordsOf(r.file) ELSE <<>>
        /\ accounted' = IF r.ok THEN accounted \cup {r.file} ELSE accounted
        /\ walked' = IF r.ok THEN walked \cup {r.file} ELSE walked
    /\ UNCHANGED <<pchVars, tasks, busy, deaths, combined, seen_index, richness_cache,
                   arrived, manifest>>

(* The head of the loop over results; one without records is skipped. *)
TakeResult ==
    /\ pc = "merge" /\ inbox = <<>> /\ results # <<>>
    /\ LET r == Head(results) IN
        /\ results' = Tail(results)
        /\ inbox' = IF r.ok THEN RecordsOf(r.file) ELSE <<>>
        /\ accounted' = accounted \cup {r.file}
        /\ walked' = IF r.ok THEN walked \cup {r.file} ELSE walked
    /\ UNCHANGED <<pchVars, tasks, busy, deaths, combined, seen_index, richness_cache,
                   arrived, manifest>>

(* A slip: the score of a new record is not cached. *)
MergeNewUnscored(section, r) ==
    /\ seen_index' = [seen_index EXCEPT ![section] =
            [k \in DOMAIN @ \cup {Key(section, r)} |->
                IF k = Key(section, r) THEN Len(combined[section]) + 1 ELSE @[k]]]
    /\ combined' = [combined EXCEPT ![section] = Append(@, r)]
    /\ UNCHANGED richness_cache

(* The body of the loop over records. *)
MergeNew(section, r) ==
    /\ seen_index' = [seen_index EXCEPT ![section] =
            [k \in DOMAIN @ \cup {Key(section, r)} |->
                IF k = Key(section, r) THEN Len(combined[section]) + 1 ELSE @[k]]]
    /\ combined' = [combined EXCEPT ![section] = Append(@, r)]
    /\ richness_cache' = [richness_cache EXCEPT ![section] = Append(@, Score(section, r))]

(* A slip: the score of the record that is replaced stays in the cache. *)
MergeAgainOldScore(section, r) ==
    LET i == seen_index[section][Key(section, r)]
        better == Score(section, r) > richness_cache[section][i]
    IN  /\ combined' = IF better THEN [combined EXCEPT ![section][i] = r] ELSE combined
        /\ UNCHANGED <<richness_cache, seen_index>>

MergeAgain(section, r) ==
    LET i == seen_index[section][Key(section, r)]
        better == Score(section, r) > richness_cache[section][i]
    IN  /\ combined' = IF better THEN [combined EXCEPT ![section][i] = r] ELSE combined
        /\ richness_cache' = IF better
                             THEN [richness_cache EXCEPT ![section][i] = Score(section, r)]
                             ELSE richness_cache
        /\ UNCHANGED seen_index

MergeRecord ==
    /\ pc = "merge" /\ inbox # <<>>
    /\ LET section == Head(inbox).section
           r == Head(inbox).record
       IN  IF Key(section, r) \in DOMAIN seen_index[section]
           THEN MergeAgain(section, r)
           ELSE MergeNew(section, r)
    /\ inbox' = Tail(inbox)
    /\ arrived' = Append(arrived, Head(inbox))
    /\ UNCHANGED <<pchVars, poolVars, accounted, walked, manifest>>

(* A slip: the walk ends when every task has been taken. *)
EndWalkEarly ==
    /\ pc = "merge" /\ inbox = <<>> /\ results = <<>> /\ tasks = <<>>
    /\ pc' = "open"
    /\ UNCHANGED <<project, diskVars, readVars, scanVars, pch_path, edits, runs, raced, suspect,
                   poolVars, mergeVars, manifest>>

(* The iteration ends when as many results have come as there were items. *)
EndWalk ==
    /\ pc = "merge" /\ inbox = <<>> /\ Cardinality(accounted) = Len(Items)
    /\ pc' = "open"
    /\ UNCHANGED <<project, diskVars, readVars, scanVars, pch_path, edits, runs, raced, suspect,
                   poolVars, mergeVars, manifest>>

(* open(ast_path, "w") empties the file; json.dump fills it. *)
OpenManifest ==
    /\ pc = "open" /\ pc' = "dump" /\ manifest' = "torn"
    /\ UNCHANGED <<project, diskVars, readVars, scanVars, pch_path, edits, runs, raced, suspect,
                   poolVars, mergeVars>>
DumpManifest ==
    /\ pc = "dump" /\ pc' = "done" /\ manifest' = "whole"
    /\ UNCHANGED <<project, diskVars, readVars, scanVars, pch_path, edits, runs, raced, suspect,
                   poolVars, mergeVars>>

(* Nothing of an earlier run is left but its files. *)
Restart ==
    /\ StartRun
    /\ tasks' = <<>> /\ busy' = Idle /\ results' = <<>> /\ inbox' = <<>>
    /\ combined' = Empty /\ seen_index' = Empty /\ richness_cache' = Empty
    /\ accounted' = {} /\ walked' = {} /\ arrived' = <<>>
    /\ UNCHANGED <<manifest, deaths>>

Main ==
    \/ PchStep /\ UNCHANGED <<poolVars, mergeVars, manifest>>
    \/ StartPool \/ TakeResult \/ MergeRecord \/ EndWalk \/ OpenManifest \/ DumpManifest
Worker(w) == TakeChunk(w) \/ ReturnChunk(w)

Next ==
    \/ Main
    \/ EditDb /\ UNCHANGED <<poolVars, mergeVars, manifest>>
    \/ Restart
    \/ \E w \in Workers : Worker(w) \/ WorkerDies(w)

(* phase1 is a sequential program, and the pool runs what it was given. *)
Fairness == WF_vars(Main) /\ \A w \in Workers : WF_vars(Worker(w))

Spec == Init /\ [][Next]_vars /\ Fairness
=============================================================================
