-------------------------------- MODULE Pch ---------------------------------
(***************************************************************************)
(* The precompiled header cache of pch.py, the file compile_commands.json  *)
(* it depends on, and what can happen between two of its steps: the file   *)
(* is edited, the process dies.                                            *)
(*                                                                         *)
(* On disk are cdb (the content of compile_commands.json), pch (the        *)
(* content the PCH was built from) and stamp (the content whose hash is in *)
(* the .md5 file).  Contents are the numbers of project.dbs; equal hashes  *)
(* mean equal contents.  An edit may bring an earlier content back.        *)
(***************************************************************************)
EXTENDS Flags

CONSTANTS
    Projects,   \* the projects the extractor may be run on
    ScanLimit,  \* how many TUs _extract_include_order looks at (20)
    MaxEdits,   \* bound: edits of compile_commands.json
    MaxRuns,    \* bound: runs of phase 1, those after a crash included
    NoPch       \* no PCH file, no .md5 file, pch_path = None

VARIABLES
    project,    \* [dbs, includes, hidden, pch, tus, outside]
    cdb,        \* content of compile_commands.json
    pch,        \* content the PCH on disk was built from, or NoPch
    stamp,      \* content whose hash the .md5 file holds, or NoPch
    pc,         \* where the process is
    read,       \* the content that this run has loaded
    flag_map,   \* what it was loaded as
    unscanned,  \* files whose dependency scan has not come back
    scanned,    \* history: files whose scan has succeeded
    order,      \* seen of _extract_include_order, by position
    pch_path,   \* what build_pch has returned
    edits, runs,
    raced,      \* history: compile_commands.json edited since it was loaded
    suspect     \* history: the stamp was written by a run so raced, or the
                \* run that saved the PCH died before it wrote the stamp

diskVars == <<cdb, pch, stamp>>
readVars == <<read, flag_map>>
scanVars == <<unscanned, scanned, order>>
pchVars == <<project, cdb, pch, stamp, pc, read, flag_map, unscanned, scanned, order,
             pch_path, edits, runs, raced, suspect>>

Db(content) == project.dbs[content]

Databases == UNION {ToSet(p.dbs) : p \in Projects}

(* There is a compile_commands.json to begin with, and every file that it  *)
(* names can be scanned and walked.                                        *)
ASSUME ProjectsAreWhole ==
    \A p \in Projects :
        /\ IsList(p.dbs) /\ p.dbs # <<>>
        /\ \A db \in ToSet(p.dbs) :
            /\ IsList(db)
            /\ \A e \in ToSet(db) : e.file \in DOMAIN p.includes \cap DOMAIN p.tus
        /\ \A f \in DOMAIN p.includes : IsList(p.includes[f])

FlagMaps == [db \in Databases |-> [order |-> LoadOrder(db), flags |-> LoadFlags(db)]]

(* The entry whose flags a file gets. *)
EntryOf(f) == Db(read)[LastEntry(Db(read), f)]

(* The flag map, a dict: its keys in order, and what they are mapped to. *)
FileOrder == flag_map.order
FlagMap == flag_map.flags

PchInit ==
    /\ project \in Projects
    /\ cdb = 1 /\ pch = NoPch /\ stamp = NoPch
    /\ pc = "load" /\ read = 1
    /\ flag_map = [order |-> <<>>, flags |-> <<>>]
    /\ unscanned = {} /\ scanned = {} /\ order = <<>>
    /\ pch_path = NoPch
    /\ edits = 0 /\ runs = 1 /\ raced = FALSE /\ suspect = FALSE

(* load_compile_db *)
Load ==
    /\ pc = "load"
    /\ read' = cdb /\ raced' = FALSE
    /\ flag_map' = FlagMaps[Db(cdb)]
    /\ pc' = IF project.pch THEN "ask" ELSE "walk"
    /\ UNCHANGED <<project, diskVars, scanVars, pch_path, edits, runs, suspect>>

(* A slip: that the files are there is enough. *)
StaleIfMissing == pch = NoPch \/ stamp = NoPch

(* _pch_is_stale *)
Stale == pch = NoPch \/ stamp = NoPch \/ stamp # cdb

(* The files whose dependencies are scanned: the first of the flag map. *)
ScanFiles == {FileOrder[i] : i \in {j \in DOMAIN FileOrder : j <= ScanLimit}}

(* build_pch up to the dependency scan. *)
AskStale ==
    /\ pc = "ask"
    /\ \/ Stale /\ pc' = "scan" /\ unscanned' = ScanFiles /\ UNCHANGED pch_path
       \/ ~Stale /\ pc' = "walk" /\ pch_path' = pch /\ UNCHANGED unscanned
    /\ UNCHANGED <<project, diskVars, readVars, scanned, order, edits, runs, raced, suspect>>

(* _run_dep_scan: the lines of clang -M that look like one header.  The    *)
(* compiler puts several short paths on a line; the line is taken for one  *)
(* path then, and names no file.                                           *)
ScanResult(file) == project.includes[file]

(* A slip: a header that is seen again moves to the end. *)
MoveHeaders(seen, headers) ==
    FoldLeft(LAMBDA acc, h : Append(SelectSeq(acc, LAMBDA g : g # h), h), seen, headers)

(* The loop over as_completed: headers not seen before go to the end. *)
AddHeaders(seen, headers) ==
    seen \o Selection(headers, {i \in Firsts(headers) : headers[i] \notin ToSet(seen)})

(* One scan comes back, in any order; it may fail or time out. *)
ScanArrives(file) ==
    /\ pc = "scan" /\ file \in unscanned
    /\ unscanned' = unscanned \ {file}
    /\ \/ UNCHANGED <<order, scanned>>
       \/ order' = AddHeaders(order, ScanResult(file)) /\ scanned' = scanned \cup {file}
    /\ UNCHANGED <<project, diskVars, pc, readVars, pch_path, edits, runs, raced, suspect>>

(* clang_args *)
ClangArgs == <<Bare("-x"), Word("c++-header")>> \o MergedFlags(FileOrder, FlagMap)

(* What the umbrella header includes. *)
Filtered == Selection(order, {i \in DOMAIN order : order[i] \notin project.hidden})

(* Filtering, writing the umbrella header and parsing it.  A path that     *)
(* names no file is an error, and any other error may occur.               *)
ParseUmbrella ==
    /\ pc = "scan" /\ unscanned = {}
    /\ \/ pc' = "walk"
       \/ Filtered # <<>> /\ (\A i \in DOMAIN Filtered : Len(Filtered[i]) = 1) /\ pc' = "save"
    /\ UNCHANGED <<project, diskVars, readVars, scanVars, pch_path, edits, runs, raced, suspect>>

(* tu.save; an exception makes build_pch return None. *)
SavePch ==
    /\ pc = "save"
    /\ \/ pch' = read /\ pc' = "stamp"
       \/ pc' = "walk" /\ UNCHANGED pch
    /\ UNCHANGED <<project, cdb, stamp, readVars, scanVars, pch_path, edits, runs, raced, suspect>>

(* _write_stale_hash reads compile_commands.json again. *)
StampPch ==
    /\ pc = "stamp"
    /\ stamp' = cdb /\ pch_path' = pch /\ pc' = "walk"
    /\ suspect' = raced
    /\ UNCHANGED <<project, cdb, pch, readVars, scanVars, edits, runs, raced>>

InBuild == pc \in {"ask", "scan", "save", "stamp"}

(* The build system writes another content. *)
EditDb ==
    /\ edits < MaxEdits
    /\ cdb' \in DOMAIN project.dbs \ {cdb}
    /\ edits' = edits + 1
    /\ raced' = (raced \/ InBuild)
    /\ UNCHANGED <<project, pch, stamp, pc, readVars, scanVars, pch_path, runs, suspect>>

(* What a process that ends or dies takes with it. *)
ForgetBuild ==
    /\ pch_path' = NoPch /\ unscanned' = {} /\ scanned' = {} /\ order' = <<>>

(* A second run, after one that has ended or died at any step. *)
StartRun ==
    /\ runs < MaxRuns
    /\ runs' = runs + 1 /\ pc' = "load"
    /\ suspect' = (suspect \/ pc = "stamp")
    /\ ForgetBuild
    /\ UNCHANGED <<project, diskVars, readVars, edits, raced>>

PchStep ==
    \/ Load \/ AskStale \/ ParseUmbrella \/ SavePch \/ StampPch
    \/ \E file \in unscanned : ScanArrives(file)

-----------------------------------------------------------------------------
(* A PCH that counts as fresh was built from the flags that are in         *)
(* compile_commands.json (_pch_is_stale, pch.py:17), as long as no run was *)
(* disturbed between reading that file and stamping its hash.              *)
FreshPchMatches ==
    ~suspect /\ ~(pc = "stamp" /\ raced) /\ ~Stale => pch = cdb

(* Unless some command separates -D from its macro, the PCH is compiled    *)
(* with every -I directory of every command, respelt, and with every macro *)
(* that has no backslash (build_pch, pch.py:133).  What other options add, *)
(* -isystem and -include among them, it is not compiled with.              *)
PchSeesAllFlags ==
    pc = "save" /\ (\A f \in DOMAIN FlagMap : ~Contains(FlagMap[f], Bare("-D"))) =>
        \A f \in DOMAIN FlagMap : \A t \in Searched(EntryOf(f).argv) :
            /\ t.opt = "-I" => Joined("-I", Respelt(Posix, t.arg)) \in Searched(ClangArgs)
            /\ t.opt = "-D" /\ t.arg \notin DOMAIN Slashed => t \in Searched(ClangArgs)

(* The umbrella header includes a header after every header that all TUs   *)
(* listing it include first (_extract_include_order, pch.py:75), though    *)
(* scans come back in any order and some fail.                             *)
Before(s, g, h) ==
    \A j \in DOMAIN s : s[j] = h => \E i \in DOMAIN s : i < j /\ s[i] = g
UmbrellaOrder ==
    pc \in {"save", "stamp"} =>
        \A g, h \in ToSet(Filtered) :
            (\A file \in scanned : Before(ScanResult(file), g, h)) => Before(Filtered, g, h)

=============================================================================
