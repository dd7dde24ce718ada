---------------------------- MODULE RegistryProofs ----------------------------
(***************************************************************************)
(* Theorems of Registry, for any number of symbols, targets, admins and    *)
(* players, any catalogue of entries and any bound.                        *)
(***************************************************************************)
EXTENDS RegistryProperties, ChainTheorems

(* What resolve_target answers is a target or nothing.                     *)
LEMMA ResolveType ==
    ASSUME NEW s \in Symbols PROVE Resolve(s) \in Targets \cup {None}
BY ConstantsOK DEF Resolve

LEMMA Priorities == \A e \in Catalog : e.priority \in Int
BY ConstantsOK

(* m_chains.erase leaves well-formed chains behind.                        *)
LEMMA EraseTyped ==
    ASSUME RegistryTyped, NEW S, NEW left \in [Symbols -> Seq(Catalog)], Erase(S, left)
    PROVE  /\ chains' \in SUBSET Symbols
           /\ entries' \in [Symbols -> Seq(Catalog)]
           /\ dirty' \in [Symbols -> BOOLEAN]
           /\ saved' \in [Symbols -> Targets \cup {None}]
           /\ target_ptr' \in [Symbols -> BOOLEAN]
           /\ installed' \in [Symbols -> BOOLEAN]
BY DEF RegistryTyped, Erase

LEMMA UnhookTyped ==
    ASSUME RegistryTyped, NEW T, Unhook(T)
    PROVE  patch' \in [Targets -> Symbols \cup {None, Raw}]
BY DEF RegistryTyped, Unhook

LEMMA NoCallTyped == NoCall \in Calls
BY DEF NoCall, Calls, Modes

(* A callback that runs is recorded in the call of its player alone.       *)
LEMMA FireTyped ==
    ASSUME NEW p \in Players, call \in [Players -> Calls],
           entries[call[p].sym] \in Seq(Catalog),
           NEW i \in DOMAIN entries[call[p].sym], NEW cancels \in BOOLEAN,
           Fire(p, i, cancels)
    PROVE  /\ call' \in [Players -> Calls]
           /\ \A q \in Players : call'[q].sym = call[q].sym
<1>1. call[p] \in Calls
  OBVIOUS
<1>2. Append(call[p].fired, entries[call[p].sym][i]) \in Seq(Catalog) /\ i + 1 \in Nat
  BY <1>1 DEF Calls
<1>3. \A q \in Players \ {p} : call'[q] = call[q]
  BY DEF Fire
<1>4. call'[p] \in Calls /\ call'[p].sym = call[p].sym
  BY <1>1, <1>2 DEF Fire, Calls
<1>5. call' = [q \in Players |-> call'[q]]
  BY DEF Fire
<1>6. QED
  BY <1>3, <1>4, <1>5

(* Threads are where the lock says they are, and hold what they need.      *)
LEMMA InitTyped == Init => TypeOK
<1> SUFFICES ASSUME Init PROVE TypeOK
  OBVIOUS
<1>1. RegistryTyped
  <2>1. /\ entries \in [Symbols -> Seq(Catalog)]
        /\ saved \in [Symbols -> Targets \cup {None}]
        /\ patch \in [Targets -> Symbols \cup {None, Raw}]
    BY DEF Init
  <2>2. /\ dirty \in [Symbols -> BOOLEAN] /\ target_ptr \in [Symbols -> BOOLEAN]
        /\ installed \in [Symbols -> BOOLEAN]
    BY DEF Init
  <2>3. QED
    BY <2>1, <2>2 DEF Init, RegistryTyped
<1>2. ThreadsTyped
  BY NoCallTyped DEF Init, ThreadsTyped, Jobs, Stages
<1>3. LockHeld
  BY ConstantsOK DEF Init, LockHeld, Holding
<1>4. QED
  BY <1>1, <1>2, <1>3 DEF TypeOK

LEMMA StepTyped == ASSUME TypeOK, [Next]_vars PROVE TypeOK'
<1>1. ASSUME NEW a \in Admins, NEW s \in Symbols, NEW e \in Catalog, RegisterCall(a, s, e)
      PROVE  TypeOK'
  <2>1. RegistryTyped'
    BY <1>1 DEF RegisterCall, TypeOK, RegistryTyped, chainVars, hookVars
  <2>2. ThreadsTyped'
    BY <1>1
    DEF RegisterCall, ThreadsTyped, Jobs, Requests, TypeOK, chainVars, hookVars, playerVars
  <2>3. LockHeld'
    BY <1>1 DEF RegisterCall, TypeOK, LockHeld, Holding, playerVars
  <2>4. QED
    BY <2>1, <2>2, <2>3 DEF TypeOK
<1>2. ASSUME NEW a \in Admins, RegisterCheck(a)
      PROVE  TypeOK'
  <2>1. RegistryTyped'
    <3>1. req[a] \in Requests
      BY <1>2 DEF RegisterCheck, TypeOK, ThreadsTyped
    <3>2. req[a].sym \in Symbols /\ req[a].entry \in Catalog
      BY <3>1 DEF Requests
    <3>3. QED
      BY <1>2, <3>2 DEF RegisterCheck, TypeOK, RegistryTyped, hookVars
  <2>2. ThreadsTyped'
    BY <1>2 DEF RegisterCheck, TypeOK, ThreadsTyped, Jobs, playerVars
  <2>3. LockHeld'
    <3>1. readers' = {q \in Players : Holding(q)'}
      BY <1>2 DEF RegisterCheck, TypeOK, LockHeld, Holding, playerVars
    <3>2. QED
      BY <1>2, <3>1, ConstantsOK
      DEF RegisterCheck, CanWrite, Unlock, TypeOK, ThreadsTyped, LockHeld
  <2>4. QED
    BY <2>1, <2>2, <2>3 DEF TypeOK
<1>3. ASSUME NEW a \in Admins, RegisterCommit(a)
      PROVE  TypeOK'
  <2>1. RegistryTyped'
    <3>1. req[a] \in Requests
      BY <1>3 DEF RegisterCommit, TypeOK, ThreadsTyped
    <3>2. req[a].sym \in Symbols /\ req[a].entry \in Catalog
      BY <3>1 DEF Requests
    <3>3. Append(entries[req[a].sym], req[a].entry) \in Seq(Catalog)
      BY <3>2 DEF TypeOK, RegistryTyped
    <3>4. StableSort(Append(entries[req[a].sym], req[a].entry)) \in Seq(Catalog)
      BY <3>3, Priorities, StableSortSorts
    <3>5. QED
      BY <1>3, <3>2, <3>4
      DEF RegisterCommit, SortedIfDirty, TypeOK, RegistryTyped, hookVars
  <2>2. ThreadsTyped'
    <3>1. req[a] \in Requests
      BY <1>3 DEF RegisterCommit, TypeOK, ThreadsTyped
    <3>2. req[a].sym \in Symbols /\ req[a].entry \in Catalog
      BY <3>1 DEF Requests
    <3>3. QED
      BY <1>3, <3>1, <3>2
      DEF RegisterCommit, TypeOK, ThreadsTyped, Jobs, playerVars
  <2>3. LockHeld'
    <3>1. readers' = {q \in Players : Holding(q)'}
      BY <1>3 DEF RegisterCommit, TypeOK, LockHeld, Holding, playerVars
    <3>2. QED
      BY <1>3, <3>1, ConstantsOK
      DEF RegisterCommit, CanWrite, Unlock, TypeOK, ThreadsTyped, LockHeld
  <2>4. QED
    BY <2>1, <2>2, <2>3 DEF TypeOK
<1>4. ASSUME NEW a \in Admins, NEW s \in Symbols, InstallFails(a, s)
      PROVE  TypeOK'
  <2>1. RegistryTyped'
    BY <1>4 DEF InstallFails, TypeOK, RegistryTyped, chainVars, hookVars
  <2>2. ThreadsTyped'
    BY <1>4 DEF InstallFails, TypeOK, ThreadsTyped, playerVars
  <2>3. LockHeld'
    BY <1>4 DEF InstallFails, TypeOK, LockHeld, Holding, playerVars
  <2>4. QED
    BY <2>1, <2>2, <2>3 DEF TypeOK
<1>5. ASSUME NEW a \in Admins, NEW s \in Symbols, InstallHook(a, s)
      PROVE  TypeOK'
  <2>1. RegistryTyped'
    BY <1>5 DEF InstallHook, TypeOK, RegistryTyped, chainVars
  <2>2. ThreadsTyped'
    BY <1>5 DEF InstallHook, TypeOK, ThreadsTyped, Jobs, playerVars
  <2>3. LockHeld'
    BY <1>5 DEF InstallHook, TypeOK, LockHeld, Holding, playerVars
  <2>4. QED
    BY <2>1, <2>2, <2>3 DEF TypeOK
<1>6. ASSUME NEW a \in Admins, InstallPublish(a)
      PROVE  TypeOK'
  <2>1. RegistryTyped'
    <3>1. current[a] \in Symbols
      BY <1>6 DEF InstallPublish, TypeOK, ThreadsTyped
    <3>2. Resolve(current[a]) \in Targets \cup {None}
      BY <3>1, ResolveType
    <3>3. saved' \in [Symbols -> Targets \cup {None}] /\ installed' \in [Symbols -> BOOLEAN]
      BY <1>6, <3>2 DEF InstallPublish, TypeOK, RegistryTyped
    <3>4. QED
      BY <1>6, <3>3 DEF InstallPublish, TypeOK, RegistryTyped, hookVars
  <2>2. ThreadsTyped'
    BY <1>6 DEF InstallPublish, TypeOK, ThreadsTyped, Jobs, playerVars
  <2>3. LockHeld'
    BY <1>6 DEF InstallPublish, TypeOK, LockHeld, Holding, playerVars
  <2>4. QED
    BY <2>1, <2>2, <2>3 DEF TypeOK
<1>7. ASSUME NEW a \in Admins, InstallDone(a)
      PROVE  TypeOK'
  <2>1. RegistryTyped'
    BY <1>7 DEF InstallDone, TypeOK, RegistryTyped, chainVars, hookVars
  <2>2. ThreadsTyped'
    BY <1>7 DEF InstallDone, TypeOK, ThreadsTyped, Jobs, playerVars
  <2>3. LockHeld'
    BY <1>7 DEF InstallDone, TypeOK, LockHeld, Holding, playerVars
  <2>4. QED
    BY <2>1, <2>2, <2>3 DEF TypeOK
<1>8. ASSUME NEW a \in Admins, Return(a)
      PROVE  TypeOK'
  <2>1. RegistryTyped'
    BY <1>8 DEF Return, TypeOK, RegistryTyped, chainVars, hookVars
  <2>2. ThreadsTyped'
    BY <1>8 DEF Return, TypeOK, ThreadsTyped, Jobs, playerVars
  <2>3. LockHeld'
    BY <1>8 DEF Return, TypeOK, LockHeld, Holding, playerVars
  <2>4. QED
    BY <2>1, <2>2, <2>3 DEF TypeOK
<1>9. ASSUME NEW a \in Admins, ClearFinish(a)
      PROVE  TypeOK'
  <2>1. RegistryTyped'
    BY <1>9, EraseTyped, UnhookTyped DEF ClearFinish, TypeOK, RegistryTyped
  <2>2. ThreadsTyped'
    BY <1>9 DEF ClearFinish, Erase, TypeOK, ThreadsTyped, Jobs, playerVars
  <2>3. LockHeld'
    BY <1>9 DEF ClearFinish, TypeOK, LockHeld, Holding, playerVars
  <2>4. QED
    BY <2>1, <2>2, <2>3 DEF TypeOK
<1>10. ASSUME NEW a \in Admins, InstallAll(a)
      PROVE  TypeOK'
  <2>1. RegistryTyped'
    BY <1>10 DEF InstallAll, TypeOK, RegistryTyped, chainVars, hookVars
  <2>2. ThreadsTyped'
    <3>1. job' \in [Admins -> Jobs] /\ job'[a] \in {"returned", "install"}
      BY <1>10 DEF InstallAll, TypeOK, ThreadsTyped, Jobs
    <3>2. pending' \in [Admins -> SUBSET Symbols]
      BY <1>10 DEF InstallAll, TypeOK, RegistryTyped, ThreadsTyped
    <3>3. \A b \in Admins \ {a} : job'[b] = job[b]
      BY <1>10 DEF InstallAll, TypeOK, ThreadsTyped
    <3>4. QED
      BY <1>10, <3>1, <3>2, <3>3
      DEF InstallAll, TypeOK, ThreadsTyped, playerVars
  <2>3. LockHeld'
    <3>1. readers' = {q \in Players : Holding(q)'}
      BY <1>10 DEF InstallAll, TypeOK, LockHeld, Holding, playerVars
    <3>2. QED
      BY <1>10, <3>1, ConstantsOK
      DEF InstallAll, CanWrite, Unlock, TypeOK, ThreadsTyped, LockHeld
  <2>4. QED
    BY <2>1, <2>2, <2>3 DEF TypeOK
<1>11. ASSUME NEW a \in Admins, NEW s \in Symbols, RegisterPtr(a, s)
      PROVE  TypeOK'
  <2>1. RegistryTyped'
    BY <1>11 DEF RegisterPtr, TypeOK, RegistryTyped, hookVars
  <2>2. ThreadsTyped'
    BY <1>11 DEF RegisterPtr, TypeOK, ThreadsTyped, adminVars, playerVars
  <2>3. LockHeld'
    BY <1>11 DEF RegisterPtr, TypeOK, LockHeld, Holding, adminVars, playerVars
  <2>4. QED
    BY <2>1, <2>2, <2>3 DEF TypeOK
<1>12. ASSUME NEW a \in Admins, NEW id \in Ids, Unregister(a, id)
      PROVE  TypeOK'
  <2>1. RegistryTyped'
    <3> DEFINE left == [s \in Symbols |-> RemoveAugment(entries[s], id)]
               gone == {s \in chains : left[s] = <<>>}
    <3>1. left \in [Symbols -> Seq(Catalog)]
      BY Priorities, RemoveAugmentKeepsOrder DEF TypeOK, RegistryTyped
    <3>2. Erase(gone, left) /\ Unhook(HookedBy(gone))
      BY <1>12 DEF Unregister
    <3> HIDE DEF left, gone
    <3>3. QED
      BY <1>12, <3>1, <3>2, EraseTyped, UnhookTyped
      DEF Unregister, TypeOK, RegistryTyped
  <2>2. ThreadsTyped'
    BY <1>12 DEF Unregister, Erase, TypeOK, ThreadsTyped, playerVars
  <2>3. LockHeld'
    BY <1>12 DEF Unregister, TypeOK, LockHeld, Holding, playerVars
  <2>4. QED
    BY <2>1, <2>2, <2>3 DEF TypeOK
<1>13. ASSUME NEW a \in Admins, ClearBegin(a)
      PROVE  TypeOK'
  <2>1. RegistryTyped'
    BY <1>13, UnhookTyped DEF ClearBegin, TypeOK, RegistryTyped, chainVars
  <2>2. ThreadsTyped'
    BY <1>13 DEF ClearBegin, TypeOK, ThreadsTyped, Jobs, playerVars
  <2>3. LockHeld'
    BY <1>13 DEF ClearBegin, TypeOK, LockHeld, Holding, playerVars
  <2>4. QED
    BY <2>1, <2>2, <2>3 DEF TypeOK
<1>14. ASSUME NEW a \in Admins, NEW t \in RawTargets, HookPtr(a, t)
      PROVE  TypeOK'
  <2>1. RegistryTyped'
    BY <1>14, ConstantsOK DEF HookPtr, TypeOK, RegistryTyped, chainVars
  <2>2. ThreadsTyped'
    BY <1>14 DEF HookPtr, TypeOK, ThreadsTyped, adminVars, playerVars
  <2>3. LockHeld'
    BY <1>14 DEF HookPtr, TypeOK, LockHeld, Holding, adminVars, playerVars
  <2>4. QED
    BY <2>1, <2>2, <2>3 DEF TypeOK
<1>15. ASSUME NEW a \in Admins, NEW t \in RawTargets, UnhookPtr(a, t)
      PROVE  TypeOK'
  <2>1. RegistryTyped'
    BY <1>15, UnhookTyped DEF UnhookPtr, TypeOK, RegistryTyped, chainVars
  <2>2. ThreadsTyped'
    BY <1>15 DEF UnhookPtr, TypeOK, ThreadsTyped, adminVars, playerVars
  <2>3. LockHeld'
    BY <1>15 DEF UnhookPtr, TypeOK, LockHeld, Holding, adminVars, playerVars
  <2>4. QED
    BY <2>1, <2>2, <2>3 DEF TypeOK
<1>16. ASSUME NEW a \in Admins, LoadManifest(a)
      PROVE  TypeOK'
  <2>1. RegistryTyped'
    BY <1>16 DEF LoadManifest, TypeOK, RegistryTyped, chainVars, hookVars
  <2>2. ThreadsTyped'
    BY <1>16 DEF LoadManifest, TypeOK, ThreadsTyped, adminVars, playerVars
  <2>3. LockHeld'
    BY <1>16 DEF LoadManifest, TypeOK, LockHeld, Holding, adminVars, playerVars
  <2>4. QED
    BY <2>1, <2>2, <2>3 DEF TypeOK
<1>17. ASSUME NEW p \in Players, NEW t \in Targets, EnterClosure(p, t)
      PROVE  TypeOK'
  <2>1. RegistryTyped'
    BY <1>17 DEF EnterClosure, TypeOK, RegistryTyped, chainVars, hookVars
  <2>2. ThreadsTyped'
    <3>1. [NoCall EXCEPT !.sym = patch[t], !.mode = "closure"] \in Calls
      BY <1>17, NoCallTyped DEF EnterClosure, Calls, Modes
    <3> HIDE DEF NoCall, Calls
    <3>2. call' \in [Players -> Calls] /\ call'[p].sym \in Symbols
      BY <1>17, <3>1 DEF EnterClosure, TypeOK, ThreadsTyped, NoCall
    <3>3. QED
      BY <1>17, <3>2 DEF EnterClosure, TypeOK, ThreadsTyped, Stages, adminVars
  <2>3. LockHeld'
    BY <1>17 DEF EnterClosure, TypeOK, LockHeld, Holding, adminVars
  <2>4. QED
    BY <2>1, <2>2, <2>3 DEF TypeOK
<1>18. ASSUME NEW p \in Players, NEW s \in Symbols, NEW mode \in ApiModes, CallApi(p, s, mode)
      PROVE  TypeOK'
  <2>1. RegistryTyped'
    BY <1>18 DEF CallApi, TypeOK, RegistryTyped, chainVars, hookVars
  <2>2. ThreadsTyped'
    <3>1. [NoCall EXCEPT !.sym = s, !.mode = mode] \in Calls
      BY <1>18, NoCallTyped, ConstantsOK DEF Calls, Modes
    <3>2. call' \in [Players -> Calls] /\ call'[p].sym \in Symbols
      BY <1>18, <3>1 DEF CallApi, TypeOK, ThreadsTyped, NoCall
    <3>3. QED
      BY <1>18, <3>2 DEF CallApi, TypeOK, ThreadsTyped, Stages, adminVars
  <2>3. LockHeld'
    BY <1>18 DEF CallApi, TypeOK, LockHeld, Holding, adminVars
  <2>4. QED
    BY <2>1, <2>2, <2>3 DEF TypeOK
<1>19. ASSUME NEW p \in Players, BeginBefore(p)
      PROVE  TypeOK'
  <2>1. RegistryTyped'
    <3>1. call[p].sym \in Symbols
      BY <1>19 DEF BeginBefore, TypeOK, ThreadsTyped
    <3>2. SortedIfDirty(entries[call[p].sym], dirty[call[p].sym]) \in Seq(Catalog)
      BY <3>1, Priorities, StableSortSorts
      DEF SortedIfDirty, TypeOK, RegistryTyped
    <3>3. QED
      BY <1>19, <3>1, <3>2 DEF BeginBefore, TypeOK, RegistryTyped, hookVars
  <2>2. ThreadsTyped'
    BY <1>19 DEF BeginBefore, TypeOK, ThreadsTyped, Stages, adminVars
  <2>3. LockHeld'
    <3>1. \A q \in Players \ {p} : Holding(q)' <=> Holding(q)
      BY <1>19 DEF BeginBefore, Holding, TypeOK, ThreadsTyped
    <3>2. ~Holding(p) /\ (Holding(p)' <=> call[p].sym \in chains)
      BY <1>19 DEF BeginBefore, Holding, TypeOK, ThreadsTyped, Calls
    <3>3. readers' = {q \in Players : Holding(q)'}
      BY <1>19, <3>1, <3>2 DEF BeginBefore, TypeOK, LockHeld
    <3>4. QED
      BY <1>19, <3>3 DEF BeginBefore, CanRead, TypeOK, LockHeld, adminVars
  <2>4. QED
    BY <2>1, <2>2, <2>3 DEF TypeOK
<1>20. ASSUME NEW p \in Players, RunBefore(p)
      PROVE  TypeOK'
  <2>1. RegistryTyped'
    BY <1>20 DEF RunBefore, TypeOK, RegistryTyped, chainVars, hookVars
  <2>2. ThreadsTyped'
    <3>1. call[p].sym \in Symbols
      BY <1>20 DEF RunBefore, TypeOK, ThreadsTyped
    <3> DEFINE hooks == entries[call[p].sym]
    <3>2. hooks \in Seq(Catalog)
      BY <3>1 DEF TypeOK, RegistryTyped
    <3>3. ASSUME NEW i \in DOMAIN hooks, NEW cancels \in BOOLEAN, Fire(p, i, cancels)
          PROVE  call' \in [Players -> Calls] /\ \A q \in Players : call'[q].sym = call[q].sym
      BY <3>1, <3>2, <3>3, FireTyped DEF TypeOK, ThreadsTyped
    <3>4. First(Remaining(hooks, "before", call[p].at)) \in DOMAIN hooks
      BY <1>20, <3>2, RemainingEntry DEF RunBefore, TypeOK, ThreadsTyped, Calls
    <3>5. call' \in [Players -> Calls] /\ \A q \in Players : call'[q].sym = call[q].sym
      BY <1>20, <3>3, <3>4 DEF RunBefore
    <3>6. QED
      BY <1>20, <3>5 DEF RunBefore, TypeOK, ThreadsTyped, Stages, adminVars
  <2>3. LockHeld'
    <3>1. \A q \in Players \ {p} : Holding(q)' <=> Holding(q)
      BY <1>20 DEF RunBefore, Fire, Holding, TypeOK, ThreadsTyped
    <3>2. Holding(p) /\ Holding(p)'
      BY <1>20 DEF RunBefore, Fire, Holding, TypeOK, ThreadsTyped, Calls
    <3>3. readers' = {q \in Players : Holding(q)'}
      BY <1>20, <3>1, <3>2 DEF RunBefore, TypeOK, LockHeld
    <3>4. QED
      BY <1>20, <3>3 DEF RunBefore, TypeOK, LockHeld, adminVars
  <2>4. QED
    BY <2>1, <2>2, <2>3 DEF TypeOK
<1>21. ASSUME NEW p \in Players, RunReplace(p)
      PROVE  TypeOK'
  <2>1. RegistryTyped'
    BY <1>21 DEF RunReplace, TypeOK, RegistryTyped, chainVars, hookVars
  <2>2. ThreadsTyped'
    <3>1. call[p].sym \in Symbols
      BY <1>21 DEF RunReplace, TypeOK, ThreadsTyped
    <3> DEFINE hooks == entries[call[p].sym]
    <3>2. hooks \in Seq(Catalog)
      BY <3>1 DEF TypeOK, RegistryTyped
    <3>3. ASSUME NEW i \in DOMAIN hooks, NEW cancels \in BOOLEAN, Fire(p, i, cancels)
          PROVE  call' \in [Players -> Calls] /\ \A q \in Players : call'[q].sym = call[q].sym
      BY <3>1, <3>2, <3>3, FireTyped DEF TypeOK, ThreadsTyped
    <3>4. First(Remaining(hooks, "replace", 1)) \in DOMAIN hooks
      BY <1>21, <3>2, RemainingEntry DEF RunReplace
    <3>5. call' \in [Players -> Calls] /\ \A q \in Players : call'[q].sym = call[q].sym
      BY <1>21, <3>3, <3>4 DEF RunReplace
    <3>6. QED
      BY <1>21, <3>5 DEF RunReplace, TypeOK, ThreadsTyped, Stages, adminVars
  <2>3. LockHeld'
    <3>1. \A q \in Players \ {p} : Holding(q)' <=> Holding(q)
      BY <1>21 DEF RunReplace, Fire, Holding, TypeOK, ThreadsTyped
    <3>2. Holding(p) /\ Holding(p)'
      BY <1>21 DEF RunReplace, Fire, Holding, TypeOK, ThreadsTyped, Calls
    <3>3. readers' = {q \in Players : Holding(q)'}
      BY <1>21, <3>1, <3>2 DEF RunReplace, TypeOK, LockHeld
    <3>4. QED
      BY <1>21, <3>3 DEF RunReplace, TypeOK, LockHeld, adminVars
  <2>4. QED
    BY <2>1, <2>2, <2>3 DEF TypeOK
<1>22. ASSUME NEW p \in Players, LeaveBefore(p)
      PROVE  TypeOK'
  <2>1. RegistryTyped'
    BY <1>22 DEF LeaveBefore, TypeOK, RegistryTyped, chainVars, hookVars
  <2>2. ThreadsTyped'
    <3>1. call[p].sym \in Symbols
      BY <1>22 DEF LeaveBefore, TypeOK, ThreadsTyped
    <3>2. Original(p) \in Targets \cup {None}
      BY <3>1 DEF Original, TypeOK, RegistryTyped
    <3>3. /\ [call[p] EXCEPT !.orig = Original(p), !.at = 1] \in Calls
          /\ [call[p] EXCEPT !.orig = Original(p), !.at = 1].sym = call[p].sym
      BY <3>2 DEF TypeOK, ThreadsTyped, Calls
    <3>4. call' \in [Players -> Calls] /\ \A q \in Players : call'[q].sym = call[q].sym
      BY <1>22, <3>3 DEF LeaveBefore, TypeOK, ThreadsTyped
    <3>5. QED
      BY <1>22, <3>4 DEF LeaveBefore, TypeOK, ThreadsTyped, Stages, adminVars
  <2>3. LockHeld'
    <3>1. \A q \in Players \ {p} : Holding(q)' <=> Holding(q)
      BY <1>22 DEF LeaveBefore, Original, Holding, TypeOK, ThreadsTyped
    <3>2. Holding(p) /\ (Holding(p)' <=> call[p].mode = "invoke")
      BY <1>22 DEF LeaveBefore, Original, Holding, TypeOK, ThreadsTyped, Calls
    <3>3. readers' = {q \in Players : Holding(q)'}
      BY <1>22, <3>1, <3>2 DEF LeaveBefore, UnlockShared, TypeOK, LockHeld
    <3>4. QED
      BY <1>22, <3>3 DEF LeaveBefore, UnlockShared, TypeOK, LockHeld, adminVars
  <2>4. QED
    BY <2>1, <2>2, <2>3 DEF TypeOK
<1>23. ASSUME NEW p \in Players, RunOriginal(p)
      PROVE  TypeOK'
  <2>1. RegistryTyped'
    BY <1>23 DEF RunOriginal, TypeOK, RegistryTyped, chainVars, hookVars
  <2>2. ThreadsTyped'
    BY <1>23 DEF RunOriginal, TypeOK, ThreadsTyped, Stages, Calls, adminVars
  <2>3. LockHeld'
    BY <1>23 DEF RunOriginal, TypeOK, LockHeld, Holding, adminVars
  <2>4. QED
    BY <2>1, <2>2, <2>3 DEF TypeOK
<1>24. ASSUME NEW p \in Players, BeginAfter(p)
      PROVE  TypeOK'
  <2>1. RegistryTyped'
    BY <1>24 DEF BeginAfter, TypeOK, RegistryTyped, chainVars, hookVars
  <2>2. ThreadsTyped'
    BY <1>24 DEF BeginAfter, TypeOK, ThreadsTyped, Stages, adminVars
  <2>3. LockHeld'
    <3>1. \A q \in Players \ {p} : Holding(q)' <=> Holding(q)
      BY <1>24 DEF BeginAfter, Holding, TypeOK, ThreadsTyped
    <3>2. ~Holding(p) /\ (Holding(p)' <=> call[p].sym \in chains)
      BY <1>24 DEF BeginAfter, Holding, TypeOK, ThreadsTyped, Calls
    <3>3. readers' = {q \in Players : Holding(q)'}
      BY <1>24, <3>1, <3>2 DEF BeginAfter, TypeOK, LockHeld
    <3>4. QED
      BY <1>24, <3>3 DEF BeginAfter, CanRead, TypeOK, LockHeld, adminVars
  <2>4. QED
    BY <2>1, <2>2, <2>3 DEF TypeOK
<1>25. ASSUME NEW p \in Players, RunAfter(p)
      PROVE  TypeOK'
  <2>1. RegistryTyped'
    BY <1>25 DEF RunAfter, TypeOK, RegistryTyped, chainVars, hookVars
  <2>2. ThreadsTyped'
    <3>1. call[p].sym \in Symbols
      BY <1>25 DEF RunAfter, TypeOK, ThreadsTyped
    <3> DEFINE hooks == entries[call[p].sym]
    <3>2. hooks \in Seq(Catalog)
      BY <3>1 DEF TypeOK, RegistryTyped
    <3>3. ASSUME NEW i \in DOMAIN hooks, NEW cancels \in BOOLEAN, Fire(p, i, cancels)
          PROVE  call' \in [Players -> Calls] /\ \A q \in Players : call'[q].sym = call[q].sym
      BY <3>1, <3>2, <3>3, FireTyped DEF TypeOK, ThreadsTyped
    <3>4. First(Remaining(hooks, "after", call[p].at)) \in DOMAIN hooks
      BY <1>25, <3>2, RemainingEntry DEF RunAfter, TypeOK, ThreadsTyped, Calls
    <3>5. call[p].cancelled \in BOOLEAN
      BY DEF TypeOK, ThreadsTyped, Calls
    <3>6. call' \in [Players -> Calls] /\ \A q \in Players : call'[q].sym = call[q].sym
      BY <1>25, <3>3, <3>4, <3>5 DEF RunAfter
    <3>7. QED
      BY <1>25, <3>6 DEF RunAfter, TypeOK, ThreadsTyped, Stages, adminVars
  <2>3. LockHeld'
    <3>1. \A q \in Players \ {p} : Holding(q)' <=> Holding(q)
      BY <1>25 DEF RunAfter, Fire, Holding, TypeOK, ThreadsTyped
    <3>2. Holding(p) /\ Holding(p)'
      BY <1>25 DEF RunAfter, Fire, Holding, TypeOK, ThreadsTyped, Calls
    <3>3. readers' = {q \in Players : Holding(q)'}
      BY <1>25, <3>1, <3>2 DEF RunAfter, TypeOK, LockHeld
    <3>4. QED
      BY <1>25, <3>3 DEF RunAfter, TypeOK, LockHeld, adminVars
  <2>4. QED
    BY <2>1, <2>2, <2>3 DEF TypeOK
<1>26. ASSUME NEW p \in Players, LeaveAfter(p)
      PROVE  TypeOK'
  <2>1. RegistryTyped'
    BY <1>26 DEF LeaveAfter, TypeOK, RegistryTyped, chainVars, hookVars
  <2>2. ThreadsTyped'
    BY <1>26 DEF LeaveAfter, TypeOK, ThreadsTyped, Stages, adminVars
  <2>3. LockHeld'
    <3>1. \A q \in Players \ {p} : Holding(q)' <=> Holding(q)
      BY <1>26 DEF LeaveAfter, Holding, TypeOK, ThreadsTyped
    <3>2. Holding(p) /\ ~Holding(p)'
      BY <1>26 DEF LeaveAfter, Holding, TypeOK, ThreadsTyped, Calls
    <3>3. readers' = {q \in Players : Holding(q)'}
      BY <1>26, <3>1, <3>2 DEF LeaveAfter, UnlockShared, TypeOK, LockHeld
    <3>4. QED
      BY <1>26, <3>3 DEF LeaveAfter, UnlockShared, TypeOK, LockHeld, adminVars
  <2>4. QED
    BY <2>1, <2>2, <2>3 DEF TypeOK
<1>27. ASSUME NEW p \in Players, Finish(p)
      PROVE  TypeOK'
  <2>1. RegistryTyped'
    BY <1>27 DEF Finish, TypeOK, RegistryTyped, chainVars, hookVars
  <2>2. ThreadsTyped'
    BY <1>27, NoCallTyped DEF Finish, TypeOK, ThreadsTyped, Stages, adminVars
  <2>3. LockHeld'
    BY <1>27 DEF Finish, TypeOK, LockHeld, Holding, adminVars
  <2>4. QED
    BY <2>1, <2>2, <2>3 DEF TypeOK
<1>28. CASE UNCHANGED vars
  BY <1>28 DEF vars, TypeOK, RegistryTyped, ThreadsTyped, LockHeld, Holding
<1>29. QED
  BY <1>1, <1>2, <1>3, <1>4, <1>5, <1>6, <1>7, <1>8, <1>9, <1>10, <1>11,
     <1>12, <1>13, <1>14, <1>15, <1>16, <1>17, <1>18, <1>19, <1>20, <1>21,
     <1>22, <1>23, <1>24, <1>25, <1>26, <1>27, <1>28
  DEF Next, AdminCall, AdminStep, PlayerCall, PlayerStep
(* Every reachable state is well formed, and m_mutex is held by exactly    *)
(* the threads whose call is inside a locked region, at most one of them   *)
(* exclusively and then nobody beside it (registry.cpp:98-121, 237-263).   *)
THEOREM Typing == Spec => []TypeOK
<1>1. Init => TypeOK
  BY InitTyped
<1>2. TypeOK /\ [Next]_vars => TypeOK'
  BY StepTyped
<1>3. QED
  BY <1>1, <1>2, PTL DEF Spec

-----------------------------------------------------------------------------
(* The steps that touch the entries of a chain.                            *)

LEMMA EntrySteps ==
    ASSUME [Next]_vars
    PROVE  \/ UNCHANGED <<entries, dirty>>
           \/ \E a \in Admins : RegisterCommit(a) \/ ClearFinish(a)
           \/ \E a \in Admins, id \in Ids : Unregister(a, id)
           \/ \E p \in Players : BeginBefore(p)
<1>1. CASE UNCHANGED vars
  BY <1>1 DEF vars
<1>2. ASSUME NEW a \in Admins, AdminStep(a)
      PROVE  UNCHANGED <<entries, dirty>> \/ RegisterCommit(a) \/ ClearFinish(a)
  BY <1>2 DEF AdminStep, chainVars, RegisterCheck, InstallFails, InstallHook,
              InstallPublish, InstallDone, Return
<1>3. ASSUME NEW a \in Admins, AdminCall(a)
      PROVE  UNCHANGED <<entries, dirty>> \/ \E id \in Ids : Unregister(a, id)
  BY <1>3 DEF AdminCall, chainVars, RegisterCall, RegisterPtr, HookPtr, UnhookPtr,
              InstallAll, ClearBegin, LoadManifest
<1>4. ASSUME NEW p \in Players, PlayerStep(p)
      PROVE  UNCHANGED <<entries, dirty>> \/ BeginBefore(p)
  BY <1>4 DEF PlayerStep, chainVars, RunBefore, RunReplace, LeaveBefore,
              RunOriginal, BeginAfter, RunAfter, LeaveAfter, Finish
<1>5. ASSUME NEW p \in Players, PlayerCall(p)
      PROVE  UNCHANGED <<entries, dirty>>
  BY <1>5 DEF PlayerCall, chainVars, EnterClosure, CallApi
<1>6. QED
  BY <1>1, <1>2, <1>3, <1>4, <1>5 DEF Next

(* What a commit, a removal and a clear leave in the chains.               *)
LEMMA CommitEffect ==
    ASSUME TypeOK, NEW a \in Admins, RegisterCommit(a)
    PROVE  /\ req[a].sym \in Symbols /\ req[a].entry \in Catalog
           /\ Append(entries[req[a].sym], req[a].entry) \in Seq(Catalog)
           /\ entries' = [entries EXCEPT ![req[a].sym] =
                             StableSort(Append(entries[req[a].sym], req[a].entry))]
           /\ dirty' = [dirty EXCEPT ![req[a].sym] = FALSE]
<1>1. req[a] \in Requests
  BY DEF RegisterCommit, TypeOK, ThreadsTyped
<1>2. req[a].sym \in Symbols /\ req[a].entry \in Catalog
  BY <1>1 DEF Requests
<1>3. Append(entries[req[a].sym], req[a].entry) \in Seq(Catalog)
  BY <1>2 DEF TypeOK, RegistryTyped
<1>4. QED
  BY <1>2, <1>3 DEF RegisterCommit, SortedIfDirty

LEMMA UnregisterEffect ==
    ASSUME NEW a \in Admins, NEW id \in Ids, Unregister(a, id)
    PROVE  \A s \in Symbols :
              /\ entries'[s] \in {<<>>, RemoveAugment(entries[s], id)}
              /\ dirty'[s] => dirty[s]
<1> DEFINE left == [s \in Symbols |-> RemoveAugment(entries[s], id)]
           gone == {s \in chains : left[s] = <<>>}
<1>1. Erase(gone, left)
  BY DEF Unregister
<1> HIDE DEF gone
<1>2. QED
  BY <1>1 DEF Erase

LEMMA ClearEffect ==
    ASSUME NEW a \in Admins, ClearFinish(a)
    PROVE  \A s \in Symbols : entries'[s] \in {<<>>, entries[s]} /\ (dirty'[s] => dirty[s])
BY DEF ClearFinish, Erase

(* A chain without entries is sorted and at peace.                         *)
LEMMA EmptyChain == InRunOrder(<<>>) /\ Peaceful(<<>>)
BY DEF InRunOrder, Peaceful

(* A chain is sorted whenever somebody can read it, so that the sort with  *)
(* which run_before starts never writes under the shared lock              *)
(* (chain.cpp:32).                                                         *)
THEOREM ChainsAreSorted == Spec => []ReadersFindChainsSorted
<1>1. Init => ReadersFindChainsSorted
  BY EmptyChain DEF Init, ReadersFindChainsSorted
<1>2. ASSUME TypeOK, ReadersFindChainsSorted, [Next]_vars
      PROVE  ReadersFindChainsSorted'
  <2>1. CASE UNCHANGED <<entries, dirty>>
    BY <1>2, <2>1 DEF ReadersFindChainsSorted, InRunOrder
  <2>2. ASSUME NEW a \in Admins, RegisterCommit(a)
        PROVE  ReadersFindChainsSorted'
    <3> DEFINE longer == Append(entries[req[a].sym], req[a].entry)
    <3>1. longer \in Seq(Catalog)
      BY <1>2, <2>2, CommitEffect
    <3>2. InRunOrder(StableSort(longer))
      BY <3>1, Priorities, StableSortSorts
    <3>3. \A s \in Symbols : /\ entries'[s] \in {entries[s], StableSort(longer)}
                             /\ dirty'[s] => dirty[s]
      BY <1>2, <2>2, CommitEffect DEF TypeOK, RegistryTyped
    <3> HIDE DEF longer
    <3>4. QED
      BY <1>2, <3>2, <3>3 DEF ReadersFindChainsSorted, InRunOrder
  <2>3. ASSUME NEW a \in Admins, NEW id \in Ids, Unregister(a, id)
        PROVE  ReadersFindChainsSorted'
    <3>1. \A s \in Symbols : InRunOrder(RemoveAugment(entries[s], id))
      BY <1>2, Priorities, RemoveAugmentKeepsOrder
      DEF ReadersFindChainsSorted, TypeOK, RegistryTyped
    <3>2. QED
      BY <1>2, <2>3, <3>1, UnregisterEffect, EmptyChain
      DEF ReadersFindChainsSorted, InRunOrder
  <2>4. ASSUME NEW a \in Admins, ClearFinish(a)
        PROVE  ReadersFindChainsSorted'
    BY <1>2, <2>4, ClearEffect, EmptyChain DEF ReadersFindChainsSorted, InRunOrder
  <2>5. ASSUME NEW p \in Players, BeginBefore(p)
        PROVE  ReadersFindChainsSorted'
    BY <1>2, <2>5 DEF BeginBefore, SortedIfDirty, ReadersFindChainsSorted, InRunOrder,
                      TypeOK, RegistryTyped
  <2>6. QED
    BY <1>2, <2>1, <2>2, <2>3, <2>4, <2>5, EntrySteps
<1>3. QED
  BY <1>1, <1>2, Typing, PTL DEF Spec

(* While somebody holds the lock shared, no step changes a chain.          *)
LEMMA ReadersKeepWritersOut ==
    ASSUME TypeOK, ReadersFindChainsSorted, [Next]_vars, readers # {}
    PROVE  UNCHANGED <<chains, entries>>
<1>1. ~CanWrite /\ \A a \in Admins : job[a] # "checked"
  BY ConstantsOK DEF CanWrite, TypeOK, LockHeld
<1>2. ASSUME NEW a \in Admins, AdminStep(a) PROVE UNCHANGED <<chains, entries>>
  BY <1>1, <1>2 DEF AdminStep, chainVars, RegisterCheck, RegisterCommit, InstallFails,
                    InstallHook, InstallPublish, InstallDone, Return, ClearFinish
<1>3. ASSUME NEW a \in Admins, AdminCall(a) PROVE UNCHANGED <<chains, entries>>
  BY <1>1, <1>3 DEF AdminCall, chainVars, RegisterCall, RegisterPtr, HookPtr,
                    UnhookPtr, InstallAll, ClearBegin, LoadManifest, Unregister
<1>4. ASSUME NEW p \in Players, BeginBefore(p) PROVE UNCHANGED <<chains, entries>>
  BY <1>4 DEF BeginBefore, SortedIfDirty, ReadersFindChainsSorted,
              TypeOK, RegistryTyped, ThreadsTyped
<1>5. ASSUME NEW p \in Players, PlayerStep(p) PROVE UNCHANGED <<chains, entries>>
  BY <1>4, <1>5 DEF PlayerStep, chainVars, RunBefore, RunReplace, LeaveBefore,
                    RunOriginal, BeginAfter, RunAfter, LeaveAfter, Finish
<1>6. ASSUME NEW p \in Players, PlayerCall(p) PROVE UNCHANGED <<chains, entries>>
  BY <1>6 DEF PlayerCall, chainVars, EnterClosure, CallApi
<1>7. QED
  BY <1>2, <1>3, <1>5, <1>6 DEF Next, vars

(* While a thread walks a chain nobody changes it: before, after and       *)
(* dispatch may keep iterators and the Chain* for as long as they hold the *)
(* shared lock (registry.cpp:237-263).                                     *)
THEOREM WalkersAreSafe == Spec => WalkedChainsDoNotChange
<1>1. TypeOK /\ ReadersFindChainsSorted /\ [Next]_vars
         => [readers \cap readers' # {} => UNCHANGED <<chains, entries>>]_vars
  BY ReadersKeepWritersOut
<1>2. QED
  BY <1>1, Typing, ChainsAreSorted, PTL DEF Spec, WalkedChainsDoNotChange

-----------------------------------------------------------------------------
(* Between the check and the insertion of a registration nothing that it   *)
(* was checked against may change: the strengthening without which the     *)
(* absence of hard conflicts is not inductive.                             *)
CheckedIsAdmissible ==
    \A a \in Admins : job[a] = "checked" =>
        \A i \in DOMAIN entries[req[a].sym] :
            ~HardPair(req[a].entry, entries[req[a].sym][i])

Admission == NoHardConflict /\ CheckedIsAdmissible

LEMMA NoHardConflictIsPeace ==
    NoHardConflict <=> \A s \in Symbols : Peaceful(entries[s])
BY DEF NoHardConflict, Peaceful

LEMMA PeaceStep ==
    ASSUME TypeOK, Admission, ReadersFindChainsSorted, [Next]_vars
    PROVE  NoHardConflict'
<1>1. \A s \in Symbols : Peaceful(entries[s])
  BY NoHardConflictIsPeace DEF Admission
<1>2. SUFFICES \A s \in Symbols : Peaceful(entries'[s])
  BY DEF NoHardConflict, Peaceful
<1>3. CASE UNCHANGED <<entries, dirty>>
  BY <1>1, <1>3
<1>4. ASSUME NEW a \in Admins, RegisterCommit(a)
      PROVE  \A s \in Symbols : Peaceful(entries'[s])
  <2> DEFINE hooks == entries[req[a].sym]
             longer == Append(hooks, req[a].entry)
  <2>1. /\ req[a].sym \in Symbols /\ req[a].entry \in Catalog
        /\ hooks \in Seq(Catalog) /\ longer \in Seq(Catalog)
    BY <1>4, CommitEffect DEF TypeOK, RegistryTyped
  <2>2. \A i \in DOMAIN hooks : ~HardPair(req[a].entry, hooks[i])
    BY <1>4 DEF RegisterCommit, Admission, CheckedIsAdmissible
  <2>3. Peaceful(longer)
    BY <1>1, <2>1, <2>2, AppendKeepsPeace
  <2>4. Peaceful(StableSort(longer))
    BY <2>1, <2>3, Priorities, StableSortSorts
  <2>5. \A s \in Symbols : entries'[s] \in {entries[s], StableSort(longer)}
    BY <1>4, CommitEffect DEF TypeOK, RegistryTyped
  <2> HIDE DEF longer
  <2>6. QED
    BY <1>1, <2>4, <2>5
<1>5. ASSUME NEW a \in Admins, NEW id \in Ids, Unregister(a, id)
      PROVE  \A s \in Symbols : Peaceful(entries'[s])
  <2>1. \A s \in Symbols : Peaceful(RemoveAugment(entries[s], id))
    BY <1>1, Priorities, RemoveAugmentKeepsOrder DEF TypeOK, RegistryTyped
  <2>2. QED
    BY <1>5, <2>1, UnregisterEffect, EmptyChain
<1>6. ASSUME NEW a \in Admins, ClearFinish(a)
      PROVE  \A s \in Symbols : Peaceful(entries'[s])
  BY <1>1, <1>6, ClearEffect, EmptyChain
<1>7. ASSUME NEW p \in Players, BeginBefore(p)
      PROVE  \A s \in Symbols : Peaceful(entries'[s])
  <2>1. \A s \in Symbols : entries'[s] = entries[s]
    BY <1>7 DEF BeginBefore, SortedIfDirty, ReadersFindChainsSorted, TypeOK, RegistryTyped
  <2>2. QED
    BY <1>1, <2>1
<1>8. QED
  BY <1>3, <1>4, <1>5, <1>6, <1>7, EntrySteps

(* Only the holder of the exclusive lock has a checked registration, and   *)
(* its chain and request stay as they were until it commits.               *)
LEMMA CheckedStep ==
    ASSUME TypeOK, Admission, ReadersFindChainsSorted, [Next]_vars
    PROVE  CheckedIsAdmissible'
<1>1. SUFFICES ASSUME NEW a \in Admins, job'[a] = "checked",
                      NEW i \in DOMAIN entries'[req'[a].sym]
               PROVE  ~HardPair(req'[a].entry, entries'[req'[a].sym][i])
  BY DEF CheckedIsAdmissible
<1>2. TypeOK'
  BY StepTyped
<1>3. writer' = a /\ a # None
  BY <1>1, <1>2, ConstantsOK DEF TypeOK, LockHeld
<1>4. CASE job[a] = "checked"
  <2>1. writer = a
    BY <1>4 DEF TypeOK, LockHeld
  <2>2. ~CanWrite /\ ~CanRead /\ \A b \in Admins \ {a} : job[b] # "checked"
    BY <1>3, <2>1 DEF CanWrite, CanRead, TypeOK, LockHeld
  <2>3. UNCHANGED entries
    BY <1>1, <2>2, EntrySteps
    DEF RegisterCommit, ClearFinish, Unregister, BeginBefore, TypeOK, ThreadsTyped
  <2>4. req'[a] = req[a]
    BY <1>1, <1>4, <2>1
    DEF Next, vars, AdminCall, AdminStep, PlayerCall, PlayerStep, adminVars,
        RegisterCall, RegisterCheck, RegisterCommit, InstallFails, InstallHook,
        InstallPublish, InstallDone, Return, InstallAll, RegisterPtr, Unregister,
        ClearBegin, ClearFinish, HookPtr, UnhookPtr, LoadManifest, EnterClosure,
        CallApi, BeginBefore, RunBefore, RunReplace, LeaveBefore, RunOriginal,
        BeginAfter, RunAfter, LeaveAfter, Finish, TypeOK, ThreadsTyped
  <2>5. QED
    BY <1>1, <1>4, <2>3, <2>4 DEF Admission, CheckedIsAdmissible
<1>5. CASE job[a] # "checked"
  <2>1. RegisterCheck(a)
    BY <1>1, <1>5
    DEF Next, vars, AdminCall, AdminStep, PlayerCall, PlayerStep, adminVars,
        RegisterCall, RegisterCheck, RegisterCommit, InstallFails, InstallHook,
        InstallPublish, InstallDone, Return, InstallAll, RegisterPtr, Unregister,
        ClearBegin, ClearFinish, HookPtr, UnhookPtr, LoadManifest, EnterClosure,
        CallApi, BeginBefore, RunBefore, RunReplace, LeaveBefore, RunOriginal,
        BeginAfter, RunAfter, LeaveAfter, Finish, TypeOK, ThreadsTyped
  <2>2. UNCHANGED <<entries, req>>
    BY <2>1 DEF RegisterCheck
  <2>3. ConflictCheck(entries[req[a].sym], req[a].entry) # "hard"
    BY <1>1, <2>1 DEF RegisterCheck, TypeOK, ThreadsTyped
  <2>4. QED
    BY <1>1, <2>2, <2>3 DEF ConflictCheck
<1>6. QED
  BY <1>4, <1>5

(* Both hold in every reachable state.                                     *)
LEMMA AdmissionHolds == Spec => []Admission
<1>1. Init => Admission
  BY DEF Init, Admission, NoHardConflict, CheckedIsAdmissible
<1>2. TypeOK /\ ReadersFindChainsSorted /\ Admission /\ [Next]_vars => Admission'
  BY PeaceStep, CheckedStep DEF Admission
<1>3. QED
  BY <1>1, <1>2, Typing, ChainsAreSorted, PTL DEF Spec

(* No chain ever holds two hooks that conflict_check calls class 3, though *)
(* any number of threads check and insert at once (registry.cpp:98-115).   *)
THEOREM NoConflictAdmitted == Spec => []NoHardConflict
<1>1. Admission => NoHardConflict
  BY DEF Admission
<1>2. QED
  BY <1>1, AdmissionHolds, PTL

-----------------------------------------------------------------------------
(* Registry implements HookTable: under the mapping that reads the table   *)
(* off the chains, every step of any number of admins and players is a     *)
(* registration, a removal or a clear of the table, or leaves it alone.    *)

(* HookTable counts as Registry does.                                      *)
LEMMA SameCardinality == ASSUME NEW K PROVE Table!Cardinality(K) = Cardinality(K)
BY DEF Table!Cardinality, Cardinality

(* Chain::remove_augment keeps the others in their order: the abstract     *)
(* table says so by an increasing choice of positions.                     *)
LEMMA RemovalIsWithout ==
    ASSUME NEW s \in Seq(Catalog), NEW id
    PROVE  RemoveAugment(s, id) = Table!Without(s, id)
<1> DEFINE K == {i \in DOMAIN s : s[i].id # id}
           R == Position(s)
           n == Cardinality(K)
           pick == Table!Rising(K)
           nth == [k \in 1 .. n |-> Nth(K, R, k)]
<1>1. /\ K \in SUBSET DOMAIN s
      /\ StrictTotalOrder(R, K) /\ IsFiniteSet(K) /\ n \in Nat
  BY Priorities, Orders, IndicesAreFinite
<1>2. \A i, j \in K : <<i, j>> \in R <=> i < j
  BY DEF Position
<1> HIDE DEF K, R, n
<1>3. nth \in [1 .. n -> K]
  BY <1>1, Ranks DEF n
<1>4. \A k, l \in 1 .. n : k < l => nth[k] < nth[l]
  BY <1>1, <1>2, <1>3, NthFollowsOrder DEF n
<1> HIDE DEF nth
<1>5. /\ pick \in [1 .. n -> K]
      /\ \A k, l \in 1 .. n : k < l => pick[k] < pick[l]
  <2> DEFINE Good(f) == \A k, l \in 1 .. n : k < l => f[k] < f[l]
  <2>1. pick = CHOOSE f \in [1 .. n -> K] : Good(f)
    BY SameCardinality DEF Table!Rising, n
  <2> HIDE DEF pick
  <2>2. nth \in [1 .. n -> K] /\ Good(nth)
    BY <1>3, <1>4
  <2> HIDE DEF Good
  <2>3. pick \in [1 .. n -> K] /\ Good(pick)
    BY <2>1, <2>2
  <2>4. QED
    BY <2>3 DEF Good
<1> HIDE DEF pick
<1>6. \A k \in 1 .. n : Nth(K, R, k) = pick[k]
  BY <1>1, <1>2, <1>5, IncreasingIsNth DEF n
<1>7. RemoveAugment(s, id) = [k \in 1 .. n |-> s[Nth(K, R, k)]]
  BY DEF RemoveAugment, Selection, Listing, K, R, n
<1>8. Table!Without(s, id) = [k \in 1 .. n |-> s[pick[k]]]
  BY <1>5 DEF Table!Without, K, pick
<1>9. QED
  BY <1>6, <1>7, <1>8

(* Only nodes of m_chains have entries, and a registration that has been   *)
(* checked has its node: what makes a clear of m_chains a clear of the     *)
(* table.                                                                  *)
NodesHoldEntries ==
    /\ \A s \in Symbols : s \notin chains => entries[s] = <<>>
    /\ \A a \in Admins : job[a] = "checked" => req[a].sym \in chains

LEMMA NodesStep ==
    ASSUME TypeOK, NodesHoldEntries, [Next]_vars
    PROVE  NodesHoldEntries'
<1>1. CASE UNCHANGED <<chains, entries, job, req>>
  BY <1>1 DEF NodesHoldEntries
<1>2. ASSUME NEW a \in Admins, AdminStep(a) PROVE NodesHoldEntries'
  <2>1. CASE RegisterCheck(a)
    BY <2>1 DEF RegisterCheck, NodesHoldEntries, TypeOK, ThreadsTyped
  <2>2. CASE RegisterCommit(a)
    <3>1. /\ UNCHANGED <<chains, req>> /\ req[a].sym \in chains
          /\ \A s \in Symbols : s # req[a].sym => entries'[s] = entries[s]
          /\ \A b \in Admins : job'[b] = "checked" => job[b] = "checked"
      BY <2>2 DEF RegisterCommit, NodesHoldEntries, TypeOK, RegistryTyped, ThreadsTyped
    <3>2. QED
      BY <3>1 DEF NodesHoldEntries
  <2>3. CASE ClearFinish(a)
    <3>1. chains' = {} /\ \A s \in Symbols : entries'[s] = <<>>
      BY <2>3 DEF ClearFinish, Erase, NodesHoldEntries
    <3>2. \A b \in Admins : job'[b] # "checked"
      BY <2>3, ConstantsOK DEF ClearFinish, CanWrite, TypeOK, ThreadsTyped, LockHeld
    <3>3. QED
      BY <3>1, <3>2 DEF NodesHoldEntries
  <2>4. ASSUME NEW s \in Symbols, InstallFails(a, s) \/ InstallHook(a, s)
        PROVE  NodesHoldEntries'
    BY <2>4 DEF InstallFails, InstallHook, chainVars, NodesHoldEntries, TypeOK, ThreadsTyped
  <2>5. CASE InstallPublish(a) \/ InstallDone(a)
    BY <2>5 DEF InstallPublish, InstallDone, chainVars, NodesHoldEntries, TypeOK, ThreadsTyped
  <2>6. CASE Return(a)
    BY <2>6 DEF Return, chainVars, NodesHoldEntries, TypeOK, ThreadsTyped
  <2>7. QED
    BY <1>2, <2>1, <2>2, <2>3, <2>4, <2>5, <2>6 DEF AdminStep
<1>3. ASSUME NEW a \in Admins, AdminCall(a) PROVE NodesHoldEntries'
  <2>1. ASSUME NEW s \in Symbols, NEW e \in Catalog, RegisterCall(a, s, e)
        PROVE  NodesHoldEntries'
    BY <2>1 DEF RegisterCall, chainVars, NodesHoldEntries, TypeOK, ThreadsTyped
  <2>2. ASSUME NEW s \in Symbols, RegisterPtr(a, s)
        PROVE  NodesHoldEntries'
    BY <2>2 DEF RegisterPtr, adminVars, NodesHoldEntries
  <2>3. ASSUME NEW id \in Ids, Unregister(a, id)
        PROVE  NodesHoldEntries'
    <3> DEFINE left == [s \in Symbols |-> RemoveAugment(entries[s], id)]
               gone == {s \in chains : left[s] = <<>>}
    <3>1. Erase(gone, left) /\ job' = job
      BY <2>3 DEF Unregister
    <3>2. \A b \in Admins : job'[b] # "checked"
      BY <2>3, <3>1, ConstantsOK DEF Unregister, CanWrite, TypeOK, LockHeld
    <3>3. \A s \in Symbols : s \notin chains => left[s] = <<>>
      <4>1. <<>> \in Seq(Catalog) /\ RemoveAugment(<<>>, id) = <<>>
        BY FS_EmptySet, Priorities, RemoveAugmentKeepsOrder DEF RemoveAugment, Selection, Listing
      <4>2. QED
        BY <4>1 DEF NodesHoldEntries
    <3> HIDE DEF left
    <3>4. \A s \in Symbols : s \notin chains' => entries'[s] = <<>>
      BY <3>1, <3>3 DEF Erase
    <3>5. QED
      BY <3>2, <3>4 DEF NodesHoldEntries
  <2>4. ASSUME NEW t \in RawTargets, HookPtr(a, t) \/ UnhookPtr(a, t)
        PROVE  NodesHoldEntries'
    BY <1>1, <2>4 DEF HookPtr, UnhookPtr, chainVars, adminVars
  <2>5. CASE InstallAll(a) \/ ClearBegin(a)
    <3>1. /\ UNCHANGED <<chains, entries, req>>
          /\ \A b \in Admins : job'[b] = "checked" => job[b] = "checked"
      BY <2>5 DEF InstallAll, ClearBegin, chainVars, TypeOK, ThreadsTyped
    <3>2. QED
      BY <3>1 DEF NodesHoldEntries
  <2>6. CASE LoadManifest(a)
    BY <1>1, <2>6 DEF LoadManifest, chainVars, adminVars
  <2>7. QED
    BY <1>3, <2>1, <2>2, <2>3, <2>4, <2>5, <2>6 DEF AdminCall
<1>4. ASSUME NEW p \in Players, PlayerStep(p) PROVE NodesHoldEntries'
  <2>1. CASE BeginBefore(p)
    <3>1. call[p].sym \in Symbols
      BY <2>1 DEF BeginBefore, TypeOK, ThreadsTyped
    <3>2. StableSort(<<>>) = <<>>
      BY FS_EmptySet DEF StableSort, Listing
    <3>3. \A s \in Symbols : s \notin chains => entries'[s] = <<>>
      BY <2>1, <3>1, <3>2 DEF BeginBefore, SortedIfDirty, NodesHoldEntries, TypeOK, RegistryTyped
    <3>4. QED
      BY <2>1, <3>3 DEF BeginBefore, adminVars, NodesHoldEntries
  <2>2. CASE UNCHANGED <<chainVars, adminVars>>
    BY <1>1, <2>2 DEF chainVars, adminVars
  <2>3. QED
    BY <1>4, <2>1, <2>2
    DEF PlayerStep, RunBefore, RunReplace, LeaveBefore, RunOriginal, BeginAfter,
        RunAfter, LeaveAfter, Finish
<1>5. ASSUME NEW p \in Players, PlayerCall(p) PROVE NodesHoldEntries'
  BY <1>1, <1>5 DEF PlayerCall, EnterClosure, CallApi, chainVars, adminVars
<1>6. QED
  BY <1>1, <1>2, <1>3, <1>4, <1>5 DEF Next, vars

LEMMA NodesInvariant == Spec => []NodesHoldEntries
<1>1. Init => NodesHoldEntries
  BY DEF Init, NodesHoldEntries
<1>2. TypeOK /\ NodesHoldEntries /\ [Next]_vars => NodesHoldEntries'
  BY NodesStep
<1>3. QED
  BY <1>1, <1>2, Typing, PTL DEF Spec

-----------------------------------------------------------------------------
(* The three steps of the table.                                           *)

LEMMA SameHardPair == ASSUME NEW d, NEW e PROVE Table!HardPair(d, e) <=> HardPair(d, e)
BY DEF Table!HardPair, Table!Intersects, HardPair, Intersects

LEMMA CommitRegisters ==
    ASSUME TypeOK, ReadersFindChainsSorted, Admission, NEW a \in Admins, RegisterCommit(a)
    PROVE  Table!Register(req[a].sym, req[a].entry)
<1> DEFINE s == req[a].sym
           e == req[a].entry
           hooks == entries[s]
<1>1. /\ s \in Symbols /\ e \in Catalog /\ hooks \in Seq(Catalog)
      /\ entries' = [entries EXCEPT ![s] = StableSort(Append(hooks, e))]
  BY CommitEffect DEF TypeOK, RegistryTyped
<1>2. Table!Compatible(s, e)
  BY SameHardPair DEF Table!Compatible, RegisterCommit, Admission, CheckedIsAdmissible
<1>3. InRunOrder(hooks)
  BY <1>1 DEF ReadersFindChainsSorted
<1> HIDE DEF s, e
<1>4. PICK k : PlaceOf(hooks, e, k)
  BY <1>1, <1>3, Priorities, PlaceExists
<1>5. StableSort(Append(hooks, e))
         = SubSeq(hooks, 1, k) \o <<e>> \o SubSeq(hooks, k + 1, Len(hooks))
  <2> HIDE DEF hooks
  <2>1. QED
    BY <1>1, <1>3, <1>4, Priorities, SortInserts
<1>6. Table!Register(s, e)
  BY <1>1, <1>2, <1>4, <1>5 DEF PlaceOf, Table!Register
<1>7. QED
  BY <1>6 DEF s, e

LEMMA UnregisterUnregisters ==
    ASSUME TypeOK, NEW a \in Admins, NEW id \in Ids, Unregister(a, id)
    PROVE  Table!Unregister(id)
<1>1. \A s \in Symbols : RemoveAugment(entries[s], id) = Table!Without(entries[s], id)
  BY RemovalIsWithout DEF TypeOK, RegistryTyped
<1> DEFINE left == [s \in Symbols |-> RemoveAugment(entries[s], id)]
           gone == {s \in chains : left[s] = <<>>}
<1>2. Erase(gone, left)
  BY DEF Unregister
<1>3. \A s \in gone : left[s] = <<>>
  OBVIOUS
<1> HIDE DEF gone
<1>4. entries' = [s \in Symbols |-> RemoveAugment(entries[s], id)]
  BY <1>2, <1>3 DEF Erase
<1>5. QED
  BY <1>1, <1>4 DEF Table!Unregister

LEMMA ClearClears ==
    ASSUME NodesHoldEntries, NEW a \in Admins, ClearFinish(a)
    PROVE  Table!Clear
BY DEF ClearFinish, Erase, NodesHoldEntries, Table!Clear

(* Every step of the threads is a step of the table or leaves it as it is. *)
LEMMA TableStep ==
    ASSUME TypeOK, ReadersFindChainsSorted, Admission, NodesHoldEntries, [Next]_vars
    PROVE  [Table!Next]_entries
<1>1. ASSUME NEW a \in Admins, RegisterCommit(a) PROVE Table!Next
  BY <1>1, CommitRegisters, CommitEffect DEF Table!Next
<1>2. ASSUME NEW a \in Admins, NEW id \in Ids, Unregister(a, id) PROVE Table!Next
  BY <1>2, UnregisterUnregisters DEF Table!Next, Ids
<1>3. ASSUME NEW a \in Admins, ClearFinish(a) PROVE Table!Next
  BY <1>3, ClearClears DEF Table!Next
<1>4. ASSUME NEW p \in Players, BeginBefore(p) PROVE UNCHANGED entries
  BY <1>4 DEF BeginBefore, SortedIfDirty, ReadersFindChainsSorted, TypeOK, RegistryTyped,
              ThreadsTyped
<1>5. QED
  BY <1>1, <1>2, <1>3, <1>4, EntrySteps

(* The registry implements the table: whatever the threads do, a symbol's  *)
(* hooks change only by a compatible insertion at the right place, by the  *)
(* removal of one owner's hooks, or by a clear, each in one visible step   *)
(* (registry.cpp:98-121, 187-205, 223-235).                                *)
THEOREM RegistryImplementsHookTable == Spec => ImplementsHookTable
<1>1. Init => Table!Init
  BY DEF Init, Table!Init
<1>2. TypeOK /\ ReadersFindChainsSorted /\ Admission /\ NodesHoldEntries /\ [Next]_vars
         => [Table!Next]_entries
  BY TableStep
<1>3. QED
  BY <1>1, <1>2, Typing, ChainsAreSorted, AdmissionHolds, NodesInvariant, PTL
  DEF Spec, ImplementsHookTable, Table!Spec

=============================================================================
