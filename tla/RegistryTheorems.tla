-------------------------- MODULE RegistryTheorems --------------------------
(***************************************************************************)
(* Theorems about one hooked call, from its entry into the runtime to its  *)
(* return, beside any number of other calls and of threads that register,  *)
(* remove and clear hooks while it is under way; and about the patches in  *)
(* the code of the host.                                                   *)
(***************************************************************************)
EXTENDS RegistryProofs

(* Only its own thread moves a call.                                       *)
LEMMA CallSteps ==
    ASSUME TypeOK, [Next]_vars, NEW p \in Players
    PROVE  \/ call'[p] = call[p] /\ stage'[p] = stage[p]
           \/ PlayerCall(p)
           \/ PlayerStep(p)
<1>1. ASSUME NEW a \in Admins, AdminCall(a) \/ AdminStep(a)
      PROVE  UNCHANGED playerVars
  BY <1>1 DEF AdminCall, AdminStep, RegisterCall, RegisterCheck, RegisterCommit,
              InstallFails, InstallHook, InstallPublish, InstallDone, Return,
              InstallAll, RegisterPtr, Unregister, ClearBegin, ClearFinish, HookPtr,
              UnhookPtr, LoadManifest, playerVars
<1>2. ASSUME NEW q \in Players, PlayerCall(q), q # p
      PROVE  call'[p] = call[p] /\ stage'[p] = stage[p]
  BY <1>2 DEF PlayerCall, EnterClosure, CallApi, TypeOK, ThreadsTyped
<1>3. ASSUME NEW q \in Players, PlayerStep(q), q # p
      PROVE  call'[p] = call[p] /\ stage'[p] = stage[p]
  BY <1>3 DEF PlayerStep, BeginBefore, RunBefore, RunReplace, LeaveBefore, Fire,
              RunOriginal, BeginAfter, RunAfter, LeaveAfter, Finish, TypeOK, ThreadsTyped
<1>4. QED
  BY <1>1, <1>2, <1>3 DEF Next, vars, playerVars

(* What a callback that runs adds to the history of its call.              *)
LEMMA FireEffect ==
    ASSUME TypeOK, NEW p \in Players, call[p].sym \in Symbols,
           NEW i \in DOMAIN entries[call[p].sym], NEW cancels \in BOOLEAN,
           Fire(p, i, cancels)
    PROVE  /\ entries[call[p].sym][i] \in Catalog /\ i \in Nat
           /\ call[p].fired \in Seq(Catalog)
           /\ call'[p].fired = Append(call[p].fired, entries[call[p].sym][i])
           /\ call'[p].at = i + 1 /\ call'[p].cancelled = cancels
           /\ call'[p].sym = call[p].sym
           /\ call'[p].ran = call[p].ran /\ call'[p].orig = call[p].orig
<1>1. call[p] \in Calls /\ entries[call[p].sym] \in Seq(Catalog)
  BY DEF TypeOK, ThreadsTyped, RegistryTyped
<1>2. call'[p] = [call[p] EXCEPT
                     !.fired = Append(call[p].fired, entries[call[p].sym][i]),
                     !.at = i + 1, !.cancelled = cancels]
  BY DEF Fire, TypeOK, ThreadsTyped
<1>3. QED
  BY <1>1, <1>2 DEF Calls

(* The steps of run_before and run_after that fire a callback, each with   *)
(* the entry it fires.                                                     *)
LEMMA RunBeforeEffect ==
    ASSUME TypeOK, NEW p \in Players, RunBefore(p)
    PROVE  \E i \in DOMAIN entries[call[p].sym], cancels \in BOOLEAN :
              /\ Fire(p, i, cancels)
              /\ i >= call[p].at /\ entries[call[p].sym][i].phase = "before"
              /\ stage'[p] = IF cancels THEN "leave" ELSE "before"
<1> DEFINE K == Remaining(entries[call[p].sym], "before", call[p].at)
<1>1. /\ call[p].sym \in Symbols /\ call[p].at \in Nat
      /\ entries[call[p].sym] \in Seq(Catalog)
  BY DEF RunBefore, TypeOK, RegistryTyped, ThreadsTyped, Calls
<1>2. K # {}
  BY DEF RunBefore
<1>3. /\ First(K) \in DOMAIN entries[call[p].sym] /\ First(K) >= call[p].at
      /\ entries[call[p].sym][First(K)].phase = "before"
  BY <1>1, <1>2, RemainingEntry
<1>4. PICK cancels \in BOOLEAN :
          /\ Fire(p, First(K), cancels)
          /\ stage' = [stage EXCEPT ![p] = IF cancels THEN "leave" ELSE "before"]
  BY DEF RunBefore
<1>5. stage'[p] = IF cancels THEN "leave" ELSE "before"
  BY <1>4 DEF TypeOK, ThreadsTyped
<1> HIDE DEF K
<1>6. QED
  BY <1>3, <1>4, <1>5

LEMMA RunReplaceEffect ==
    ASSUME TypeOK, NEW p \in Players, RunReplace(p)
    PROVE  /\ \E i \in DOMAIN entries[call[p].sym] :
                 Fire(p, i, FALSE) /\ entries[call[p].sym][i].phase = "replace"
           /\ stage[p] = "before" /\ stage'[p] = "leave"
<1>1. call[p].sym \in Symbols /\ entries[call[p].sym] \in Seq(Catalog)
  BY DEF RunReplace, TypeOK, RegistryTyped, ThreadsTyped
<1> DEFINE K == Remaining(entries[call[p].sym], "replace", 1)
<1>2. K # {} /\ Fire(p, First(K), FALSE) /\ stage[p] = "before" /\ stage'[p] = "leave"
  BY DEF RunReplace, TypeOK, ThreadsTyped
<1>3. /\ First(K) \in DOMAIN entries[call[p].sym]
      /\ entries[call[p].sym][First(K)].phase = "replace"
  BY <1>1, <1>2, RemainingEntry
<1> HIDE DEF K
<1>4. QED
  BY <1>2, <1>3

LEMMA RunAfterEffect ==
    ASSUME TypeOK, NEW p \in Players, RunAfter(p)
    PROVE  /\ \E i \in DOMAIN entries[call[p].sym] :
                 /\ Fire(p, i, call[p].cancelled)
                 /\ i >= call[p].at /\ entries[call[p].sym][i].phase = "after"
           /\ stage[p] = "after" /\ stage'[p] = "after"
<1>1. /\ call[p].sym \in Symbols /\ call[p].at \in Nat
      /\ entries[call[p].sym] \in Seq(Catalog)
  BY DEF RunAfter, TypeOK, RegistryTyped, ThreadsTyped, Calls
<1> DEFINE K == Remaining(entries[call[p].sym], "after", call[p].at)
<1>2. /\ K # {} /\ Fire(p, First(K), call[p].cancelled)
      /\ stage[p] = "after" /\ stage'[p] = "after"
  BY DEF RunAfter
<1>3. /\ First(K) \in DOMAIN entries[call[p].sym] /\ First(K) >= call[p].at
      /\ entries[call[p].sym][First(K)].phase = "after"
  BY <1>1, <1>2, RemainingEntry
<1> HIDE DEF K
<1>4. QED
  BY <1>2, <1>3

-----------------------------------------------------------------------------
(* The body of a call.                                                     *)

Replaces(c) == {i \in DOMAIN c.fired : c.fired[i].phase = "replace"}

(* Until the BEFORE hooks are through, no body has run.  A call that is    *)
(* cut short, by a hook that cancels or by a REPLACE hook, gets no         *)
(* original to run; at most one of the two cuts it short.                  *)
BodyInv(p) ==
    LET c == call[p] IN
    /\ stage[p] \in {"idle", "enter", "before"} =>
          ~c.cancelled /\ Replaces(c) = {} /\ c.orig = None /\ c.ran = None
    /\ stage[p] = "leave" => c.orig = None /\ c.ran = None
    /\ c.cancelled \/ Replaces(c) # {} => c.orig = None /\ c.ran = None
    /\ ~(c.cancelled /\ Replaces(c) # {})
    /\ \A i, j \in Replaces(c) : i = j

LEMMA NothingRanYet ==
    /\ ~NoCall.cancelled /\ NoCall.orig = None /\ NoCall.ran = None
    /\ Replaces(NoCall) = {}
BY DEF Replaces, NoCall

(* A hook that fires joins the REPLACE hooks of its call if it is one.     *)
LEMMA AppendReplaces ==
    ASSUME NEW c, NEW d, c.fired \in Seq(Catalog), NEW e \in Catalog,
           d.fired = Append(c.fired, e)
    PROVE  /\ e.phase # "replace" => Replaces(d) = Replaces(c)
           /\ Replaces(c) = {} => \A i, j \in Replaces(d) : i = j
<1>1. /\ DOMAIN c.fired = 1 .. Len(c.fired) /\ Len(c.fired) \in Nat
      /\ DOMAIN d.fired = 1 .. Len(c.fired) + 1
      /\ d.fired[Len(c.fired) + 1] = e
      /\ \A i \in 1 .. Len(c.fired) : d.fired[i] = c.fired[i]
  OBVIOUS
<1>2. \A i \in DOMAIN d.fired : i = Len(c.fired) + 1 \/ i \in DOMAIN c.fired
  BY <1>1
<1>3. ASSUME e.phase # "replace" PROVE Replaces(d) = Replaces(c)
  BY <1>1, <1>2, <1>3 DEF Replaces
<1>4. ASSUME Replaces(c) = {}
      PROVE  \A i \in Replaces(d) : i = Len(c.fired) + 1
  BY <1>1, <1>2, <1>4 DEF Replaces
<1>5. QED
  BY <1>3, <1>4

LEMMA BodyStep ==
    ASSUME TypeOK, [Next]_vars, NEW p \in Players, BodyInv(p)
    PROVE  BodyInv(p)'
<1> DEFINE c == call[p]
           d == call'[p]
<1>1. c \in Calls /\ stage[p] \in Stages
  BY DEF TypeOK, ThreadsTyped
<1>2. CASE d = c /\ stage'[p] = stage[p]
  BY <1>2 DEF BodyInv
<1>3. CASE PlayerCall(p)
  <2>1. /\ stage'[p] = "enter"
        /\ ~d.cancelled /\ d.fired = <<>> /\ d.orig = None /\ d.ran = None
    BY <1>3 DEF PlayerCall, EnterClosure, CallApi, NoCall, TypeOK, ThreadsTyped
  <2>2. Replaces(d) = {}
    BY <2>1 DEF Replaces
  <2>3. QED
    BY <2>1, <2>2 DEF BodyInv
<1>4. CASE BeginBefore(p)
  BY <1>4 DEF BeginBefore, BodyInv, TypeOK, ThreadsTyped
<1>5. CASE RunBefore(p)
  <2>1. PICK i \in DOMAIN entries[c.sym], cancels \in BOOLEAN :
           /\ Fire(p, i, cancels) /\ entries[c.sym][i].phase = "before"
           /\ stage'[p] = IF cancels THEN "leave" ELSE "before"
    BY <1>5, RunBeforeEffect
  <2>2. c.sym \in Symbols /\ stage[p] = "before"
    BY <1>5 DEF RunBefore, TypeOK, ThreadsTyped
  <2>3. /\ d.cancelled = cancels /\ d.orig = c.orig /\ d.ran = c.ran
        /\ Replaces(d) = Replaces(c)
    BY <2>1, <2>2, FireEffect, AppendReplaces
  <2>4. QED
    BY <2>1, <2>2, <2>3 DEF BodyInv
<1>6. CASE RunReplace(p)
  <2>1. PICK i \in DOMAIN entries[c.sym] : Fire(p, i, FALSE)
    BY <1>6, RunReplaceEffect
  <2>2. c.sym \in Symbols /\ stage[p] = "before" /\ stage'[p] = "leave"
    BY <1>6, RunReplaceEffect DEF TypeOK, ThreadsTyped
  <2>3. /\ d.cancelled = FALSE /\ d.orig = c.orig /\ d.ran = c.ran
        /\ \A k, l \in Replaces(d) : k = l
    BY <2>1, <2>2, FireEffect, AppendReplaces DEF BodyInv
  <2>4. QED
    BY <2>2, <2>3 DEF BodyInv
<1>7. CASE LeaveBefore(p)
  <2>1. /\ d.cancelled = c.cancelled /\ Replaces(d) = Replaces(c) /\ d.ran = c.ran
        /\ d.orig = Original(p)
    BY <1>1, <1>7 DEF LeaveBefore, TypeOK, ThreadsTyped, Calls, Replaces
  <2>2. /\ stage[p] \in {"before", "leave"}
        /\ stage'[p] \in {"done", "orig", "after", "exit"}
    BY <1>7 DEF LeaveBefore, Original, TypeOK, ThreadsTyped
  <2>3. stage[p] = "leave" => Original(p) = None
    BY DEF Original
  <2>4. QED
    BY <2>1, <2>2, <2>3 DEF BodyInv
<1>8. CASE RunOriginal(p)
  <2>1. /\ d.cancelled = c.cancelled /\ Replaces(d) = Replaces(c) /\ d.orig = c.orig
        /\ d.ran = c.orig
    BY <1>1, <1>8 DEF RunOriginal, TypeOK, ThreadsTyped, Calls, Replaces
  <2>2. stage'[p] \in {"after", "exit"}
    BY <1>8 DEF RunOriginal, TypeOK, ThreadsTyped
  <2>3. QED
    BY <2>1, <2>2 DEF BodyInv
<1>9. CASE BeginAfter(p) \/ LeaveAfter(p)
  BY <1>9 DEF BeginAfter, LeaveAfter, BodyInv, TypeOK, ThreadsTyped
<1>10. CASE RunAfter(p)
  <2>1. PICK i \in DOMAIN entries[c.sym] :
           Fire(p, i, c.cancelled) /\ entries[c.sym][i].phase = "after"
    BY <1>10, RunAfterEffect
  <2>2. c.sym \in Symbols /\ stage'[p] = "after" /\ c.cancelled \in BOOLEAN
    BY <1>1, <1>10, RunAfterEffect DEF TypeOK, ThreadsTyped, Calls
  <2>3. /\ d.cancelled = c.cancelled /\ d.orig = c.orig /\ d.ran = c.ran
        /\ Replaces(d) = Replaces(c)
    BY <2>1, <2>2, FireEffect, AppendReplaces
  <2>4. QED
    BY <2>2, <2>3 DEF BodyInv
<1>11. CASE Finish(p)
  <2>1. d = NoCall /\ stage'[p] = "idle"
    BY <1>11 DEF Finish, TypeOK, ThreadsTyped
  <2>2. QED
    BY <2>1, NothingRanYet DEF BodyInv
<1>12. QED
  BY <1>2, <1>3, <1>4, <1>5, <1>6, <1>7, <1>8, <1>9, <1>10, <1>11, CallSteps
  DEF PlayerStep

(* What BodyInv says of a call bounds the number of its bodies.            *)
LEMMA BodyInvCounts ==
    ASSUME NEW p \in Players, call[p].fired \in Seq(Catalog), BodyInv(p)
    PROVE  LET c == call[p] IN
           Cardinality({i \in DOMAIN c.fired : c.fired[i].phase = "replace"}
                          \cup {n \in {0} : c.ran # None}
                          \cup {n \in {-1} : c.cancelled}) <= 1
<1> DEFINE c == call[p]
           B == {i \in DOMAIN c.fired : c.fired[i].phase = "replace"}
                   \cup {n \in {0} : c.ran # None}
                   \cup {n \in {-1} : c.cancelled}
<1>1. \A i, j \in B : i = j
  BY DEF BodyInv, Replaces
<1>2. B = {} \/ \E i : B = {i}
  BY <1>1
<1> HIDE DEF B
<1>3. Cardinality(B) \in {0, 1}
  BY <1>2, FS_EmptySet, FS_Singleton, Zenon
<1>4. Cardinality(B) <= 1
  BY <1>3
<1>5. QED
  BY <1>4 DEF B

(* The body of a hooked call runs at most once: as the original, as one    *)
(* REPLACE hook, or not at all once a BEFORE hook has cancelled            *)
(* (chain.cpp:31-54, closure.cpp:107), whatever other threads register,    *)
(* remove or call meanwhile.                                               *)
THEOREM OneBodyPerCall == Spec => []AtMostOneBody
<1> DEFINE Inv == \A p \in Players : BodyInv(p)
<1>1. Init => Inv
  <2> SUFFICES ASSUME Init, NEW p \in Players PROVE BodyInv(p)
    OBVIOUS
  <2>1. call[p] = NoCall /\ stage[p] = "idle"
    BY DEF Init
  <2>2. QED
    BY <2>1, NothingRanYet DEF BodyInv
<1>2. TypeOK /\ Inv /\ [Next]_vars => Inv'
  BY BodyStep
<1>3. TypeOK /\ Inv => AtMostOneBody
  <2> SUFFICES ASSUME TypeOK, Inv, NEW p \in Players
               PROVE  LET c == call[p] IN
                      Cardinality({i \in DOMAIN c.fired : c.fired[i].phase = "replace"}
                                     \cup {n \in {0} : c.ran # None}
                                     \cup {n \in {-1} : c.cancelled}) <= 1
    BY DEF AtMostOneBody
  <2>1. call[p].fired \in Seq(Catalog)
    BY DEF TypeOK, ThreadsTyped, Calls
  <2>2. QED
    BY <2>1, BodyInvCounts
<1>4. QED
  BY <1>1, <1>2, <1>3, Typing, PTL DEF Spec

-----------------------------------------------------------------------------
(* The order in which a call fires its hooks.                              *)

Precedes(d, e) ==
    \/ PhaseOrder(d.phase) < PhaseOrder(e.phase)
    \/ d.phase = e.phase /\ d.priority >= e.priority

Ordered(fired) == \A i, j \in DOMAIN fired : i < j => Precedes(fired[i], fired[j])

(* e may run before whatever a walk of hooks visits from position k on.    *)
AheadOf(e, hooks, k) == \A j \in DOMAIN hooks : j >= k => e.priority >= hooks[j].priority

(* A walk has fired what lies before its position; AFTER hooks are fired   *)
(* in the second walk only.                                                *)
OrderInv(p) ==
    LET c == call[p]
        hooks == entries[c.sym]
    IN  /\ Ordered(c.fired)
        /\ stage[p] \in {"idle", "enter"} => c.fired = <<>>
        /\ stage[p] = "before" =>
              \A i \in DOMAIN c.fired :
                 c.fired[i].phase = "before" /\ AheadOf(c.fired[i], hooks, c.at)
        /\ stage[p] \in {"leave", "orig", "exit"} =>
              \A i \in DOMAIN c.fired : c.fired[i].phase # "after"
        /\ stage[p] = "after" =>
              \A i \in DOMAIN c.fired :
                 c.fired[i].phase = "after" => AheadOf(c.fired[i], hooks, c.at)

LEMMA AppendOrdered ==
    ASSUME NEW f \in Seq(Catalog), NEW e \in Catalog, Ordered(f),
           \A i \in DOMAIN f : Precedes(f[i], e)
    PROVE  Ordered(Append(f, e))
<1> DEFINE g == Append(f, e)
<1>1. /\ DOMAIN f = 1 .. Len(f) /\ Len(f) \in Nat
      /\ DOMAIN g = 1 .. Len(f) + 1
      /\ g[Len(f) + 1] = e
      /\ \A i \in 1 .. Len(f) : g[i] = f[i]
  OBVIOUS
<1> HIDE DEF g
<1>2. ASSUME NEW i \in DOMAIN g, NEW j \in DOMAIN g, i < j
      PROVE  Precedes(g[i], g[j])
  <2>1. i \in DOMAIN f /\ g[i] = f[i]
    BY <1>1, <1>2
  <2>2. CASE j = Len(f) + 1
    BY <1>1, <2>1, <2>2
  <2>3. CASE j \in DOMAIN f
    BY <1>1, <1>2, <2>1, <2>3 DEF Ordered
  <2>4. QED
    BY <1>1, <2>2, <2>3
<1>3. QED
  BY <1>2 DEF Ordered, g

(* The indices of a longer history are the old ones and the new one.       *)
LEMMA AppendIndices ==
    ASSUME NEW f \in Seq(Catalog), NEW e \in Catalog, NEW i \in DOMAIN Append(f, e)
    PROVE  \/ i \in DOMAIN f /\ Append(f, e)[i] = f[i]
           \/ Append(f, e)[i] = e
OBVIOUS

LEMMA OrderStep ==
    ASSUME TypeOK, ReadersFindChainsSorted, [Next]_vars, NEW p \in Players, OrderInv(p)
    PROVE  OrderInv(p)'
<1> DEFINE c == call[p]
           d == call'[p]
           hooks == entries[c.sym]
<1>1. /\ c \in Calls /\ stage[p] \in Stages /\ c.fired \in Seq(Catalog)
      /\ stage[p] # "idle" => c.sym \in Symbols
  BY DEF TypeOK, ThreadsTyped, Calls
<1>2. \A s \in Symbols : entries[s] \in Seq(Catalog) /\ InRunOrder(entries[s])
  BY DEF TypeOK, RegistryTyped, ReadersFindChainsSorted
<1>3. ASSUME d = c, stage'[p] = stage[p] PROVE OrderInv(p)'
  <2>1. CASE stage[p] \in {"before", "after"}
    <3>1. p \in readers
      BY <2>1 DEF TypeOK, LockHeld, Holding
    <3>2. UNCHANGED entries
      BY <3>1, ReadersKeepWritersOut
    <3>3. QED
      BY <1>3, <3>2 DEF OrderInv
  <2>2. CASE stage[p] \notin {"before", "after"}
    BY <1>3, <2>2 DEF OrderInv
  <2>3. QED
    BY <2>1, <2>2
<1>4. ASSUME d.fired = <<>> PROVE OrderInv(p)'
  BY <1>4 DEF OrderInv, Ordered
<1>5. CASE PlayerCall(p)
  <2>1. d.fired = <<>>
    BY <1>5 DEF PlayerCall, EnterClosure, CallApi, NoCall, TypeOK, ThreadsTyped
  <2>2. QED
    BY <1>4, <2>1
<1>6. CASE BeginBefore(p)
  <2>1. d.fired = <<>>
    BY <1>6 DEF BeginBefore, OrderInv
  <2>2. QED
    BY <1>4, <2>1
<1>7. CASE RunBefore(p)
  <2>1. PICK i \in DOMAIN entries[c.sym], cancels \in BOOLEAN :
           /\ Fire(p, i, cancels) /\ i >= c.at /\ hooks[i].phase = "before"
           /\ stage'[p] = IF cancels THEN "leave" ELSE "before"
    BY <1>7, RunBeforeEffect
  <2> DEFINE e == hooks[i]
  <2>2. c.sym \in Symbols /\ stage[p] = "before" /\ entries' = entries
    BY <1>1, <1>7 DEF RunBefore, chainVars
  <2>3. /\ e \in Catalog /\ i \in Nat /\ d.sym = c.sym
        /\ d.fired = Append(c.fired, e) /\ d.at = i + 1
    BY <2>1, <2>2, FireEffect
  <2>4. hooks \in Seq(Catalog) /\ InRunOrder(hooks) /\ c.at \in Nat
    BY <1>1, <1>2, <2>2 DEF Calls
  <2>5. \A j \in DOMAIN c.fired :
           c.fired[j].phase = "before" /\ AheadOf(c.fired[j], hooks, c.at)
    BY <2>2 DEF OrderInv
  <2>6. \A j \in DOMAIN c.fired : Precedes(c.fired[j], e)
    BY <2>1, <2>5 DEF AheadOf, Precedes
  <2>7. \A j \in DOMAIN c.fired : AheadOf(c.fired[j], hooks, i + 1)
    <3>1. \A k \in DOMAIN hooks : k >= i + 1 => k >= c.at
      BY <2>1, <2>3, <2>4
    <3>2. QED
      BY <2>5, <3>1 DEF AheadOf
  <2>8. AheadOf(e, hooks, i + 1)
    BY <2>1, <2>3, <2>4 DEF AheadOf, InRunOrder
  <2>9. Ordered(d.fired)
    BY <1>1, <2>3, <2>6, AppendOrdered DEF OrderInv
  <2>10. e.phase = "before"
    BY <2>1
  <2> HIDE DEF e
  <2>11. \A j \in DOMAIN d.fired :
            d.fired[j].phase = "before" /\ AheadOf(d.fired[j], hooks, i + 1)
    BY <1>1, <2>3, <2>5, <2>7, <2>8, <2>10, AppendIndices
  <2>12. QED
    BY <2>1, <2>2, <2>3, <2>9, <2>11 DEF OrderInv
<1>8. CASE RunReplace(p)
  <2>1. PICK i \in DOMAIN entries[c.sym] : Fire(p, i, FALSE) /\ hooks[i].phase = "replace"
    BY <1>8, RunReplaceEffect
  <2> DEFINE e == hooks[i]
  <2>2. c.sym \in Symbols /\ stage[p] = "before" /\ stage'[p] = "leave"
    BY <1>1, <1>8, RunReplaceEffect
  <2>3. e \in Catalog /\ d.fired = Append(c.fired, e) /\ e.phase = "replace"
    BY <2>1, <2>2, FireEffect
  <2>4. \A j \in DOMAIN c.fired : c.fired[j].phase = "before"
    BY <2>2 DEF OrderInv
  <2>5. \A j \in DOMAIN c.fired : Precedes(c.fired[j], e)
    BY <2>3, <2>4 DEF Precedes, PhaseOrder
  <2>6. Ordered(d.fired)
    BY <1>1, <2>3, <2>5, AppendOrdered DEF OrderInv
  <2> HIDE DEF e
  <2>7. \A j \in DOMAIN d.fired : d.fired[j].phase # "after"
    BY <1>1, <2>3, <2>4, AppendIndices
  <2>8. QED
    BY <2>2, <2>6, <2>7 DEF OrderInv
<1>9. CASE LeaveBefore(p)
  <2>1. d.fired = c.fired
    BY <1>1, <1>9 DEF LeaveBefore, TypeOK, ThreadsTyped, Calls
  <2>2. /\ stage[p] \in {"before", "leave"}
        /\ stage'[p] \in {"done", "orig", "after", "exit"}
    BY <1>9 DEF LeaveBefore, Original, TypeOK, ThreadsTyped
  <2>3. \A i \in DOMAIN c.fired : c.fired[i].phase # "after"
    BY <2>2 DEF OrderInv
  <2>4. QED
    BY <2>1, <2>2, <2>3 DEF OrderInv
<1>10. CASE RunOriginal(p)
  <2>1. d.fired = c.fired
    BY <1>1, <1>10 DEF RunOriginal, TypeOK, ThreadsTyped, Calls
  <2>2. stage[p] = "orig" /\ stage'[p] \in {"after", "exit"}
    BY <1>10 DEF RunOriginal, TypeOK, ThreadsTyped
  <2>3. QED
    BY <2>1, <2>2 DEF OrderInv
<1>11. CASE BeginAfter(p)
  <2>1. d = c /\ stage[p] = "exit" /\ stage'[p] \in {"after", "done"}
    BY <1>11 DEF BeginAfter, TypeOK, ThreadsTyped
  <2>2. QED
    BY <2>1 DEF OrderInv
<1>12. CASE RunAfter(p)
  <2>1. PICK i \in DOMAIN entries[c.sym] :
           Fire(p, i, c.cancelled) /\ i >= c.at /\ hooks[i].phase = "after"
    BY <1>12, RunAfterEffect
  <2> DEFINE e == hooks[i]
  <2>2. /\ c.sym \in Symbols /\ stage[p] = "after" /\ stage'[p] = "after"
        /\ entries' = entries /\ c.cancelled \in BOOLEAN
    BY <1>1, <1>12, RunAfterEffect DEF RunAfter, chainVars, Calls
  <2>3. /\ e \in Catalog /\ i \in Nat /\ d.sym = c.sym
        /\ d.fired = Append(c.fired, e) /\ d.at = i + 1
    BY <2>1, <2>2, FireEffect
  <2>4. hooks \in Seq(Catalog) /\ InRunOrder(hooks) /\ c.at \in Nat
    BY <1>1, <1>2, <2>2 DEF Calls
  <2>5. \A j \in DOMAIN c.fired :
           /\ c.fired[j].phase \in Phases
           /\ c.fired[j].phase = "after" => AheadOf(c.fired[j], hooks, c.at)
    BY <1>1, <2>2, ConstantsOK DEF OrderInv
  <2>6. e.phase = "after"
    BY <2>1
  <2>7. \A j \in DOMAIN c.fired : Precedes(c.fired[j], e)
    BY <2>1, <2>5 DEF AheadOf, Precedes, PhaseOrder, Phases
  <2>8. \A j \in DOMAIN c.fired :
           c.fired[j].phase = "after" => AheadOf(c.fired[j], hooks, i + 1)
    BY <2>1, <2>3, <2>4, <2>5 DEF AheadOf
  <2>9. AheadOf(e, hooks, i + 1)
    BY <2>1, <2>3, <2>4 DEF AheadOf, InRunOrder
  <2>10. Ordered(d.fired)
    BY <1>1, <2>3, <2>7, AppendOrdered DEF OrderInv
  <2> HIDE DEF e
  <2>11. \A j \in DOMAIN d.fired :
            d.fired[j].phase = "after" => AheadOf(d.fired[j], hooks, i + 1)
    BY <1>1, <2>3, <2>8, <2>9, AppendIndices
  <2>12. QED
    BY <2>2, <2>3, <2>10, <2>11 DEF OrderInv
<1>13. CASE LeaveAfter(p)
  <2>1. d = c /\ stage'[p] = "done"
    BY <1>13 DEF LeaveAfter, TypeOK, ThreadsTyped
  <2>2. QED
    BY <2>1 DEF OrderInv
<1>14. CASE Finish(p)
  <2>1. d.fired = <<>>
    BY <1>14 DEF Finish, NoCall, TypeOK, ThreadsTyped
  <2>2. QED
    BY <1>4, <2>1
<1>15. QED
  BY <1>3, <1>5, <1>6, <1>7, <1>8, <1>9, <1>10, <1>11, <1>12, <1>13, <1>14, CallSteps
  DEF PlayerStep

(* One call fires BEFORE hooks, then a REPLACE hook, then AFTER hooks, and *)
(* those of one phase by descending priority, whatever any number of       *)
(* threads register and remove between its two walks (chain.cpp:31-54).    *)
THEOREM CallsFireInRunOrder == Spec => []FiredInRunOrder
<1> DEFINE Inv == \A p \in Players : OrderInv(p)
<1>1. Init => Inv
  BY DEF Init, OrderInv, Ordered, NoCall
<1>2. TypeOK /\ ReadersFindChainsSorted /\ Inv /\ [Next]_vars => Inv'
  BY OrderStep
<1>3. Inv => FiredInRunOrder
  BY DEF FiredInRunOrder, OrderInv, Ordered, Precedes
<1>4. QED
  BY <1>1, <1>2, <1>3, Typing, ChainsAreSorted, PTL DEF Spec

-----------------------------------------------------------------------------
(* The patches, when one thread calls the C API.  With two threads these   *)
(* theorems are false: install_chain patches and writes after the lock is  *)
(* gone, and the run install_unlocked shows the patch that is left without *)
(* a chain.  Symbols, targets, players, the catalogue, raw hooks and the   *)
(* moment of the manifest are arbitrary, and any number of symbols may     *)
(* resolve to one target.                                                  *)

OneAdmin == \A a, b \in Admins : a = b

(* Where the admin is in install_chain: its Chain* are alive, and what it  *)
(* has patched is the target of the chain that it is about to publish.     *)
InstallInv(a) ==
    /\ dangling[a] = {}
    /\ pending[a] \subseteq chains
    /\ job[a] \notin {"install", "publish"} => pending[a] = {}
    /\ job[a] = "checked" => req[a].sym \in chains
    /\ job[a] = "publish" => /\ current[a] \in pending[a]
                             /\ Resolve(current[a]) # None
                             /\ patch[Resolve(current[a])] = current[a]

(* Only the target of a symbol jumps to its closure, also after a manifest *)
(* has been loaded.                                                        *)
PatchedWhereResolved ==
    \A t \in Targets : patch[t] \in Symbols => Resolve(patch[t]) = t

(* ptr_hooks are the patches of augment_hook_ptr.                          *)
RawPatches == \A t \in Targets : t \in ptr_hooks <=> patch[t] = Raw

PatchInv ==
    /\ \A a \in Admins : InstallInv(a)
    /\ PatchedWhereResolved
    /\ RawPatches
    /\ InstalledMeansPatched
    /\ NoOrphanPatch

LEMMA Fresh ==
    /\ None \notin Symbols /\ None \notin Targets /\ Raw \notin Symbols /\ Raw # None
    /\ \A s \in Symbols : Resolve(s) \in Targets \cup {None}
BY ConstantsOK, ResolveType

LEMMA InitPatched == Init => PatchInv
BY Fresh DEF Init, PatchInv, InstallInv, PatchedWhereResolved, RawPatches,
             InstalledMeansPatched, NoOrphanPatch

(* What the invariant is about.                                            *)
patchVars == <<chains, saved, installed, hookVars, loaded, pending, dangling, current>>

(* Players do not touch the patches, and an API call that only registers   *)
(* or asks to install does not either.                                     *)
LEMMA PlayersPatchNothing ==
    ASSUME NEW p \in Players, PlayerCall(p) \/ PlayerStep(p)
    PROVE  UNCHANGED <<patchVars, job, req>>
BY DEF PlayerCall, PlayerStep, patchVars, chainVars, adminVars, hookVars,
       EnterClosure, CallApi, BeginBefore, RunBefore, RunReplace, LeaveBefore,
       RunOriginal, BeginAfter, RunAfter, LeaveAfter, Finish

(* An admin that is not publishing leaves no exception to NoOrphanPatch.   *)
LEMMA PatchedMeansInstalled ==
    ASSUME OneAdmin, PatchInv, NEW a \in Admins, job[a] # "publish",
           NEW t \in Targets, patch[t] \in Symbols
    PROVE  /\ installed[patch[t]] /\ patch[t] \in chains
           /\ Resolve(patch[t]) = t /\ saved[patch[t]] = t /\ t # None
BY DEF OneAdmin, PatchInv, NoOrphanPatch, InstalledMeansPatched, PatchedWhereResolved

(* Without a change of patches, targets and publications the rest follows. *)
LEMMA QuietStep ==
    ASSUME PatchInv, UNCHANGED <<saved, installed, hookVars, loaded, current>>,
           chains \subseteq chains',
           \A a \in Admins : job[a] = "publish" => job'[a] = "publish" /\ dangling'[a] = {},
           \A a \in Admins : InstallInv(a)'
    PROVE  PatchInv'
<1>1. \A s \in Symbols : Resolve(s)' = Resolve(s)
  BY DEF Resolve
<1>2. InstalledMeansPatched' /\ PatchedWhereResolved' /\ RawPatches'
  BY <1>1 DEF PatchInv, InstalledMeansPatched, PatchedWhereResolved, RawPatches, hookVars
<1>3. NoOrphanPatch'
  BY DEF PatchInv, NoOrphanPatch, hookVars
<1>4. QED
  BY <1>2, <1>3 DEF PatchInv

(* Dropping chains, and the patches of those that were installed, leaves   *)
(* the patches of the other chains alone.                                  *)
LEMMA DropStep ==
    ASSUME OneAdmin, TypeOK, PatchInv, NEW a \in Admins,
           job[a] \notin {"install", "publish", "checked"},
           job'[a] \notin {"install", "publish", "checked"},
           NEW gone \in SUBSET chains, NEW left, Erase(gone, left),
           Unhook({Resolve(s) : s \in {c \in gone : installed[c]}}),
           UNCHANGED <<pending, current, ptr_hooks, loaded>>
    PROVE  /\ PatchInv'
           /\ \A t \in Targets : patch[t] \in Symbols /\ patch'[t] # patch[t]
                 => patch[t] \notin chains'
<1> DEFINE unhooked == {Resolve(s) : s \in {c \in gone : installed[c]}}
<1>1. /\ chains' = chains \ gone /\ chains \subseteq Symbols
      /\ \A s \in Symbols : s \notin gone => saved'[s] = saved[s]
      /\ \A s \in Symbols : installed'[s] = (s \notin gone /\ installed[s])
      /\ patch \in [Targets -> Symbols \cup {None, Raw}]
      /\ \A t \in Targets : patch'[t] = IF t \in unhooked THEN None ELSE patch[t]
  BY DEF Erase, Unhook, TypeOK, RegistryTyped
<1>2. \A s \in Symbols : Resolve(s)' = Resolve(s)
  BY DEF Resolve
<1>3. \A t \in Targets : patch[t] \in Symbols =>
         /\ installed[patch[t]] /\ Resolve(patch[t]) = t
         /\ t \in unhooked <=> patch[t] \in gone
  <2>1. SUFFICES ASSUME NEW t \in Targets, patch[t] \in Symbols
                 PROVE  /\ installed[patch[t]] /\ Resolve(patch[t]) = t
                        /\ t \in unhooked <=> patch[t] \in gone
    OBVIOUS
  <2>2. installed[patch[t]] /\ Resolve(patch[t]) = t
    BY <2>1, PatchedMeansInstalled
  <2>3. ASSUME t \in unhooked PROVE patch[t] \in gone
    BY <1>1, <2>3 DEF PatchInv, InstalledMeansPatched
  <2>4. QED
    BY <2>2, <2>3
<1>4. \A b \in Admins : InstallInv(b)'
  <2>1. pending[a] = {} /\ dangling[a] = {} /\ \A b \in Admins : b = a
    BY DEF OneAdmin, PatchInv, InstallInv
  <2>2. dangling'[a] = {}
    BY <2>1 DEF Erase
  <2>3. QED
    BY <2>1, <2>2 DEF InstallInv
<1> HIDE DEF unhooked
<1>5. InstalledMeansPatched'
  <2>1. SUFFICES ASSUME NEW s \in Symbols, installed'[s]
                 PROVE  /\ s \in chains' /\ Resolve(s)' # None
                        /\ saved'[s] = Resolve(s)' /\ patch'[Resolve(s)'] = s
    BY DEF InstalledMeansPatched
  <2>2. /\ installed[s] /\ s \notin gone /\ s \in chains /\ Resolve(s) # None
        /\ saved[s] = Resolve(s) /\ patch[Resolve(s)] = s
    BY <1>1, <2>1 DEF PatchInv, InstalledMeansPatched
  <2>3. Resolve(s) \in Targets /\ Resolve(s) \notin unhooked
    BY <1>3, <2>2, Fresh
  <2>4. QED
    BY <1>1, <1>2, <2>2, <2>3
<1>6. PatchedWhereResolved'
  BY <1>1, <1>2, <1>3, Fresh DEF PatchedWhereResolved
<1>7. NoOrphanPatch'
  BY <1>1, <1>3, Fresh DEF NoOrphanPatch
<1>8. RawPatches'
  <2>1. \A t \in unhooked : patch[t] \in Symbols
    BY DEF unhooked, PatchInv, InstalledMeansPatched, TypeOK, RegistryTyped
  <2>2. QED
    BY <1>1, <2>1, Fresh DEF PatchInv, RawPatches
<1>9. QED
  BY <1>1, <1>3, <1>4, <1>5, <1>6, <1>7, <1>8 DEF PatchInv

(* Taking raw hooks out, or putting one in, leaves the closures alone.     *)
LEMMA RawStep ==
    ASSUME OneAdmin, PatchInv, NEW a \in Admins,
           job[a] # "publish", job'[a] = "idle" \/ job'[a] = "clearing", job[a] = "idle",
           UNCHANGED <<chains, saved, installed, loaded, pending, dangling, current>>,
           \A t \in Targets : patch'[t] # patch[t] => {patch[t], patch'[t]} = {None, Raw},
           RawPatches'
    PROVE  PatchInv'
<1>1. \A s \in Symbols : Resolve(s)' = Resolve(s)
  BY DEF Resolve
<1>2. \A t \in Targets : patch[t] \in Symbols \/ patch'[t] \in Symbols => patch'[t] = patch[t]
  BY Fresh
<1>3. \A b \in Admins : InstallInv(b)'
  BY DEF OneAdmin, PatchInv, InstallInv
<1>4. InstalledMeansPatched' /\ PatchedWhereResolved' /\ NoOrphanPatch'
  <2>1. InstalledMeansPatched'
    BY <1>1, <1>2, Fresh DEF PatchInv, InstalledMeansPatched
  <2>2. PatchedWhereResolved'
    BY <1>1, <1>2 DEF PatchInv, PatchedWhereResolved
  <2>3. NoOrphanPatch'
    BY <1>2, PatchedMeansInstalled DEF NoOrphanPatch
  <2>4. QED
    BY <2>1, <2>2, <2>3
<1>5. QED
  BY <1>3, <1>4 DEF PatchInv

(* Calls that wait, register, ask to install or return.                    *)
LEMMA WaitingStep ==
    ASSUME OneAdmin, TypeOK, PatchInv, NEW a \in Admins,
           \/ \E s \in Symbols, e \in Catalog : RegisterCall(a, s, e)
           \/ RegisterCheck(a) \/ RegisterCommit(a)
           \/ \E s \in Symbols : InstallFails(a, s) \/ RegisterPtr(a, s)
           \/ InstallDone(a) \/ Return(a) \/ InstallAll(a)
    PROVE  PatchInv' /\ UNCHANGED patch
<1>1. \A b \in Admins : b = a
  BY DEF OneAdmin
<1>2. InstallInv(a)
  BY DEF PatchInv
<1>3. /\ UNCHANGED <<saved, installed, hookVars, loaded, current>>
      /\ chains \subseteq chains' /\ job[a] # "publish" /\ dangling'[a] = {}
  BY <1>2 DEF InstallInv, RegisterCall, RegisterCheck, RegisterCommit, InstallFails,
              InstallDone, Return, InstallAll, RegisterPtr, chainVars, adminVars,
              TypeOK, ThreadsTyped
<1>4. InstallInv(a)'
  <2>1. ASSUME NEW s \in Symbols, NEW e \in Catalog, RegisterCall(a, s, e)
        PROVE  InstallInv(a)'
    BY <1>2, <2>1 DEF RegisterCall, InstallInv, chainVars, TypeOK, ThreadsTyped
  <2>2. CASE RegisterCheck(a)
    BY <1>2, <2>2 DEF RegisterCheck, InstallInv, TypeOK, ThreadsTyped
  <2>3. CASE RegisterCommit(a)
    BY <1>2, <2>3 DEF RegisterCommit, InstallInv, TypeOK, ThreadsTyped
  <2>4. ASSUME NEW s \in Symbols, InstallFails(a, s)
        PROVE  InstallInv(a)'
    BY <1>2, <2>4 DEF InstallFails, InstallInv, chainVars, TypeOK, ThreadsTyped
  <2>5. CASE InstallDone(a) \/ Return(a)
    BY <1>2, <2>5 DEF InstallDone, Return, InstallInv, chainVars, TypeOK, ThreadsTyped
  <2>6. CASE InstallAll(a)
    <3>1. job'[a] \in {"returned", "install"} /\ pending'[a] \subseteq chains
          /\ (job'[a] = "returned" => pending'[a] = {})
      BY <1>2, <2>6 DEF InstallAll, InstallInv, TypeOK, ThreadsTyped
    <3>2. QED
      BY <1>2, <2>6, <3>1 DEF InstallAll, InstallInv, chainVars
  <2>7. ASSUME NEW s \in Symbols, RegisterPtr(a, s)
        PROVE  InstallInv(a)'
    BY <1>2, <2>7 DEF RegisterPtr, InstallInv, adminVars
  <2>8. QED
    BY <2>1, <2>2, <2>3, <2>4, <2>5, <2>6, <2>7
<1>5. PatchInv'
  BY <1>1, <1>3, <1>4, QuietStep
<1>6. QED
  BY <1>3, <1>5 DEF hookVars

(* hook_install, and the two writes that follow it.                        *)
LEMMA InstallHookStep ==
    ASSUME OneAdmin, TypeOK, PatchInv, NEW a \in Admins, NEW s \in Symbols, InstallHook(a, s)
    PROVE  /\ PatchInv'
           /\ \A t \in Targets : patch'[t] # patch[t] => patch[t] = None
<1> DEFINE target == Resolve(s)
<1>1. \A b \in Admins : b = a
  BY DEF OneAdmin
<1>2. /\ target \in Targets /\ target # None /\ patch[target] = None
      /\ patch' = [patch EXCEPT ![target] = s]
      /\ patch \in [Targets -> Symbols \cup {None, Raw}]
      /\ s \in pending[a] /\ job[a] = "install" /\ job'[a] = "publish" /\ current'[a] = s
      /\ UNCHANGED <<chainVars, ptr_hooks, loaded, req, pending, dangling>>
  BY Fresh DEF InstallHook, CanHook, TypeOK, RegistryTyped, ThreadsTyped
<1>3. /\ patch'[target] = s
      /\ \A t \in Targets : t # target => patch'[t] = patch[t]
  BY <1>2
<1>4. \A c \in Symbols : Resolve(c)' = Resolve(c)
  BY <1>2 DEF Resolve
<1> HIDE DEF target
<1>5. \A b \in Admins : InstallInv(b)'
  BY <1>1, <1>2, <1>3, <1>4 DEF PatchInv, InstallInv, chainVars, target
<1>6. PatchedWhereResolved'
  BY <1>2, <1>3, <1>4 DEF PatchInv, PatchedWhereResolved, target
<1>7. RawPatches'
  BY <1>2, <1>3, Fresh DEF PatchInv, RawPatches
<1>8. InstalledMeansPatched'
  BY <1>2, <1>3, <1>4, Fresh DEF PatchInv, InstalledMeansPatched, chainVars
<1>9. NoOrphanPatch'
  <2>1. dangling'[a] = {}
    BY <1>2 DEF PatchInv, InstallInv
  <2>2. \A t \in Targets : patch'[t] \in Symbols =>
           patch'[t] = s \/ (patch'[t] = patch[t] /\ installed[patch[t]])
    BY <1>2, <1>3, PatchedMeansInstalled
  <2>3. QED
    BY <1>2, <2>1, <2>2 DEF NoOrphanPatch, chainVars
<1>10. QED
  BY <1>2, <1>3, <1>5, <1>6, <1>7, <1>8, <1>9 DEF PatchInv

LEMMA InstallPublishStep ==
    ASSUME OneAdmin, TypeOK, PatchInv, NEW a \in Admins, InstallPublish(a)
    PROVE  PatchInv' /\ UNCHANGED patch
<1> DEFINE s == current[a]
<1>1. \A b \in Admins : b = a
  BY DEF OneAdmin
<1>2. /\ job[a] = "publish" /\ s \in Symbols /\ s \in chains /\ dangling[a] = {}
      /\ Resolve(s) # None /\ patch[Resolve(s)] = s
  BY DEF InstallPublish, TypeOK, ThreadsTyped, PatchInv, InstallInv
<1>3. /\ saved' = [c \in Symbols |-> IF c \in {s} THEN Resolve(s) ELSE saved[c]]
      /\ installed' = [c \in Symbols |-> c \in {s} \/ installed[c]]
  BY <1>2 DEF InstallPublish
<1>4. /\ UNCHANGED <<chains, hookVars, loaded, req>>
      /\ job'[a] = "install" /\ pending'[a] \subseteq pending[a] /\ dangling'[a] = {}
  BY <1>2 DEF InstallPublish, TypeOK, ThreadsTyped
<1>5. \A c \in Symbols : Resolve(c)' = Resolve(c)
  BY <1>4 DEF Resolve
<1>6. \A b \in Admins : InstallInv(b)'
  BY <1>1, <1>4 DEF PatchInv, InstallInv
<1>7. PatchedWhereResolved' /\ RawPatches'
  BY <1>4, <1>5 DEF PatchInv, PatchedWhereResolved, RawPatches, hookVars
<1>8. InstalledMeansPatched'
  BY <1>2, <1>3, <1>4, <1>5 DEF PatchInv, InstalledMeansPatched, hookVars
<1>9. NoOrphanPatch'
  <2>1. \A t \in Targets : patch[t] \in Symbols => patch[t] = s \/ installed[patch[t]]
    BY <1>1 DEF PatchInv, NoOrphanPatch
  <2>2. QED
    BY <1>3, <1>4, <2>1 DEF NoOrphanPatch, hookVars
<1>10. QED
  BY <1>4, <1>6, <1>7, <1>8, <1>9 DEF PatchInv, hookVars

(* Removing hooks and clearing the registry.                               *)
LEMMA UnregisterStep ==
    ASSUME OneAdmin, TypeOK, PatchInv, NEW a \in Admins, NEW id \in Ids, Unregister(a, id)
    PROVE  /\ PatchInv'
           /\ \A t \in Targets : patch[t] \in Symbols /\ patch'[t] # patch[t]
                 => patch[t] \notin chains'
<1> DEFINE left == [s \in Symbols |-> RemoveAugment(entries[s], id)]
           gone == {s \in chains : left[s] = <<>>}
<1>1. Erase(gone, left) /\ Unhook(HookedBy(gone)) /\ gone \subseteq chains
  BY DEF Unregister
<1>2. gone \subseteq Symbols
  BY <1>1 DEF TypeOK, RegistryTyped
<1>3. \A c \in gone : installed[c] => saved[c] # None
  BY <1>2 DEF PatchInv, InstalledMeansPatched
<1> HIDE DEF gone, left
<1>4. HookedBy(gone) = {Resolve(s) : s \in {c \in gone : installed[c]}}
  BY <1>3 DEF HookedBy
<1>5. job[a] = "idle" /\ UNCHANGED <<job, pending, current, ptr_hooks, loaded>>
  BY DEF Unregister
<1>6. QED
  BY <1>1, <1>4, <1>5, DropStep

LEMMA ClearFinishStep ==
    ASSUME OneAdmin, TypeOK, PatchInv, NEW a \in Admins, ClearFinish(a)
    PROVE  /\ PatchInv'
           /\ \A t \in Targets : patch[t] \in Symbols /\ patch'[t] # patch[t]
                 => patch[t] \notin chains'
<1>1. /\ job[a] = "clearing" /\ job'[a] = "idle"
      /\ Erase(chains, entries)
      /\ Unhook({Resolve(s) : s \in {c \in chains : installed[c]}})
      /\ UNCHANGED <<pending, current, ptr_hooks, loaded>>
  BY DEF ClearFinish, TypeOK, ThreadsTyped
<1>2. QED
  BY <1>1, DropStep

(* Raw hooks.                                                              *)
LEMMA RawHookStep ==
    ASSUME OneAdmin, TypeOK, PatchInv, NEW a \in Admins,
           \/ \E t \in RawTargets : HookPtr(a, t) \/ UnhookPtr(a, t)
           \/ ClearBegin(a)
    PROVE  /\ PatchInv'
           /\ \A t \in Targets : patch[t] \in Symbols => patch'[t] = patch[t]
<1>1. patch \in [Targets -> Symbols \cup {None, Raw}] /\ RawTargets \subseteq Targets
  BY ConstantsOK DEF TypeOK, RegistryTyped
<1>2. \A t \in Targets : t \in ptr_hooks <=> patch[t] = Raw
  BY DEF PatchInv, RawPatches
<1>3. /\ job[a] = "idle" /\ job'[a] \in {"idle", "clearing"}
      /\ UNCHANGED <<chains, saved, installed, loaded, pending, dangling, current>>
  BY DEF HookPtr, UnhookPtr, ClearBegin, chainVars, adminVars, TypeOK, ThreadsTyped
<1> DEFINE OnlyRaw ==
              /\ \A t \in Targets : patch'[t] # patch[t] => {patch[t], patch'[t]} = {None, Raw}
              /\ RawPatches'
<1>4. OnlyRaw
  <2>1. ASSUME NEW t \in RawTargets, HookPtr(a, t)
        PROVE  OnlyRaw
    BY <1>1, <1>2, <2>1, Fresh DEF HookPtr, CanHook, RawPatches
  <2>2. ASSUME NEW t \in RawTargets, UnhookPtr(a, t)
        PROVE  OnlyRaw
    BY <1>1, <1>2, <2>2, Fresh DEF UnhookPtr, Unhook, RawPatches
  <2>3. CASE ClearBegin(a)
    BY <1>1, <1>2, <2>3, Fresh DEF ClearBegin, Unhook, RawPatches
  <2>4. QED
    BY <2>1, <2>2, <2>3
<1>5. QED
  BY <1>3, <1>4, RawStep, Fresh

(* A manifest answers for symbols that had no target, hence no patch.      *)
LEMMA LoadManifestStep ==
    ASSUME OneAdmin, TypeOK, PatchInv, NEW a \in Admins, LoadManifest(a)
    PROVE  PatchInv' /\ UNCHANGED patch
<1>1. \A s \in Symbols : Resolve(s) # None => Resolve(s)' = Resolve(s)
  BY DEF LoadManifest, Resolve
<1>2. UNCHANGED <<chainVars, hookVars, adminVars>> /\ job[a] = "idle"
  BY DEF LoadManifest
<1>3. InstalledMeansPatched'
  BY <1>1, <1>2 DEF PatchInv, InstalledMeansPatched, chainVars, hookVars
<1>4. PatchedWhereResolved' /\ RawPatches'
  BY <1>1, <1>2, Fresh DEF PatchInv, PatchedWhereResolved, RawPatches, hookVars
<1>5. NoOrphanPatch' /\ \A b \in Admins : InstallInv(b)'
  BY <1>2 DEF OneAdmin, PatchInv, InstallInv, NoOrphanPatch, chainVars, hookVars, adminVars
<1>6. QED
  BY <1>2, <1>3, <1>4, <1>5 DEF PatchInv, hookVars

LEMMA PatchStep ==
    ASSUME OneAdmin, TypeOK, PatchInv, [Next]_vars
    PROVE  /\ PatchInv'
           /\ \A t \in Targets : patch[t] \in Symbols /\ patch'[t] # patch[t]
                 => patch[t] \notin chains'
<1> DEFINE Goal == /\ PatchInv'
                   /\ \A t \in Targets : patch[t] \in Symbols /\ patch'[t] # patch[t]
                         => patch[t] \notin chains'
<1>1. ASSUME UNCHANGED <<patchVars, job, req>> PROVE Goal
  <2>1. UNCHANGED <<chains, saved, installed, hookVars, loaded, pending, dangling,
                    current, job, req, patch>>
    BY <1>1 DEF patchVars, hookVars
  <2>2. \A s \in Symbols : Resolve(s)' = Resolve(s)
    BY <2>1 DEF Resolve
  <2>3. \A a \in Admins : InstallInv(a)' /\ dangling[a] = {}
    BY <2>1 DEF PatchInv, InstallInv, Resolve
  <2>4. PatchInv'
    BY <2>1, <2>3, QuietStep
  <2>5. QED
    BY <2>1, <2>4
<1>2. CASE UNCHANGED vars
  BY <1>1, <1>2 DEF vars, patchVars, hookVars
<1>3. ASSUME NEW p \in Players, PlayerCall(p) \/ PlayerStep(p) PROVE Goal
  BY <1>1, <1>3, PlayersPatchNothing
<1>4. ASSUME NEW a \in Admins, AdminStep(a) PROVE Goal
  <2>1. ASSUME NEW s \in Symbols, InstallHook(a, s) PROVE Goal
    BY <2>1, InstallHookStep, Fresh
  <2>2. CASE InstallPublish(a)
    BY <2>2, InstallPublishStep
  <2>3. CASE ClearFinish(a)
    BY <2>3, ClearFinishStep
  <2>4. QED
    BY <1>4, <2>1, <2>2, <2>3, WaitingStep DEF AdminStep
<1>5. ASSUME NEW a \in Admins, AdminCall(a) PROVE Goal
  <2>1. ASSUME NEW id \in Ids, Unregister(a, id) PROVE Goal
    BY <2>1, UnregisterStep
  <2>2. CASE (\E t \in RawTargets : HookPtr(a, t) \/ UnhookPtr(a, t)) \/ ClearBegin(a)
    BY <2>2, RawHookStep
  <2>3. CASE LoadManifest(a)
    BY <2>3, LoadManifestStep
  <2>4. QED
    BY <1>5, <2>1, <2>2, <2>3, WaitingStep DEF AdminCall
<1>6. QED
  BY <1>2, <1>3, <1>4, <1>5 DEF Next

LEMMA PatchInvHolds == ASSUME OneAdmin PROVE Spec => []PatchInv
<1>1. Init => PatchInv
  BY InitPatched
<1>2. TypeOK /\ PatchInv /\ [Next]_vars => PatchInv'
  BY PatchStep
<1>3. QED
  BY <1>1, <1>2, Typing, PTL DEF Spec

(* With one thread that calls the C API, a chain that says it is installed *)
(* is what its target jumps to and hands out the original, also when other *)
(* symbols resolve to the same target and a manifest is loaded late        *)
(* (registry.cpp:163-185, 187-205, 223-235).                               *)
THEOREM InstalledChainsArePatched == ASSUME OneAdmin PROVE Spec => []InstalledMeansPatched
<1>1. PatchInv => InstalledMeansPatched
  BY DEF PatchInv
<1>2. QED
  BY <1>1, PatchInvHolds, PTL

(* With one thread that calls the C API, no function jumps to the closure  *)
(* of a symbol whose chain is not installed, save between hook_install and *)
(* the two writes after it (registry.cpp:177-183).                         *)
THEOREM NoPatchIsOrphaned == ASSUME OneAdmin PROVE Spec => []NoOrphanPatch
<1>1. PatchInv => NoOrphanPatch
  BY DEF PatchInv
<1>2. QED
  BY <1>1, PatchInvHolds, PTL

(* With one thread that calls the C API, no clean-up takes the hook of a   *)
(* chain away that it leaves in place (registry.cpp:187-205, 223-235).     *)
THEOREM HooksLeaveWithTheirChains == ASSUME OneAdmin PROVE Spec => HookLeavesWithItsChain
<1>1. TypeOK /\ PatchInv /\ [Next]_vars
         => [\A t \in Targets : (patch[t] \in Symbols /\ patch'[t] # patch[t])
                => patch[t] \notin chains']_vars
  BY PatchStep
<1>2. QED
  BY <1>1, Typing, PatchInvHolds, PTL DEF Spec, HookLeavesWithItsChain

=============================================================================
