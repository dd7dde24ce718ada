------------------------------ MODULE Registry ------------------------------
(***************************************************************************)
(* The hook registry of src/runtime/registry.cpp with the threads that use *)
(* it.  Admins call the C API (register, unregister, install_all, clear,   *)
(* register_ptr, hook_ptr, unhook_ptr, manifest load); Players run the     *)
(* host program, enter a patched function and pass through the closure of  *)
(* src/runtime/closure.cpp, or call augment_invoke and augment_enter.      *)
(*                                                                         *)
(* Registry::m_mutex is a shared mutex.  What runs under its exclusive     *)
(* side is one action, guarded by CanWrite, except register_augment, whose *)
(* conflict check and insertion are separate actions of a thread that      *)
(* holds the lock.  What runs after the lock is dropped (install_chain)    *)
(* or before it is taken is a step of its own.  Hook callbacks run one by  *)
(* one under the shared side.                                              *)
(*                                                                         *)
(* install_chain keeps a raw Chain* across the unlock.  When the node it   *)
(* points to is erased, the symbol joins dangling[a]: reads and writes     *)
(* through the pointer are then undefined, and the model takes every       *)
(* outcome the build can produce (stale bytes, a write into freed memory,  *)
(* a write into a node allocated in the same place).                       *)
(***************************************************************************)
EXTENDS Chain

CONSTANTS
    Symbols,      \* keys of m_chains
    Targets,      \* entry points of host functions
    Admins,       \* threads that call the C API
    Players,      \* threads that run host functions
    Catalog,      \* entries that admins may register
    Exported,     \* what sym_resolve finds: [Symbols -> Targets \cup {None}]
    Located,      \* what the manifest adds: [Symbols -> Targets \cup {None}]
    Signed,       \* symbols whose signature is registered from the start
    ApiModes,     \* how players call in without a patch: "invoke", "enter"
    RawTargets,   \* targets that admins may pass to augment_hook_ptr
    Hookable,     \* targets the backend can patch (func_gap is large enough)
    MaxEntries,   \* bound: entries of one chain, offers in flight included
    None,         \* nullptr, or no thread
    Raw           \* the mark of a patch made by augment_hook_ptr

ASSUME ConstantsOK ==
    /\ \A e \in Catalog : e.phase \in Phases /\ e.priority \in Int
    /\ Exported \in [Symbols -> Targets \cup {None}]
    /\ Located \in [Symbols -> Targets \cup {None}]
    /\ Signed \subseteq Symbols
    /\ Hookable \subseteq Targets /\ RawTargets \subseteq Targets
    /\ ApiModes \subseteq {"invoke", "enter"}
    /\ MaxEntries \in Nat
    /\ None \notin Symbols \cup Targets \cup Admins \cup Players
    /\ Raw \notin Symbols \cup {None}

VARIABLES
    chains,       \* the symbols that have a node in m_chains
    entries,      \* Chain::entries of each symbol
    dirty,        \* Chain::dirty
    saved,        \* Chain::saved, as the target whose original it runs
    target_ptr,   \* whether Chain::target_ptr is set
    installed,    \* Chain::installed
    m_installed,  \* Registry::m_installed
    writer,       \* the thread that holds m_mutex across steps, or None
    readers,      \* the threads that hold m_mutex shared
    patch,        \* what each target jumps to: None, a symbol's closure, Raw
    ptr_hooks,    \* keys of ptr_hooks
    loaded,       \* whether a manifest has been loaded
    job,          \* where each admin is
    req,          \* the registration in progress: [sym, entry], or None
    pending,      \* symbols the admin still has to install
    dangling,     \* those of them whose Chain* has been erased
    current,      \* the symbol whose target the admin has just patched
    stage,        \* where each player is
    call          \* the player's call, as it would tell it

chainVars == <<chains, entries, dirty, saved, target_ptr, installed>>
hookVars == <<patch, ptr_hooks>>
adminVars == <<job, req, pending, dangling, current>>
playerVars == <<stage, call>>
vars == <<chains, entries, dirty, saved, target_ptr, installed, m_installed,
          writer, readers, patch, ptr_hooks, loaded,
          job, req, pending, dangling, current, stage, call>>

Ids == {e.id : e \in Catalog}

NoCall == [sym |-> None, mode |-> "none", at |-> 1, orig |-> None,
           fired |-> <<>>, cancelled |-> FALSE, ran |-> None]

Jobs == {"idle", "want", "checked", "install", "publish", "returned", "clearing"}
Stages == {"idle", "enter", "before", "leave", "orig", "exit", "after", "done"}
Modes == {"closure", "invoke", "enter"}

Init ==
    /\ chains = {}
    /\ entries = [s \in Symbols |-> <<>>]
    /\ dirty = [s \in Symbols |-> FALSE]
    /\ saved = [s \in Symbols |-> None]
    /\ target_ptr = [s \in Symbols |-> FALSE]
    /\ installed = [s \in Symbols |-> FALSE]
    /\ m_installed = FALSE
    /\ writer = None
    /\ readers = {}
    /\ patch = [t \in Targets |-> None]
    /\ ptr_hooks = {}
    /\ loaded = FALSE
    /\ job = [a \in Admins |-> "idle"]
    /\ req = [a \in Admins |-> None]
    /\ pending = [a \in Admins |-> {}]
    /\ dangling = [a \in Admins |-> {}]
    /\ current = [a \in Admins |-> None]
    /\ stage = [p \in Players |-> "idle"]
    /\ call = [p \in Players |-> NoCall]

-----------------------------------------------------------------------------
(* The lock, and what the rest of the runtime answers the registry. *)

(* Faulty locks: a writer that ignores readers, one that ignores writers,  *)
(* a reader that ignores the writer, and locks that are never given back.  *)
CanWriteBesideReaders == writer = None
CanWriteBesideWriter == readers = {}
CanReadBesideWriter == TRUE
KeepExclusive == writer' = writer
KeepShared(p) == readers' = readers

(* std::unique_lock can be taken; it is given back. *)
CanWrite == writer = None /\ readers = {}
Unlock == writer' = None

(* std::shared_lock can be taken; it is given back. *)
CanRead == writer = None
UnlockShared(p) == readers' = readers \ {p}

(* resolve_target: the exported symbol, else the address in the manifest. *)
Resolve(s) ==
    IF Exported[s] # None THEN Exported[s]
    ELSE IF loaded THEN Located[s] ELSE None

(* augment_make_closure succeeds once a signature is known. *)
HasClosure(s) == s \in Signed \/ loaded

(* A faulty backend that lets a second hook replace the first. *)
CanHookAgain(t) == t \in Hookable

(* The backend patches a function once: a second hook on it fails. *)
CanHook(t) == t \in Hookable /\ patch[t] = None

(* A registration that forgets to sort. *)
NeverSorted(hooks, d) == hooks

(* Chain::sort does nothing to a chain that is not dirty. *)
SortedIfDirty(hooks, d) == IF d THEN StableSort(hooks) ELSE hooks

(* m_chains.erase: what is left of the nodes of S, and of pointers to them. *)
Erase(S, left) ==
    /\ chains' = chains \ S
    /\ entries' = [s \in Symbols |-> IF s \in S THEN <<>> ELSE left[s]]
    /\ dirty' = [s \in Symbols |-> s \notin S /\ dirty[s]]
    /\ saved' = [s \in Symbols |-> IF s \in S THEN None ELSE saved[s]]
    /\ target_ptr' = [s \in Symbols |-> s \notin S /\ target_ptr[s]]
    /\ installed' = [s \in Symbols |-> s \notin S /\ installed[s]]
    /\ dangling' = [a \in Admins |-> dangling[a] \cup (pending[a] \cap S)]

(* plat::hook_remove on every target of T. *)
Unhook(T) == patch' = [t \in Targets |-> IF t \in T THEN None ELSE patch[t]]

(* Clean-ups that go by the address alone, or that miss the hook. *)
HookedByAddress(S) == {Resolve(s) : s \in S}
HookedByUnsaved(S) == {Resolve(s) : s \in {c \in S : installed[c] /\ saved[c] = None}}

(* The targets that unregister_augment unhooks when it drops the chains S. *)
HookedBy(S) == {Resolve(s) : s \in {c \in S : installed[c] /\ saved[c] # None}}

-----------------------------------------------------------------------------
(* Admins: augment_register. *)

(* The call, before it has the lock. *)
RegisterCall(a, s, e) ==
    /\ job[a] = "idle"
    /\ Len(entries[s]) + Cardinality({b \in Admins : job[b] \in {"want", "checked"}})
          < MaxEntries
    /\ job' = [job EXCEPT ![a] = "want"]
    /\ req' = [req EXCEPT ![a] = [sym |-> s, entry |-> e]]
    /\ UNCHANGED <<chainVars, m_installed, writer, readers, hookVars, loaded,
                   pending, dangling, current, playerVars>>

(* Lock, get_or_create_chain, conflict_check; a hard conflict returns. *)
RegisterCheck(a) ==
    LET s == req[a].sym
        refused == ConflictCheck(entries[s], req[a].entry) = "hard"
    IN  /\ job[a] = "want"
        /\ CanWrite
        /\ chains' = chains \cup {s}
        /\ job' = [job EXCEPT ![a] = IF refused THEN "returned" ELSE "checked"]
        /\ writer' = IF refused THEN None ELSE a
        /\ UNCHANGED <<entries, dirty, saved, target_ptr, installed, m_installed,
                       readers, hookVars, loaded, req, pending, dangling, current,
                       playerVars>>

(* add, sort, unlock; a late registration goes on to install its chain. *)
RegisterCommit(a) ==
    LET s == req[a].sym
        late == m_installed /\ ~installed[s]
    IN  /\ job[a] = "checked"
        /\ entries' = [entries EXCEPT
                          ![s] = SortedIfDirty(Append(@, req[a].entry), TRUE)]
        /\ dirty' = [dirty EXCEPT ![s] = FALSE]
        /\ Unlock
        /\ job' = [job EXCEPT ![a] = IF late THEN "install" ELSE "returned"]
        /\ pending' = [pending EXCEPT ![a] = IF late THEN {s} ELSE {}]
        /\ UNCHANGED <<chains, saved, target_ptr, installed, m_installed, readers,
                       hookVars, loaded, req, dangling, current, playerVars>>

-----------------------------------------------------------------------------
(* Admins: install_chain, run without the lock on every pending symbol. *)

(* target_ptr read through a pointer that may dangle. *)
TargetPtrRead(a, s) == IF s \in dangling[a] THEN BOOLEAN ELSE {target_ptr[s]}

(* No replacement, no target, or hook_install fails. *)
InstallFails(a, s) ==
    /\ job[a] = "install"
    /\ s \in pending[a]
    /\ \/ \E has_ptr \in TargetPtrRead(a, s) : ~has_ptr /\ ~HasClosure(s)
       \/ Resolve(s) = None
       \/ Resolve(s) # None /\ ~CanHook(Resolve(s))
    /\ pending' = [pending EXCEPT ![a] = @ \ {s}]
    /\ dangling' = [dangling EXCEPT ![a] = @ \ {s}]
    /\ UNCHANGED <<chainVars, m_installed, writer, readers, hookVars, loaded,
                   job, req, current, playerVars>>

(* hook_install: from here on the target jumps to the closure of s. *)
InstallHook(a, s) ==
    /\ job[a] = "install"
    /\ s \in pending[a]
    /\ \E has_ptr \in TargetPtrRead(a, s) : has_ptr \/ HasClosure(s)
    /\ Resolve(s) # None
    /\ CanHook(Resolve(s))
    /\ patch' = [patch EXCEPT ![Resolve(s)] = s]
    /\ job' = [job EXCEPT ![a] = "publish"]
    /\ current' = [current EXCEPT ![a] = s]
    /\ UNCHANGED <<chainVars, m_installed, writer, readers, ptr_hooks, loaded,
                   req, pending, dangling, playerVars>>

(* chain.saved = orig; chain.installed = true.  Through a dangling pointer *)
(* the two writes are lost, or land in a node that took the same memory:   *)
(* the model does not follow the allocator, so it may be any node.         *)
InstallPublish(a) ==
    LET s == current[a]
        nodes == IF s \in dangling[a] THEN {{}} \cup {{c} : c \in chains} ELSE {{s}}
    IN  /\ job[a] = "publish"
        /\ \E N \in nodes :
              /\ saved' = [c \in Symbols |-> IF c \in N THEN Resolve(s) ELSE saved[c]]
              /\ installed' = [c \in Symbols |-> c \in N \/ installed[c]]
        /\ job' = [job EXCEPT ![a] = "install"]
        /\ pending' = [pending EXCEPT ![a] = @ \ {s}]
        /\ dangling' = [dangling EXCEPT ![a] = @ \ {s}]
        /\ current' = [current EXCEPT ![a] = None]
        /\ UNCHANGED <<chains, entries, dirty, target_ptr, m_installed, writer,
                       readers, hookVars, loaded, req, playerVars>>

InstallDone(a) ==
    /\ job[a] = "install"
    /\ pending[a] = {}
    /\ job' = [job EXCEPT ![a] = "returned"]
    /\ UNCHANGED <<chainVars, m_installed, writer, readers, hookVars, loaded,
                   req, pending, dangling, current, playerVars>>

(* The C API returns to its caller. *)
Return(a) ==
    /\ job[a] = "returned"
    /\ job' = [job EXCEPT ![a] = "idle"]
    /\ req' = [req EXCEPT ![a] = None]
    /\ UNCHANGED <<chainVars, m_installed, writer, readers, hookVars, loaded,
                   pending, dangling, current, playerVars>>

-----------------------------------------------------------------------------
(* Admins: the other calls. *)

(* augment_install_all after a self test that passed: the second and later *)
(* calls return at once; the first collects the chains to install.         *)
InstallAll(a) ==
    /\ job[a] = "idle"
    /\ CanWrite
    /\ m_installed' = TRUE
    /\ IF m_installed
       THEN job' = [job EXCEPT ![a] = "returned"] /\ UNCHANGED pending
       ELSE /\ job' = [job EXCEPT ![a] = "install"]
            /\ pending' = [pending EXCEPT
                              ![a] = {s \in chains : ~installed[s] /\ entries[s] # <<>>}]
    /\ UNCHANGED <<chainVars, writer, readers, hookVars, loaded, req, dangling,
                   current, playerVars>>

RegisterPtr(a, s) ==
    /\ job[a] = "idle"
    /\ CanWrite
    /\ chains' = chains \cup {s}
    /\ target_ptr' = [target_ptr EXCEPT ![s] = TRUE]
    /\ UNCHANGED <<entries, dirty, saved, installed, m_installed, writer, readers,
                   hookVars, loaded, adminVars, playerVars>>

(* Every chain loses the entries of id; an empty chain is unhooked if it   *)
(* was installed, and erased whether or not it ever had an entry.          *)
Unregister(a, id) ==
    LET left == [s \in Symbols |-> RemoveAugment(entries[s], id)]
        gone == {s \in chains : left[s] = <<>>}
    IN  /\ job[a] = "idle"
        /\ CanWrite
        /\ Erase(gone, left)
        /\ Unhook(HookedBy(gone))
        /\ UNCHANGED <<m_installed, writer, readers, ptr_hooks, loaded, job, req,
                       pending, current, playerVars>>

(* unhook_all_ptr, under ptr_mutex alone. *)
ClearBegin(a) ==
    /\ job[a] = "idle"
    /\ Unhook(ptr_hooks)
    /\ ptr_hooks' = {}
    /\ job' = [job EXCEPT ![a] = "clearing"]
    /\ UNCHANGED <<chainVars, m_installed, writer, readers, loaded, req, pending,
                   dangling, current, playerVars>>

(* The rest of Registry::clear, under m_mutex. *)
ClearFinish(a) ==
    /\ job[a] = "clearing"
    /\ CanWrite
    /\ Unhook({Resolve(s) : s \in {c \in chains : installed[c]}})
    /\ Erase(chains, entries)
    /\ m_installed' = FALSE
    /\ job' = [job EXCEPT ![a] = "idle"]
    /\ UNCHANGED <<writer, readers, ptr_hooks, loaded, req, pending, current,
                   playerVars>>

HookPtr(a, t) ==
    /\ job[a] = "idle"
    /\ t \notin ptr_hooks
    /\ CanHook(t)
    /\ patch' = [patch EXCEPT ![t] = Raw]
    /\ ptr_hooks' = ptr_hooks \cup {t}
    /\ UNCHANGED <<chainVars, m_installed, writer, readers, loaded, adminVars,
                   playerVars>>

UnhookPtr(a, t) ==
    /\ job[a] = "idle"
    /\ t \in ptr_hooks
    /\ Unhook({t})
    /\ ptr_hooks' = ptr_hooks \ {t}
    /\ UNCHANGED <<chainVars, m_installed, writer, readers, loaded, adminVars,
                   playerVars>>

(* augment_manifest_load succeeds: addresses and signatures become known.  *)
LoadManifest(a) ==
    /\ job[a] = "idle"
    /\ ~loaded
    /\ loaded' = TRUE
    /\ UNCHANGED <<chainVars, m_installed, writer, readers, hookVars, adminVars,
                   playerVars>>

-----------------------------------------------------------------------------
(* Players. *)

(* The host calls t, which jumps to the replacement of a symbol.  That is a  *)
(* libffi closure (closure_handler) or the generated dispatch function given *)
(* to augment_register_ptr (walk.py, emit_trampoline).  Both start with a    *)
(* fresh AugmentCtx and make the same three calls: augment_before, the       *)
(* original when a trampoline came back, augment_after.                      *)
EnterClosure(p, t) ==
    /\ stage[p] = "idle"
    /\ patch[t] \in Symbols
    /\ stage' = [stage EXCEPT ![p] = "enter"]
    /\ call' = [call EXCEPT ![p] = [NoCall EXCEPT !.sym = patch[t], !.mode = "closure"]]
    /\ UNCHANGED <<chainVars, m_installed, writer, readers, hookVars, loaded, adminVars>>

(* augment_invoke or augment_enter. *)
CallApi(p, s, mode) ==
    /\ stage[p] = "idle"
    /\ stage' = [stage EXCEPT ![p] = "enter"]
    /\ call' = [call EXCEPT ![p] = [NoCall EXCEPT !.sym = s, !.mode = mode]]
    /\ UNCHANGED <<chainVars, m_installed, writer, readers, hookVars, loaded, adminVars>>

(* Shared lock and get_chain.  Without a chain the call is over, except    *)
(* that the closure goes on to augment_after.  run_before starts by        *)
(* sorting a dirty chain.                                                  *)
BeginBefore(p) ==
    LET s == call[p].sym
        found == s \in chains
    IN  /\ stage[p] = "enter"
        /\ CanRead
        /\ readers' = IF found THEN readers \cup {p} ELSE readers
        /\ stage' = [stage EXCEPT ![p] =
                        IF found THEN "before"
                        ELSE IF call[p].mode = "closure" THEN "exit" ELSE "done"]
        /\ entries' = [entries EXCEPT ![s] = SortedIfDirty(@, dirty[s])]
        /\ dirty' = [dirty EXCEPT ![s] = ~found /\ @]
        /\ UNCHANGED <<chains, saved, target_ptr, installed, m_installed, writer,
                       hookVars, loaded, adminVars, call>>

(* The callback at position i runs and may set ctx.cancelled. *)
Fire(p, i, cancels) ==
    call' = [call EXCEPT ![p].fired = Append(@, entries[call[p].sym][i]),
                         ![p].at = i + 1,
                         ![p].cancelled = cancels]

RunBefore(p) ==
    LET K == Remaining(entries[call[p].sym], "before", call[p].at)
    IN  /\ stage[p] = "before"
        /\ K # {}
        /\ \E cancels \in BOOLEAN :
              /\ Fire(p, First(K), cancels)
              /\ stage' = [stage EXCEPT ![p] = IF cancels THEN "leave" ELSE "before"]
        /\ UNCHANGED <<chainVars, m_installed, writer, readers, hookVars, loaded,
                       adminVars>>

(* No BEFORE hook is left: the first REPLACE hook stands in for the original. *)
RunReplace(p) ==
    LET hooks == entries[call[p].sym]
    IN  /\ stage[p] = "before"
        /\ Remaining(hooks, "before", call[p].at) = {}
        /\ Remaining(hooks, "replace", 1) # {}
        /\ Fire(p, First(Remaining(hooks, "replace", 1)), FALSE)
        /\ stage' = [stage EXCEPT ![p] = "leave"]
        /\ UNCHANGED <<chainVars, m_installed, writer, readers, hookVars, loaded,
                       adminVars>>

(* A run_before that goes on to the original after a REPLACE hook. *)
OriginalRegardless(p) == saved[call[p].sym]

(* What augment_before answers: saved after a run_before that was not cut *)
(* short, nullptr otherwise.                                               *)
Original(p) == IF stage[p] = "before" THEN saved[call[p].sym] ELSE None

(* run_before is over: "leave" when it was cut short.  The closure and     *)
(* augment_enter release the lock; augment_invoke keeps it.                *)
LeaveBefore(p) ==
    LET s == call[p].sym
        orig == Original(p)
        mode == call[p].mode
    IN  /\ \/ stage[p] = "leave"
           \/ /\ stage[p] = "before"
              /\ Remaining(entries[s], "before", call[p].at) = {}
              /\ Remaining(entries[s], "replace", 1) = {}
        /\ IF mode = "invoke" THEN UNCHANGED readers ELSE UnlockShared(p)
        /\ stage' = [stage EXCEPT ![p] =
                        IF mode = "enter" THEN "done"
                        ELSE IF orig # None THEN "orig"
                        ELSE IF mode = "invoke" THEN "after" ELSE "exit"]
        /\ call' = [call EXCEPT ![p].orig = orig, ![p].at = 1]
        /\ UNCHANGED <<chainVars, m_installed, writer, hookVars, loaded, adminVars>>

(* The trampoline runs the original function. *)
RunOriginal(p) ==
    /\ stage[p] = "orig"
    /\ call' = [call EXCEPT ![p].ran = call[p].orig]
    /\ stage' = [stage EXCEPT ![p] = IF call[p].mode = "invoke" THEN "after" ELSE "exit"]
    /\ UNCHANGED <<chainVars, m_installed, writer, readers, hookVars, loaded, adminVars>>

(* augment_after: shared lock and get_chain again. *)
BeginAfter(p) ==
    LET found == call[p].sym \in chains
    IN  /\ stage[p] = "exit"
        /\ CanRead
        /\ readers' = IF found THEN readers \cup {p} ELSE readers
        /\ stage' = [stage EXCEPT ![p] = IF found THEN "after" ELSE "done"]
        /\ UNCHANGED <<chainVars, m_installed, writer, hookVars, loaded, adminVars, call>>

RunAfter(p) ==
    LET K == Remaining(entries[call[p].sym], "after", call[p].at)
    IN  /\ stage[p] = "after"
        /\ K # {}
        /\ Fire(p, First(K), call[p].cancelled)
        /\ UNCHANGED <<chainVars, m_installed, writer, readers, hookVars, loaded,
                       adminVars, stage>>

LeaveAfter(p) ==
    /\ stage[p] = "after"
    /\ Remaining(entries[call[p].sym], "after", call[p].at) = {}
    /\ UnlockShared(p)
    /\ stage' = [stage EXCEPT ![p] = "done"]
    /\ UNCHANGED <<chainVars, m_installed, writer, hookVars, loaded, adminVars, call>>

(* The host function, or the API call, returns. *)
Finish(p) ==
    /\ stage[p] = "done"
    /\ stage' = [stage EXCEPT ![p] = "idle"]
    /\ call' = [call EXCEPT ![p] = NoCall]
    /\ UNCHANGED <<chainVars, m_installed, writer, readers, hookVars, loaded, adminVars>>

-----------------------------------------------------------------------------

(* What a thread does to get on with a call it has begun. *)
AdminStep(a) ==
    \/ RegisterCheck(a) \/ RegisterCommit(a)
    \/ \E s \in Symbols : InstallFails(a, s) \/ InstallHook(a, s)
    \/ InstallPublish(a) \/ InstallDone(a) \/ Return(a)
    \/ ClearFinish(a)

AdminCall(a) ==
    \/ \E s \in Symbols, e \in Catalog : RegisterCall(a, s, e)
    \/ \E s \in Symbols : RegisterPtr(a, s)
    \/ \E id \in Ids : Unregister(a, id)
    \/ \E t \in RawTargets : HookPtr(a, t) \/ UnhookPtr(a, t)
    \/ InstallAll(a) \/ ClearBegin(a) \/ LoadManifest(a)

PlayerStep(p) ==
    \/ BeginBefore(p) \/ RunBefore(p) \/ RunReplace(p) \/ LeaveBefore(p)
    \/ RunOriginal(p)
    \/ BeginAfter(p) \/ RunAfter(p) \/ LeaveAfter(p)
    \/ Finish(p)

PlayerCall(p) ==
    \/ \E t \in Targets : EnterClosure(p, t)
    \/ \E s \in Symbols, mode \in ApiModes : CallApi(p, s, mode)

Next ==
    \/ \E a \in Admins : AdminCall(a) \/ AdminStep(a)
    \/ \E p \in Players : PlayerCall(p) \/ PlayerStep(p)

Spec == Init /\ [][Next]_vars

(* Every thread that is inside the runtime keeps running: callbacks and    *)
(* originals return.  Nobody has to call the runtime at all.               *)
Fairness ==
    /\ \A a \in Admins : WF_vars(AdminStep(a))
    /\ \A p \in Players : WF_vars(PlayerStep(p))

FairSpec == Spec /\ Fairness

-----------------------------------------------------------------------------

Requests == [sym : Symbols, entry : Catalog]

Calls == [sym : Symbols \cup {None}, mode : Modes \cup {"none"}, at : Nat,
          orig : Targets \cup {None}, fired : Seq(Catalog), cancelled : BOOLEAN,
          ran : Targets \cup {None}]

(* Where a player holds m_mutex shared. *)
Holding(p) ==
    \/ stage[p] \in {"before", "leave", "after"}
    \/ stage[p] = "orig" /\ call[p].mode = "invoke"

(* The types, the arguments a thread has at each point of its call, and    *)
(* who holds m_mutex there: exactly the threads whose call is inside a     *)
(* locked region, and never a writer beside a reader (registry.cpp:98-121, *)
(* 237-263).                                                               *)
RegistryTyped ==
    /\ chains \in SUBSET Symbols
    /\ entries \in [Symbols -> Seq(Catalog)]
    /\ dirty \in [Symbols -> BOOLEAN]
    /\ saved \in [Symbols -> Targets \cup {None}]
    /\ target_ptr \in [Symbols -> BOOLEAN]
    /\ installed \in [Symbols -> BOOLEAN]
    /\ m_installed \in BOOLEAN
    /\ patch \in [Targets -> Symbols \cup {None, Raw}]
    /\ ptr_hooks \in SUBSET Targets
    /\ loaded \in BOOLEAN

ThreadsTyped ==
    /\ job \in [Admins -> Jobs]
    /\ req \in [Admins -> Requests \cup {None}]
    /\ pending \in [Admins -> SUBSET Symbols]
    /\ dangling \in [Admins -> SUBSET Symbols]
    /\ current \in [Admins -> Symbols \cup {None}]
    /\ \A a \in Admins : /\ job[a] \in {"want", "checked"} => req[a] \in Requests
                         /\ job[a] = "publish" => current[a] \in Symbols
    /\ stage \in [Players -> Stages]
    /\ call \in [Players -> Calls]
    /\ \A p \in Players : stage[p] # "idle" => call[p].sym \in Symbols

LockHeld ==
    /\ writer \in Admins \cup {None}
    /\ \A a \in Admins : job[a] = "checked" <=> writer = a
    /\ readers = {p \in Players : Holding(p)}
    /\ writer # None => readers = {}

TypeOK == RegistryTyped /\ ThreadsTyped /\ LockHeld

=============================================================================
