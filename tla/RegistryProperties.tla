------------------------- MODULE RegistryProperties -------------------------
(***************************************************************************)
(* What the registry is for, stated over the threads of Registry.          *)
(***************************************************************************)
EXTENDS Registry

Table == INSTANCE HookTable WITH table <- entries

(* The registry implements the table of HookTable: the entries of a chain  *)
(* change only by a compatible insertion at the right place, a removal by  *)
(* id, or a clear, each visible in one step.                               *)
ImplementsHookTable == Table!Spec

(* No chain ever holds two hooks that conflict_check calls class 3,        *)
(* although the check and the insertion are separate steps and several     *)
(* threads register at once (registry.cpp:98-115).                         *)
NoHardConflict ==
    \A s \in Symbols : \A i, j \in DOMAIN entries[s] :
        i # j => ~HardPair(entries[s][i], entries[s][j])

(* A chain is sorted whenever it can be read, so that the sort with which  *)
(* run_before starts (chain.cpp:32) never writes under the shared lock.    *)
ReadersFindChainsSorted ==
    \A s \in Symbols : ~dirty[s] /\ InRunOrder(entries[s])

(* While a thread walks a chain, nobody changes it: the iterators and the  *)
(* Chain* of before, after and dispatch stay valid under the shared lock   *)
(* (registry.cpp:237-263).                                                 *)
WalkedChainsDoNotChange ==
    [][readers \cap readers' # {} => UNCHANGED <<chains, entries>>]_vars

PhaseOrder(phase) == CASE phase = "before" -> 1 [] phase = "replace" -> 2
                       [] phase = "after" -> 3

(* One call fires BEFORE hooks, then a REPLACE hook, then AFTER hooks, and *)
(* the hooks of one phase by descending priority, whatever was registered  *)
(* or removed while the call was under way (chain.cpp:31-54).              *)
FiredInRunOrder ==
    \A p \in Players : LET fired == call[p].fired IN
        \A i, j \in DOMAIN fired : i < j =>
            \/ PhaseOrder(fired[i].phase) < PhaseOrder(fired[j].phase)
            \/ /\ fired[i].phase = fired[j].phase
               /\ fired[i].priority >= fired[j].priority

(* The body of a call runs at most once, as the original or as one REPLACE *)
(* hook, and not at all once a BEFORE hook has cancelled (augment.hpp:45-48 *)
(* and 59).                                                                *)
AtMostOneBody ==
    \A p \in Players : LET c == call[p] IN
        Cardinality({i \in DOMAIN c.fired : c.fired[i].phase = "replace"}
                       \cup {n \in {0} : c.ran # None}
                       \cup {n \in {-1} : c.cancelled}) <= 1

(* A chain that says it is installed is what its target jumps to, and has  *)
(* the original to hand out (registry.cpp:163-185, 187-205, 223-235).      *)
InstalledMeansPatched ==
    \A s \in Symbols : installed[s] =>
        /\ s \in chains
        /\ Resolve(s) # None
        /\ saved[s] = Resolve(s)
        /\ patch[Resolve(s)] = s

(* A target never jumps to a closure whose symbol has no installed chain,  *)
(* except between hook_install and the two writes that follow it.  Such a  *)
(* patch would swallow every call: the closure finds no original to run.   *)
(* registry.hpp:45 asks for install_chain under the unique lock.           *)
NoOrphanPatch ==
    \A t \in Targets : patch[t] \in Symbols =>
        \/ installed[patch[t]]
        \/ \E a \in Admins : /\ job[a] = "publish"
                             /\ current[a] = patch[t]
                             /\ patch[t] \notin dangling[a]

(* Nobody else's clean-up takes a chain's hook away: when a target stops   *)
(* jumping to the closure of s, s has lost its chain in the same step,     *)
(* also when another symbol resolves to the same target.                   *)
HookLeavesWithItsChain ==
    [][\A t \in Targets : (patch[t] \in Symbols /\ patch'[t] # patch[t])
          => patch[t] \notin chains']_vars

-----------------------------------------------------------------------------

OthersIdle(a) == /\ \A p \in Players : stage[p] = "idle"
                 /\ \A b \in Admins \ {a} : job[b] = "idle"

(* A C API call returns once the other threads leave the runtime alone: no *)
(* path through it keeps m_mutex or waits for itself.                      *)
AdminCallsReturn ==
    \A a \in Admins : <>[]OthersIdle(a) => (job[a] # "idle" ~> job[a] = "idle")

(* A hooked call returns once no admin is inside the runtime.              *)
PlayerCallsReturn ==
    \A p \in Players :
        <>[](\A a \in Admins : job[a] = "idle")
            => (stage[p] # "idle" ~> stage[p] = "idle")

-----------------------------------------------------------------------------
(* What the documentation says and the code does not keep. *)

(* augment.hpp:29-31 says of a BEFORE hook: "The original function still   *)
(* runs afterward."  So a finished call in which BEFORE hooks fired, none  *)
(* cancelled and no REPLACE hook stood in, has run the original.           *)
OriginalRunsAfterBefore ==
    \A p \in Players : LET c == call[p] IN
        (/\ stage[p] = "done" /\ c.mode = "closure" /\ ~c.cancelled
         /\ \E i \in DOMAIN c.fired : c.fired[i].phase = "before"
         /\ \A i \in DOMAIN c.fired : c.fired[i].phase # "replace")
        => c.ran # None

(* augment.hpp:260-262 says that augment_install_all "Installs all pending *)
(* hooks into their target functions": when it returns, no chain with      *)
(* hooks is left that could be installed.                                  *)
InstallAllLeavesNothing ==
    \A a \in Admins : (job[a] = "returned" /\ req[a] = None) =>
        \A s \in chains :
            \/ entries[s] = <<>> \/ installed[s]
            \/ Resolve(s) = None \/ ~(target_ptr[s] \/ HasClosure(s))
            \/ ~CanHook(Resolve(s))

(* augment.hpp:253-254 says that augment_unregister "Removes a registered  *)
(* hook by its augment_id": what augment_register_ptr has registered stays *)
(* until augment_clear.                                                    *)
UnregisterKeepsPointers ==
    [][\A s \in Symbols : (target_ptr[s] /\ ~target_ptr'[s])
          => \E a \in Admins : job[a] = "clearing"]_vars

=============================================================================
