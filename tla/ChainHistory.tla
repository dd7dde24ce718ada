---------------------------- MODULE ChainHistory ----------------------------
(***************************************************************************)
(* One chain under every sequence of registrations and removals, beside    *)
(* the record a reader of the log would keep: which entries were admitted, *)
(* and in which order.  The module checks the pure parts (conflict rules,  *)
(* stable sort, removal) over what legal calls can build, before Registry  *)
(* puts them behind a lock.                                                *)
(***************************************************************************)
EXTENDS Chain

CONSTANTS
    Catalog,      \* the entries callers may register
    MaxAdds       \* bound: registrations per behaviour

ASSUME MaxAddsIsNat == MaxAdds \in Nat
ASSUME PrioritiesAreInts == \A e \in Catalog : e.priority \in Int

VARIABLES
    chain,        \* Chain::entries
    admitted,     \* history: {[entry, stamp]} of the entries still registered
    clock         \* history: the stamp of the next registration

vars == <<chain, admitted, clock>>

Ids == {e.id : e \in Catalog}

Init ==
    /\ chain = <<>>
    /\ admitted = {}
    /\ clock = 1

(* Registry::register_augment on this chain: check, push_back, sort. *)
AddHook(e) ==
    /\ clock <= MaxAdds
    /\ ConflictCheck(chain, e) # "hard"
    /\ chain' = StableSort(Append(chain, e))
    /\ admitted' = admitted \cup {[entry |-> e, stamp |-> clock]}
    /\ clock' = clock + 1

RemoveHook(id) ==
    /\ \E i \in DOMAIN chain : chain[i].id = id
    /\ chain' = RemoveAugment(chain, id)
    /\ admitted' = {a \in admitted : a.entry.id # id}
    /\ UNCHANGED clock

Next == \/ \E e \in Catalog : AddHook(e)
        \/ \E id \in Ids : RemoveHook(id)

Spec == Init /\ [][Next]_vars

-----------------------------------------------------------------------------

(* a runs before b: higher priority, or the same and registered earlier. *)
RunsBefore(a, b) ==
    \/ a.entry.priority > b.entry.priority
    \/ a.entry.priority = b.entry.priority /\ a.stamp < b.stamp

(* Hooks run by descending priority and, at one priority, in the order in  *)
(* which they were registered, however registrations and removals were     *)
(* mixed (chain.cpp:24-29; test_chain.cpp expects both halves).            *)
RunOrderIsPriorityThenAge ==
    /\ Len(chain) = Cardinality(admitted)
    /\ \A a \in admitted :
          chain[1 + Cardinality({b \in admitted : RunsBefore(b, a)})] = a.entry

(* Whether hooks can live together does not depend on who came first:      *)
(* the entries of a chain would be admitted, and the same pairs warned     *)
(* about, in any other order of registration (conflict.cpp:27-104).        *)
AdmissionIgnoresOrder ==
    \A i, j \in DOMAIN chain : i # j =>
        /\ ConflictCheck(<<chain[i]>>, chain[j]) # "hard"
        /\ ConflictCheck(<<chain[i]>>, chain[j])
              = ConflictCheck(<<chain[j]>>, chain[i])

=============================================================================
