------------------------------ MODULE HookTable ------------------------------
(***************************************************************************)
(* What the registry promises its callers, with no locks, threads or       *)
(* patches in sight: a table that gives every symbol a list of hooks in    *)
(* the order they run.  A hook enters the table in one step, at its place, *)
(* and only beside hooks it can live with; it leaves when its owner        *)
(* unregisters or the table is cleared, and in no other way.               *)
(*                                                                         *)
(* The list is built by insertion, where Registry appends and sorts.       *)
(***************************************************************************)
EXTENDS Contract, FiniteSets

CONSTANTS Symbols, Catalog

VARIABLE table      \* [Symbols -> Seq(Catalog)]

Compatible(s, e) == \A i \in DOMAIN table[s] : ~HardPair(e, table[s][i])

(* The members of a set of positions, in their order.                      *)
Rising(K) ==
    CHOOSE f \in [1 .. Cardinality(K) -> K] :
        \A k, l \in 1 .. Cardinality(K) : k < l => f[k] < f[l]

(* What is left of hooks when id leaves: the others, in the same order.    *)
Without(hooks, id) ==
    LET kept == Rising({i \in DOMAIN hooks : hooks[i].id # id})
    IN  [k \in DOMAIN kept |-> hooks[kept[k]]]

Init == table = [s \in Symbols |-> <<>>]

(* e goes after every hook of its own or a higher priority. *)
Register(s, e) ==
    /\ Compatible(s, e)
    /\ \E k \in 0 .. Len(table[s]) :
          /\ \A i \in 1 .. k : table[s][i].priority >= e.priority
          /\ \A i \in k + 1 .. Len(table[s]) : table[s][i].priority < e.priority
          /\ table' = [table EXCEPT ![s] =
                          SubSeq(@, 1, k) \o <<e>> \o SubSeq(@, k + 1, Len(@))]

Unregister(id) == table' = [s \in Symbols |-> Without(table[s], id)]

Clear == table' = [s \in Symbols |-> <<>>]

Next ==
    \/ \E s \in Symbols, e \in Catalog : Register(s, e)
    \/ \E id \in {e.id : e \in Catalog} : Unregister(id)
    \/ Clear

Spec == Init /\ [][Next]_table

=============================================================================
