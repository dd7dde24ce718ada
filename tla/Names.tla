-------------------------------- MODULE Names -------------------------------
(***************************************************************************)
(* What the parts of phase 2 do with names: sorted() and the dicts that    *)
(* take each name once.                                                    *)
(***************************************************************************)
EXTENDS Listings, SequencesExt

CONSTANTS
    None,       \* Python's None: no name, no address, no view
    Rank        \* the order of names by their text

ASSUME TextIsOrdered ==
    /\ None \notin Int
    /\ \A m, n \in DOMAIN Rank : Rank[m] \in Int /\ (Rank[m] = Rank[n] => m = n)

(* sorted, of a set of names. *)
ByText(names) == {mn \in names \X names : Rank[mn[1]] < Rank[mn[2]]}
Alphabetical(names) == [k \in 1 .. Cardinality(names) |-> Nth(names, ByText(names), k)]

(* sorted, of records: a stable sort by one of their fields. *)
ByRank(ranks) ==
    {ij \in (DOMAIN ranks) \X (DOMAIN ranks) :
        \/ ranks[ij[1]] < ranks[ij[2]]
        \/ ranks[ij[1]] = ranks[ij[2]] /\ ij[1] < ij[2]}
SortByName(records) ==
    Listing(records, DOMAIN records, ByRank([i \in DOMAIN records |-> Rank[records[i].name]]))
SortByAlias(records) ==
    Listing(records, DOMAIN records, ByRank([i \in DOMAIN records |-> Rank[records[i].alias]]))

(* A slip: a name that is there gets another entry. *)
KeepAll(entries) == entries

(* A dict that is only written where it has no entry yet. *)
NamesOf(entries) == [i \in DOMAIN entries |-> entries[i].name]
OncePerName(entries) == Selection(entries, Firsts(NamesOf(entries)))

=============================================================================
