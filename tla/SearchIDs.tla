------------------------------ MODULE SearchIDs -----------------------------
(***************************************************************************)
(* Lists filtered as internal/broker/server.go does it: the two search     *)
(* loops' uniqueIDsExcluding, and what the filters of threads keep.        *)
(***************************************************************************)
EXTENDS Integers, Sequences, FiniteSets, Functions

\* A mutant: what was returned before is listed again.
FirstOccurrences_Included(ids, excluded) ==
    {i \in DOMAIN ids : \A j \in 1 .. i - 1 : ids[j] # ids[i]}

\* The positions that survive: the first occurrence of each identifier that is
\* not excluded.
FirstOccurrences(ids, excluded) ==
    {i \in DOMAIN ids : /\ ids[i] \notin excluded
                        /\ \A j \in 1 .. i - 1 : ids[j] # ids[i]}

\* How many of a set of positions are at or before position i.
Rank(positions, i) == Cardinality({j \in positions : j <= i})

\* What s has at a set of positions, in order.
AtPositions(s, positions) ==
    [k \in 1 .. Cardinality(positions) |->
        s[CHOOSE i \in positions : Rank(positions, i) = k]]

\* The elements of s that are in S, in order.
Keep(s, S) == AtPositions(s, {i \in DOMAIN s : s[i] \in S})

\* ids without the excluded identifiers and without repetitions, in order.
UniqueIDsExcluding(ids, excluded) == AtPositions(ids, FirstOccurrences(ids, excluded))

=============================================================================
