------------------------------ MODULE Grouping ------------------------------
(***************************************************************************)
(* What one batch of matchmaking may yield: groups of the tickets it was   *)
(* given, none empty, no ticket in two of them.  MatchStream assumes it of *)
(* every call of MatchPlayers, PivotMatching shows that MatchPlayers keeps *)
(* it.  The streams also read their sequences by these operators.           *)
(***************************************************************************)
EXTENDS Integers, Sequences, FiniteSets

\* The elements of a sequence.
Elements(s) == {s[i] : i \in 1 .. Len(s)}

Disjoint(g) == \A i, j \in DOMAIN g : i # j => g[i] \cap g[j] = {}

IsGrouping(g, S) ==
    /\ Len(g) <= Cardinality(S)
    /\ \A i \in 1 .. Len(g) : g[i] # {} /\ g[i] \subseteq S
    /\ Disjoint(g)

\* All of them, for a set small enough to enumerate.
Groupings(S) ==
    {g \in UNION {[1 .. n -> (SUBSET S) \ {{}}] : n \in 0 .. Cardinality(S)} : Disjoint(g)}
=============================================================================
