-------------------------- MODULE MCPartyCombination --------------------------
(* Instances of PartyCombination for TLC; tickets are numbers.             *)
EXTENDS PartyCombination
\* It doubles when it is full.
Doubled(n) == CHOOSE c \in {0, 1, 2, 4, 8} : n <= c /\ \A d \in {0, 1, 2, 4, 8} : n <= d => c <= d

FourTickets == <<1, 2, 3, 4>>

\* Many orders for teams whose array is full, one order for teams in an array
\* with room for another ticket.
Full == {<<>>, <<5>>, <<5, 6>>}
WithRoom == {<<5, 6, 7>>}
MixStarts == [team : Full, loops : {2, 6}] \cup [team : Full \cup WithRoom, loops : {1}]
AnySize == [t \in 1 .. 7 |-> {1, 2, 3}]

\* Five solos in an array for eight.
FiveStarts == {[team |-> <<5, 6, 7, 8, 9>>, loops |-> 6]}
UnevenSizes == [t \in 1 .. 9 |-> IF t > 4 THEN {1} ELSE {1, 3, 5}]

SomeBlocks == {<<1, 3>>, <<4, 2>>, <<5, 4>>}
NoBlocks == {}
=============================================================================
