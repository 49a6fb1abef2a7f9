------------------------------- MODULE Orders -------------------------------
(***************************************************************************)
(* The orders pkg/utils/reorder-tool is to try, in closed form: for        *)
(* OnePointer the rotations of the input, for TwoPointer every ordered     *)
(* pair of elements put first in turn.  Positions count from 0 as in the   *)
(* code; ReorderTool shows that HasNext and Get yield these orders.        *)
(***************************************************************************)
EXTENDS Integers, SequencesExt

\* OnePointer: the element at position k first, the others follow it around.
Rotation(q, k) == SubSeq(q, k + 1, Len(q)) \o SubSeq(q, 1, k)
RotationCount(q) == Len(q)

\* TwoPointer: pairs of positions <<i, j>>, i # j, in lexicographic order.
PairAt(n, k) ==
    LET i == k \div (n - 1)
        j == k % (n - 1)
    IN  <<i, IF j < i THEN j ELSE j + 1>>

\* The elements but those at two places, in their order.
Others(q, i, j) ==
    IF i < j THEN RemoveAt(RemoveAt(q, j), i) ELSE RemoveAt(RemoveAt(q, i), j)

PairFirst(q, k) ==
    IF Len(q) < 2 THEN q
    ELSE LET i == PairAt(Len(q), k)[1] + 1
             j == PairAt(Len(q), k)[2] + 1
         IN  <<q[i], q[j]>> \o Others(q, i, j)
PairCount(q) == IF Len(q) < 2 THEN Len(q) ELSE Len(q) * (Len(q) - 1)
=============================================================================
