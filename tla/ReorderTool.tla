----------------------------- MODULE ReorderTool -----------------------------
(***************************************************************************)
(* OnePointer and TwoPointer of pkg/utils/reorder-tool: an iterator over   *)
(* orders of the positions 0 .. n - 1, driven by HasNext and Get, with     *)
(* elements that always come first and a bound on the number of orders.    *)
(* No caller sets MaxSecond: the clock is left out.                        *)
(***************************************************************************)
EXTENDS Orders

CONSTANTS
    Lengths,        \* lengths of the input
    LoopBounds      \* values of Options.MaxLoop; 0 is no bound

ASSUME ReorderAssumption == Lengths \subseteq Nat /\ LoopBounds \subseteq Nat

VARIABLES
    tool,           \* "one" (OnePointer) or "two" (TwoPointer)
    length,         \* the length given to New...ByLength
    opt,            \* Options: skipEmpty, maxLoop, first (ElementsAlwaysFirst)
    input, firstElements,   \* what SetOptions makes of them
    pointer1, pointer2,
    output, countLoop, done,
    given,          \* what Get returned after each HasNext, in order
    ended           \* HasNext has returned false

optionVars == <<tool, length, opt, input, firstElements>>
vars == <<optionVars, pointer1, pointer2, output, countLoop, done, given, ended>>

Positions(n) == [i \in 1 .. n |-> i - 1]

\* The positions left, in their order.
WithoutFirst(n, f) ==
    {q \in SetToSeqs(ToSet(Positions(n)) \ ToSet(f)) :
        \A i, j \in DOMAIN q : i < j => q[i] < q[j]}

\* Positions beyond the input can be asked to come first: the pivot's is 0
\* when there are no tickets.
FirstChoices(n) == UNION {SetToSeqs(S) : S \in {S \in SUBSET (0 .. n) : Cardinality(S) <= 2}}

Init ==
    /\ tool \in {"one", "two"}
    /\ length \in Lengths
    /\ \E f \in FirstChoices(length), m \in LoopBounds, e \in BOOLEAN :
          /\ opt = [first |-> f, maxLoop |-> m, skipEmpty |-> e]
          /\ firstElements = SelectSeq(f, LAMBDA p : Contains(Positions(length), p))
          /\ input \in WithoutFirst(length, f)
    /\ pointer1 = 0 /\ pointer2 = 0
    /\ output = <<>> /\ countLoop = 0 /\ done = FALSE
    /\ given = <<>> /\ ended = FALSE

-----------------------------------------------------------------------------
LoopsUsedUp == opt.maxLoop > 0 /\ countLoop >= opt.maxLoop

\* HasNext returns false.
NoNext ==
    /\ ~ended
    /\ done \/ (input = <<>> /\ opt.skipEmpty) \/ (input # <<>> /\ LoopsUsedUp)
    /\ done' = TRUE /\ ended' = TRUE
    /\ UNCHANGED <<optionVars, pointer1, pointer2, output, countLoop, given>>

\* With nothing to reorder there is one order: the first elements alone.
NextEmpty ==
    /\ ~done /\ input = <<>> /\ ~opt.skipEmpty
    /\ done' = TRUE
    /\ given' = Append(given, firstElements \o output)
    /\ UNCHANGED <<optionVars, pointer1, pointer2, output, countLoop, ended>>

\* Mutant: the last element never comes first.
NextRotationShort ==
    /\ tool = "one"
    /\ ~done /\ input # <<>> /\ ~LoopsUsedUp
    /\ output' = SubSeq(input, pointer1 + 1, Len(input)) \o SubSeq(input, 1, pointer1)
    /\ pointer1' = pointer1 + 1
    /\ done' = (pointer1' >= Len(input) - 1)
    /\ countLoop' = countLoop + 1
    /\ given' = Append(given, firstElements \o output')
    /\ UNCHANGED <<optionVars, pointer2, ended>>

NextRotation ==
    /\ tool = "one"
    /\ ~done /\ input # <<>> /\ ~LoopsUsedUp
    /\ output' = SubSeq(input, pointer1 + 1, Len(input)) \o SubSeq(input, 1, pointer1)
    /\ pointer1' = pointer1 + 1
    /\ done' = (pointer1' >= Len(input))
    /\ countLoop' = countLoop + 1
    /\ given' = Append(given, firstElements \o output')
    /\ UNCHANGED <<optionVars, pointer2, ended>>

\* Mutant: the second pointer starts behind the first.
IncrementBehind(p) ==
    IF p[2] < Len(input) - 1 THEN <<p[1], p[2] + 1>> ELSE <<p[1] + 1, p[1] + 1>>

\* The closure incr of TwoPointer.HasNext.
Increment(p) == IF p[2] < Len(input) - 1 THEN <<p[1], p[2] + 1>> ELSE <<p[1] + 1, 0>>

\* Where the pointers stand when the next order is built.
Advanced ==
    LET p == IF pointer1 = 0 /\ pointer2 = 0 THEN <<0, 1>> ELSE <<pointer1, pointer2>>
    IN  IF p[1] = p[2] THEN Increment(p) ELSE p

FirstTwo(p) ==
    LET i == p[1] + 1
        j == p[2] + 1
    IN  <<input[i], input[j]>> \o Others(input, i, j)

NextPair ==
    /\ tool = "two"
    /\ ~done /\ input # <<>> /\ ~LoopsUsedUp
    /\ output' = CASE Advanced[1] >= Len(input) -> <<>>
                   [] Advanced[2] >= Len(input) -> <<input[Advanced[1] + 1]>>
                   [] OTHER -> FirstTwo(Advanced)
    /\ pointer1' = Increment(Advanced)[1] /\ pointer2' = Increment(Advanced)[2]
    /\ done' = (pointer1' >= Len(input) - 1 /\ pointer2' >= Len(input) - 1)
    /\ countLoop' = countLoop + 1
    /\ given' = Append(given, firstElements \o output')
    /\ UNCHANGED <<optionVars, ended>>

Finished == ended /\ UNCHANGED vars

Next == NoNext \/ NextEmpty \/ NextRotation \/ NextPair \/ Finished

Spec == Init /\ [][Next]_vars

-----------------------------------------------------------------------------
\* The k-th order this iterator is to give, and how many there are.
OrderAt(k) == firstElements \o (IF tool = "one" THEN Rotation(input, k) ELSE PairFirst(input, k))
OrderCount ==
    IF input = <<>> THEN (IF opt.skipEmpty THEN 0 ELSE 1)
    ELSE LET all == IF tool = "one" THEN RotationCount(input) ELSE PairCount(input)
         IN  IF opt.maxLoop > 0 /\ opt.maxLoop < all THEN opt.maxLoop ELSE all

\* The iterator gives the orders of the comments in onepointer.go:13-29 and
\* twopointer.go:13-32, in that order and nothing else, whichever elements come
\* first: the first order keeps the source order, which makes the oldest
\* requests first choice.
GivesTheOrders ==
    \A k \in 1 .. Len(given) : k <= OrderCount /\ given[k] = OrderAt(k - 1)

\* The iterator ends only when every order, or MaxLoop of them, was given.
EndsWithAllOrders == ended => Len(given) = OrderCount
=============================================================================
