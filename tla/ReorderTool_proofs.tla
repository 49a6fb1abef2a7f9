------------------------- MODULE ReorderTool_proofs -------------------------
(***************************************************************************)
(* Proofs that the reorder tool gives the orders of Orders, in their order *)
(* and all of them, for inputs of every length and every bound on the      *)
(* number of orders.  What makes it so for TwoPointer is that incr, and    *)
(* the step over equal pointers, count in base Len(input) - 1.             *)
(***************************************************************************)
EXTENDS ReorderTool, CommonLemmas

-----------------------------------------------------------------------------
(* The pointers of TwoPointer.                                             *)

\* The step over equal pointers.
Parted(p) == IF p[1] = p[2] THEN Increment(p) ELSE p

\* From the pointers of one pair, incr and the step over equal pointers lead to
\* those of the next; after the last pair both are at the last element.
LEMMA PairStep ==
    ASSUME NEW n \in Nat, n = Len(input), n >= 2, NEW k \in Nat, k < n * (n - 1)
    PROVE  LET p == PairAt(n, k)
               q == Increment(p)
           IN  /\ p[1] \in 0 .. n - 1 /\ p[2] \in 0 .. n - 1
               /\ q[1] \in Nat /\ q[2] \in Nat /\ ~(q[1] = 0 /\ q[2] = 0)
               /\ k + 1 = n * (n - 1) <=> q[1] >= n - 1 /\ q[2] >= n - 1
               /\ k + 1 < n * (n - 1) => Parted(q) = PairAt(n, k + 1)
  <1>1. PICK d \in Nat \ {0} : d = n - 1
    OBVIOUS
  <1>2. PICK i \in Nat, j \in 0 .. d - 1 : i = k \div d /\ j = k % d /\ k = d * i + j
    BY Division
  <1>3. /\ i \in 0 .. d
        /\ k + 1 = n * (n - 1) <=> i = d /\ j = d - 1
    <2>1. /\ k \div (n - 1) \in 0 .. n - 1
          /\ k + 1 = n * (n - 1) <=> k \div (n - 1) = n - 1 /\ k % (n - 1) = n - 2
      BY QuotientBound
    <2>2. k \div (n - 1) = i /\ k % (n - 1) = j /\ n - 2 = d - 1
      BY <1>1, <1>2
    <2>3. QED
      BY <1>1, <2>1, <2>2
  <1>4. PairAt(n, k) = <<i, IF j < i THEN j ELSE j + 1>>
    BY <1>1, <1>2 DEF PairAt
  <1>5. /\ j < d - 1 => PairAt(n, k + 1) = <<i, IF j + 1 < i THEN j + 1 ELSE j + 2>>
        /\ j = d - 1 => PairAt(n, k + 1) = <<i + 1, IF 0 < i + 1 THEN 0 ELSE 1>>
    <2>1. PICK a, b : a = (k + 1) \div d /\ b = (k + 1) % d
      OBVIOUS
    <2>2. PairAt(n, k + 1) = <<a, IF b < a THEN b ELSE b + 1>>
      BY <1>1, <2>1 DEF PairAt
    <2>3. /\ j < d - 1 => a = i /\ b = j + 1
          /\ j = d - 1 => a = i + 1 /\ b = 0
      BY <1>2, <2>1, DivisionNext
    <2>4. (j + 1) + 1 = j + 2
      OBVIOUS
    <2>5. QED
      BY <2>2, <2>3, <2>4
  <1>6. CASE j < i /\ j + 1 < d
    BY <1>1, <1>3, <1>4, <1>5, <1>6 DEF Increment, Parted
  <1>7. CASE j < i /\ j + 1 = d
    BY <1>1, <1>3, <1>4, <1>5, <1>7 DEF Increment, Parted
  <1>8. CASE j >= i /\ j + 1 < d
    <2>1. PairAt(n, k) = <<i, j + 1>> /\ PairAt(n, k + 1) = <<i, j + 2>>
      BY <1>2, <1>4, <1>5, <1>8
    <2>2. Increment(<<i, j + 1>>) = <<i, j + 2>>
      BY <1>1, <1>8 DEF Increment
    <2>3. Parted(<<i, j + 2>>) = <<i, j + 2>>
      BY <1>8 DEF Parted
    <2>4. ~(k + 1 = n * (n - 1)) /\ i < n - 1
      BY <1>1, <1>3, <1>8
    <2>5. QED
      BY <1>1, <1>3, <1>8, <2>1, <2>2, <2>3, <2>4
  <1>9. CASE j >= i /\ j + 1 = d
    BY <1>1, <1>3, <1>4, <1>5, <1>9 DEF Increment, Parted
  <1>10. QED
    BY <1>2, <1>6, <1>7, <1>8, <1>9

-----------------------------------------------------------------------------
(* The inductive invariant.                                                *)

All == IF tool = "one" THEN RotationCount(input) ELSE PairCount(input)

Shape ==
    /\ tool \in {"one", "two"} /\ input \in Seq(Nat)
    /\ opt.maxLoop \in Nat /\ opt.skipEmpty \in BOOLEAN
    /\ pointer1 \in Nat /\ pointer2 \in Nat /\ countLoop \in Nat
    /\ done \in BOOLEAN /\ ended \in BOOLEAN

\* What was given so far are the first orders, each counted.
GivenInv ==
    /\ given \in Seq(ToSet(given))
    /\ \A k \in 1 .. Len(given) : given[k] = OrderAt(k - 1)
    /\ Len(given) <= OrderCount
    /\ input # <<>> => countLoop = Len(given)
    /\ input = <<>> => output = <<>> /\ (done \/ given = <<>>)

\* Until the iterator is done, the pointers are where the next order is.
PointerInv ==
    input # <<>> /\ ~done =>
        /\ countLoop < All
        /\ tool = "one" => pointer1 = countLoop
        /\ tool = "two" /\ Len(input) = 1 => pointer1 = 0 /\ pointer2 = 0
        /\ tool = "two" /\ Len(input) > 1 => Advanced = PairAt(Len(input), countLoop)

\* It is done when all orders, or as many as it may give, were given.
DoneInv ==
    /\ done => Len(given) = OrderCount
    /\ ended => done

IInv == Shape /\ GivenInv /\ PointerInv /\ DoneInv

\* There are as many orders as the bound leaves of them.
LEMMA CountOfOrders ==
    ASSUME Shape
    PROVE  /\ All \in Nat /\ OrderCount \in Nat
           /\ input = <<>> => OrderCount = IF opt.skipEmpty THEN 0 ELSE 1
           /\ input # <<>> =>
                /\ OrderCount <= All
                /\ OrderCount < All => OrderCount = opt.maxLoop /\ opt.maxLoop > 0
                /\ opt.maxLoop > 0 => OrderCount <= opt.maxLoop
  <1>1. Len(input) \in Nat
    BY LenProperties DEF Shape
  <1>2. All \in Nat
    <2>1. Len(input) >= 2 => Len(input) * (Len(input) - 1) \in Nat
      BY <1>1
    <2>2. QED
      BY <1>1, <2>1 DEF All, RotationCount, PairCount
  <1>3. input # <<>> =>
            OrderCount = IF opt.maxLoop > 0 /\ opt.maxLoop < All THEN opt.maxLoop ELSE All
    BY DEF OrderCount, All
  <1>4. input = <<>> => OrderCount = IF opt.skipEmpty THEN 0 ELSE 1
    BY DEF OrderCount
  <1>5. opt.maxLoop \in Nat
    BY DEF Shape
  <1>6. HIDE DEF All
  <1>7. QED
    BY <1>2, <1>3, <1>4, <1>5

\* Nothing was given yet, and the pointers are at the first order.
LEMMA InitInv == Init => IInv
  <1> SUFFICES ASSUME Init PROVE IInv
    OBVIOUS
  <1>1. Shape
    <2>1. length \in Nat /\ opt.maxLoop \in Nat /\ opt.skipEmpty \in BOOLEAN
      BY ReorderAssumption DEF Init
    <2>2. PICK f : input \in WithoutFirst(length, f)
      BY DEF Init
    <2>3. ToSet(Positions(length)) \subseteq Nat
      BY <2>1 DEF Positions, ToSet
    <2>4. IsFiniteSet(ToSet(Positions(length)))
      <3>1. Positions(length) \in Seq(Nat)
        BY <2>1 DEF Positions
      <3>2. QED
        BY <3>1, ToSetType
    <2>5. PICK S : S = ToSet(Positions(length)) \ ToSet(f)
      OBVIOUS
    <2>6. S \subseteq Nat /\ IsFiniteSet(S) /\ input \in SetToSeqs(S)
      BY <2>2, <2>3, <2>4, <2>5, FS_Difference DEF WithoutFirst
    <2>7. input \in Seq(S)
      BY <2>6, SetToSeqsProperties
    <2>8. input \in Seq(Nat)
      BY <2>6, <2>7, SeqMonotonic
    <2>9. QED
      BY <2>1, <2>8 DEF Init, Shape
  <1>2. /\ given = <<>> /\ Len(given) = 0 /\ output = <<>> /\ countLoop = 0 /\ ~done /\ ~ended
        /\ pointer1 = 0 /\ pointer2 = 0
    BY DEF Init
  <1>3. GivenInv
    BY <1>1, <1>2, CountOfOrders, ToSetEmpty DEF GivenInv
  <1>4. DoneInv
    BY <1>2 DEF DoneInv
  <1>5. PointerInv
    <2>1. SUFFICES ASSUME input # <<>>
                   PROVE  /\ countLoop < All
                          /\ tool = "two" /\ Len(input) > 1 =>
                                Advanced = PairAt(Len(input), countLoop)
      BY <1>2 DEF PointerInv
    <2>2. Len(input) \in Nat \ {0}
      BY <1>1, <2>1, EmptySeq, LenProperties DEF Shape
    <2>3. 0 < All
      <3>1. Len(input) >= 2 => Len(input) * (Len(input) - 1) > 0
        BY <2>2
      <3>2. QED
        BY <2>2, <3>1 DEF All, RotationCount, PairCount
    <2>4. ASSUME Len(input) > 1 PROVE PairAt(Len(input), 0) = <<0, 1>>
      <3>1. PICK d \in Nat \ {0} : d = Len(input) - 1
        BY <2>2, <2>4
      <3>2. 0 \div d = 0 /\ 0 % d = 0
        <4>1. PICK a \in Nat, b \in 0 .. d - 1 : a = 0 \div d /\ b = 0 % d /\ 0 = d * a + b
          BY Division
        <4>2. 0 \in 0 .. d - 1 /\ d * 0 + 0 = d * a + b
          BY <4>1
        <4>3. QED
          BY <4>1, <4>2, DivisionUnique
      <3>3. QED
        BY <3>1, <3>2 DEF PairAt
    <2>5. Advanced = <<0, 1>>
      BY <1>2 DEF Advanced
    <2>6. QED
      BY <1>2, <2>3, <2>4, <2>5
  <1>6. QED
    BY <1>1, <1>3, <1>4, <1>5 DEF IInv

\* Giving the next order keeps the list of those given.
LEMMA GiveNext ==
    ASSUME Shape, GivenInv, UNCHANGED optionVars,
           given' = Append(given, OrderAt(Len(given)))
    PROVE  /\ given' \in Seq(ToSet(given'))
           /\ Len(given) \in Nat /\ Len(given') = Len(given) + 1
           /\ \A k \in 1 .. Len(given') : given'[k] = OrderAt(k - 1)'
  <1>1. PICK g, h, x : g = given /\ h = given' /\ x = OrderAt(Len(given))
    OBVIOUS
  <1>2. g \in Seq(ToSet(g)) /\ h = Append(g, x)
    BY <1>1 DEF GivenInv
  <1>3. /\ h \in Seq(ToSet(h)) /\ Len(g) \in Nat /\ Len(h) = Len(g) + 1
        /\ \A i \in 1 .. Len(g) : h[i] = g[i]
        /\ h[Len(g) + 1] = x
    BY <1>2, AppendAny
  <1>4. \A k : OrderAt(k)' = OrderAt(k)
    BY DEF OrderAt, optionVars
  <1>5. \A k \in 1 .. Len(g) : h[k] = OrderAt(k - 1)
    BY <1>1, <1>3 DEF GivenInv
  <1>6. h[Len(g) + 1] = OrderAt(Len(g) + 1 - 1)
    BY <1>1, <1>3
  <1>7. \A k \in 1 .. Len(h) : k \in 1 .. Len(g) \/ k = Len(g) + 1
    BY <1>3
  <1>8. QED
    BY <1>1, <1>3, <1>4, <1>5, <1>6, <1>7

\* The options, and the number of orders that comes of them, never change.
LEMMA OptionsKept ==
    ASSUME [Next]_vars
    PROVE  /\ UNCHANGED optionVars
           /\ All' = All /\ OrderCount' = OrderCount /\ \A k : OrderAt(k)' = OrderAt(k)
  <1>1. UNCHANGED optionVars
    BY DEF Next, NoNext, NextEmpty, NextRotation, NextPair, Finished, vars
  <1>2. QED
    BY <1>1 DEF optionVars, All, OrderCount, OrderAt

\* OnePointer: the pointer counts the rotations.
LEMMA RotationStep ==
    ASSUME IInv, NextRotation, UNCHANGED optionVars, All' = All
    PROVE  /\ Shape'
           /\ given' = Append(given, OrderAt(Len(given)))
           /\ countLoop' = countLoop + 1 /\ input # <<>> /\ ~done
           /\ done' <=> countLoop + 1 = All
           /\ PointerInv'
  <1>1. /\ tool = "one" /\ ~done /\ input # <<>>
        /\ pointer1 = countLoop /\ countLoop = Len(given) /\ countLoop < All
    BY DEF IInv, NextRotation, PointerInv, GivenInv
  <1>2. Len(input) \in Nat /\ All = Len(input) /\ countLoop \in Nat
    BY <1>1, LenProperties DEF IInv, Shape, All, RotationCount
  <1>3. /\ output' = Rotation(input, countLoop)
        /\ pointer1' = countLoop + 1 /\ countLoop' = countLoop + 1
        /\ done' = (countLoop + 1 >= Len(input))
        /\ given' = Append(given, firstElements \o output')
        /\ pointer2' = pointer2 /\ ended' = ended
    BY <1>1 DEF NextRotation, Rotation
  <1>4. given' = Append(given, OrderAt(Len(given)))
    BY <1>1, <1>3 DEF OrderAt
  <1>5. Shape'
    BY <1>2, <1>3 DEF IInv, Shape, optionVars
  <1>6. done' <=> countLoop + 1 = All
    <2>1. PICK n \in Nat, c \in Nat : n = Len(input) /\ c = countLoop /\ c < n /\ All = n
      BY <1>1, <1>2
    <2>2. c + 1 >= n <=> c + 1 = n
      BY <2>1
    <2>3. done' <=> c + 1 >= n
      BY <1>3, <2>1, Zenon
    <2>4. QED
      BY <2>1, <2>2, <2>3, Zenon
  <1>7. ~done' => countLoop' < All' /\ pointer1' = countLoop'
    BY <1>1, <1>2, <1>3, <1>6
  <1>8. tool' = "one"
    BY <1>1 DEF optionVars
  <1>9. PointerInv'
    BY <1>7, <1>8 DEF PointerInv
  <1>10. QED
    BY <1>1, <1>3, <1>4, <1>5, <1>6, <1>9

\* TwoPointer: the pointers, moved on, are those of the pair whose turn it is.
LEMMA PairFirstStep ==
    ASSUME IInv, NextPair, UNCHANGED optionVars, All' = All
    PROVE  /\ Shape'
           /\ given' = Append(given, OrderAt(Len(given)))
           /\ countLoop' = countLoop + 1 /\ input # <<>> /\ ~done
           /\ done' <=> countLoop + 1 = All
           /\ PointerInv'
  <1>1. /\ tool = "two" /\ ~done /\ input # <<>>
        /\ countLoop = Len(given) /\ countLoop < All /\ countLoop \in Nat
        /\ Len(input) = 1 => pointer1 = 0 /\ pointer2 = 0
        /\ Len(input) > 1 => Advanced = PairAt(Len(input), countLoop)
    BY DEF IInv, NextPair, PointerInv, GivenInv, Shape
  <1>2. Len(input) \in Nat \ {0} /\ input \in Seq(Nat) /\ All = PairCount(input)
    BY <1>1, EmptySeq, LenProperties DEF IInv, Shape, All
  <1>3. /\ output' = CASE Advanced[1] >= Len(input) -> <<>>
                       [] Advanced[2] >= Len(input) -> <<input[Advanced[1] + 1]>>
                       [] OTHER -> FirstTwo(Advanced)
        /\ pointer1' = Increment(Advanced)[1] /\ pointer2' = Increment(Advanced)[2]
        /\ done' = (pointer1' >= Len(input) - 1 /\ pointer2' >= Len(input) - 1)
        /\ countLoop' = countLoop + 1
        /\ given' = Append(given, firstElements \o output')
        /\ ended' = ended
    BY DEF NextPair
  <1>4. CASE Len(input) = 1
    <2>1. Advanced = <<0, 1>> /\ Increment(<<0, 1>>) = <<1, 0>>
      BY <1>1, <1>4 DEF Advanced, Increment
    <2>2. output' = <<input[1]>> /\ pointer1' = 1 /\ pointer2' = 0 /\ done'
      <3>1. Advanced[1] = 0 /\ Advanced[2] = 1
            /\ Increment(Advanced)[1] = 1 /\ Increment(Advanced)[2] = 0
        BY <2>1
      <3>2. output' = <<input[0 + 1]>>
        BY <1>3, <1>4, <3>1
      <3>3. pointer1' = 1 /\ pointer2' = 0
        BY <1>3, <3>1
      <3>4. pointer1' >= Len(input) - 1 /\ pointer2' >= Len(input) - 1
        BY <1>4, <3>3
      <3>5. done'
        BY <1>3, <3>4, Zenon
      <3>6. QED
        BY <3>2, <3>3, <3>5
    <2>3. All = 1 /\ countLoop = 0
      BY <1>1, <1>2, <1>4 DEF PairCount
    <2>4. output' = PairFirst(input, countLoop)
      BY <1>2, <1>4, <2>2 DEF PairFirst
    <2>5. given' = Append(given, OrderAt(Len(given)))
      BY <1>1, <1>3, <2>4 DEF OrderAt
    <2>6. Shape'
      BY <1>3, <2>2, <2>3 DEF IInv, Shape, optionVars
    <2>7. PointerInv'
      BY <2>2 DEF PointerInv
    <2>8. QED
      BY <1>1, <1>3, <2>2, <2>3, <2>5, <2>6, <2>7
  <1>5. CASE Len(input) > 1
    <2>0. PICK n \in Nat : n = Len(input) /\ n >= 2
      BY <1>2, <1>5
    <2>1. PICK p : n \in Nat /\ n = Len(input) /\ n >= 2 /\ p = PairAt(n, countLoop)
      BY <2>0
    <2>2. Advanced = p /\ All = n * (n - 1) /\ countLoop < n * (n - 1)
      BY <1>1, <1>2, <1>5, <2>1 DEF PairCount
    <2>3. PICK q : q = Increment(p)
      OBVIOUS
    <2>4. /\ p[1] \in 0 .. n - 1 /\ p[2] \in 0 .. n - 1
          /\ q[1] \in Nat /\ q[2] \in Nat /\ ~(q[1] = 0 /\ q[2] = 0)
          /\ countLoop + 1 = n * (n - 1) <=> q[1] >= n - 1 /\ q[2] >= n - 1
          /\ countLoop + 1 < n * (n - 1) => Parted(q) = PairAt(n, countLoop + 1)
      BY <1>1, <2>1, <2>2, <2>3, PairStep
    <2>5. pointer1' = q[1] /\ pointer2' = q[2] /\ (done' <=> countLoop + 1 = n * (n - 1))
      BY <1>3, <2>1, <2>2, <2>3, <2>4
    <2>6. output' = FirstTwo(p)
      BY <1>3, <2>1, <2>2, <2>4
    <2>7. FirstTwo(p) = PairFirst(input, countLoop)
      BY <2>1 DEF FirstTwo, PairFirst
    <2>8. given' = Append(given, OrderAt(Len(given)))
      BY <1>1, <1>3, <2>6, <2>7 DEF OrderAt
    <2>9. Shape'
      BY <1>1, <1>3, <2>4, <2>5 DEF IInv, Shape, optionVars
    <2>10. ASSUME ~done' PROVE countLoop' < All' /\ Advanced' = PairAt(Len(input'), countLoop')
      <3>1. countLoop + 1 < n * (n - 1)
        <4>1. PICK m \in Nat : m = n * (n - 1)
          BY <2>1
        <4>2. QED
          BY <1>1, <2>2, <2>5, <2>10, <4>1
      <3>2. q = <<q[1], q[2]>>
        BY <2>3 DEF Increment
      <3>3. Advanced' = Parted(q)
        <4>1. input' = input
          BY DEF optionVars
        <4>2. Parted(q) = IF q[1] = q[2] THEN Increment(q) ELSE q
          BY DEF Parted
        <4>3. Increment(q)' = Increment(q)
          BY <4>1, <2>3 DEF Increment
        <4>4. Advanced' = IF q[1] = q[2] THEN Increment(q) ELSE q
          BY <2>4, <2>5, <3>2, <4>1 DEF Advanced, Increment
        <4>5. QED
          BY <4>2, <4>4
      <3>4. QED
        BY <1>3, <2>1, <2>2, <2>4, <3>1, <3>3 DEF optionVars
    <2>11. PointerInv'
      <3>1. tool' = "two" /\ Len(input)' = Len(input') /\ input' = input
        BY <1>1 DEF optionVars
      <3>2. Len(input)' # 1
        <4>1. PICK m : m = Len(input) /\ m = Len(input)'
          BY <3>1
        <4>2. m > 1
          BY <1>5, <4>1
        <4>3. QED
          BY <4>1, <4>2
      <3>3. QED
        BY <2>10, <3>1, <3>2 DEF PointerInv
    <2>12. QED
      BY <1>1, <1>3, <2>2, <2>5, <2>8, <2>9, <2>11
  <1>6. Len(input) = 1 \/ Len(input) > 1
    <2>1. PICK n : n = Len(input)
      OBVIOUS
    <2>2. n \in Nat \ {0}
      BY <1>2, <2>1
    <2>3. QED
      BY <2>1, <2>2
  <1>7. QED
    BY <1>4, <1>5, <1>6

\* A step that gives an order leaves what was given and how many are left right.
LEMMA OrderGiven ==
    ASSUME IInv, [Next]_vars, ~LoopsUsedUp, input # <<>>, ~done,
           given' = Append(given, OrderAt(Len(given))),
           countLoop' = countLoop + 1, done' <=> countLoop + 1 = All, ended' = ended
    PROVE  GivenInv' /\ DoneInv'
  <1>1. /\ UNCHANGED optionVars /\ input' = input
        /\ All' = All /\ OrderCount' = OrderCount
    BY OptionsKept DEF optionVars
  <1>2. Len(given) \in Nat /\ Len(given') = Len(given) + 1 /\ countLoop = Len(given)
    BY <1>1, GiveNext DEF IInv, GivenInv
  <1>3. countLoop < All /\ countLoop <= OrderCount
    BY <1>2 DEF IInv, PointerInv, GivenInv
  <1>4. PICK n \in Nat, a \in Nat, m \in Nat, c \in Nat :
            n = OrderCount /\ a = All /\ m = opt.maxLoop /\ c = countLoop
    BY CountOfOrders DEF IInv, Shape
  <1>5. /\ c < a /\ c <= n /\ n <= a
        /\ n < a => n = m /\ m > 0
        /\ ~(m > 0 /\ c >= m)
    BY <1>3, <1>4, CountOfOrders DEF IInv, LoopsUsedUp
  <1>6. c + 1 <= n /\ (c + 1 = a => n = a)
    BY <1>5
  <1>7. Len(given') <= OrderCount'
    BY <1>1, <1>2, <1>4, <1>6
  <1>8. GivenInv'
    BY <1>1, <1>2, <1>7, GiveNext DEF IInv, GivenInv
  <1>9. done' => Len(given') = OrderCount'
    BY <1>1, <1>2, <1>4, <1>6
  <1>10. ~ended
    BY DEF IInv, DoneInv
  <1>11. QED
    BY <1>8, <1>9, <1>10 DEF DoneInv

\* Every step keeps the invariant.
LEMMA NextInv == IInv /\ [Next]_vars => IInv'
  <1> SUFFICES ASSUME IInv, [Next]_vars PROVE IInv'
    OBVIOUS
  <1>1. /\ UNCHANGED optionVars /\ All' = All /\ OrderCount' = OrderCount
        /\ \A k : OrderAt(k)' = OrderAt(k)
    BY OptionsKept
  <1>2. CASE NoNext
    <2>1. /\ done' = TRUE /\ ended' = TRUE
          /\ UNCHANGED <<optionVars, pointer1, pointer2, output, countLoop, given>>
          /\ done \/ (input = <<>> /\ opt.skipEmpty) \/ (input # <<>> /\ LoopsUsedUp)
      BY <1>2 DEF NoNext
    <2>2. Shape'
      BY <2>1 DEF IInv, Shape, optionVars
    <2>3. PointerInv'
      BY <2>1 DEF PointerInv
    <2>4. PICK n \in Nat, g \in Nat, m \in Nat :
              n = OrderCount /\ g = Len(given) /\ m = opt.maxLoop /\ g <= n
      BY CountOfOrders DEF IInv, Shape, GivenInv
    <2>5. Len(given) = OrderCount
      <3>1. CASE done
        BY <3>1 DEF IInv, DoneInv
      <3>2. CASE input = <<>> /\ opt.skipEmpty
        BY <2>4, <3>2, CountOfOrders DEF IInv
      <3>3. CASE input # <<>> /\ LoopsUsedUp
        <4>1. m > 0 /\ g >= m /\ n <= m
          BY <2>4, <3>3, CountOfOrders DEF IInv, GivenInv, LoopsUsedUp
        <4>2. QED
          BY <2>4, <4>1
      <3>4. QED
        BY <2>1, <3>1, <3>2, <3>3
    <2>6. Len(given)' = OrderCount'
      BY <1>1, <2>1, <2>5
    <2>7. GivenInv'
      BY <1>1, <2>1 DEF IInv, GivenInv, optionVars
    <2>8. DoneInv'
      BY <2>1, <2>6 DEF DoneInv
    <2>9. QED
      BY <2>2, <2>3, <2>7, <2>8 DEF IInv
  <1>3. CASE NextEmpty
    <2>1. /\ ~done /\ input = <<>> /\ ~opt.skipEmpty
          /\ done' = TRUE
          /\ given' = Append(given, firstElements \o output)
          /\ UNCHANGED <<optionVars, pointer1, pointer2, output, countLoop, ended>>
      BY <1>3 DEF NextEmpty
    <2>2. given = <<>> /\ Len(given) = 0 /\ output = <<>>
      BY <2>1 DEF IInv, GivenInv
    <2>3. Rotation(input, 0) = <<>> /\ PairFirst(input, 0) = <<>>
      BY <2>1 DEF Rotation, PairFirst
    <2>4. OrderAt(0) = firstElements \o output
      BY <2>2, <2>3 DEF OrderAt
    <2>5. given' = Append(given, OrderAt(Len(given)))
      BY <2>1, <2>2, <2>4
    <2>6. OrderCount = 1
      BY <2>1, CountOfOrders DEF IInv
    <2>7. /\ given' \in Seq(ToSet(given')) /\ Len(given') = 1
          /\ \A k \in 1 .. Len(given') : given'[k] = OrderAt(k - 1)'
      BY <1>1, <2>2, <2>5, GiveNext DEF IInv
    <2>8. GivenInv'
      BY <1>1, <2>1, <2>2, <2>6, <2>7 DEF GivenInv, optionVars
    <2>9. Shape'
      BY <2>1 DEF IInv, Shape, optionVars
    <2>10. PointerInv' /\ DoneInv'
      BY <1>1, <2>1, <2>6, <2>7 DEF PointerInv, DoneInv
    <2>11. QED
      BY <2>8, <2>9, <2>10 DEF IInv
  <1>4. CASE NextRotation
    <2>1. /\ Shape' /\ PointerInv' /\ input # <<>> /\ ~done
          /\ given' = Append(given, OrderAt(Len(given)))
          /\ countLoop' = countLoop + 1 /\ (done' <=> countLoop + 1 = All)
      BY <1>1, <1>4, RotationStep
    <2>2. ~LoopsUsedUp /\ ended' = ended
      BY <1>4 DEF NextRotation
    <2>3. GivenInv' /\ DoneInv'
      BY <2>1, <2>2, OrderGiven
    <2>4. QED
      BY <2>1, <2>3 DEF IInv
  <1>5. CASE NextPair
    <2>1. /\ Shape' /\ PointerInv' /\ input # <<>> /\ ~done
          /\ given' = Append(given, OrderAt(Len(given)))
          /\ countLoop' = countLoop + 1 /\ (done' <=> countLoop + 1 = All)
      BY <1>1, <1>5, PairFirstStep
    <2>2. ~LoopsUsedUp /\ ended' = ended
      BY <1>5 DEF NextPair
    <2>3. GivenInv' /\ DoneInv'
      BY <2>1, <2>2, OrderGiven
    <2>4. QED
      BY <2>1, <2>3 DEF IInv
  <1>6. CASE UNCHANGED vars
    <2>1. Shape'
      BY <1>6 DEF IInv, Shape, vars, optionVars
    <2>2. GivenInv' /\ DoneInv'
      BY <1>1, <1>6 DEF IInv, GivenInv, DoneInv, vars, optionVars
    <2>3. PointerInv'
      BY <1>1, <1>6 DEF IInv, PointerInv, Advanced, Increment, vars, optionVars
    <2>4. QED
      BY <2>1, <2>2, <2>3 DEF IInv
  <1>7. QED
    BY <1>2, <1>3, <1>4, <1>5, <1>6 DEF Next, Finished

\* The pointers are always where the next order is.
THEOREM Invariance == Spec => []IInv
  BY InitInv, NextInv, PTL DEF Spec

\* The iterator gives the documented orders, in their order and nothing else, for
\* every length, bound and choice of first elements (onepointer.go, twopointer.go).
THEOREM OrdersGiven == Spec => []GivesTheOrders
  <1>1. IInv => GivesTheOrders
    <2> SUFFICES ASSUME IInv PROVE GivesTheOrders
      OBVIOUS
    <2>1. Len(given) \in Nat /\ OrderCount \in Nat /\ Len(given) <= OrderCount
      BY CountOfOrders, LenProperties DEF IInv, GivenInv
    <2>2. \A k \in 1 .. Len(given) : k <= OrderCount
      BY <2>1
    <2>3. QED
      BY <2>2 DEF IInv, GivenInv, GivesTheOrders
  <1>2. QED
    BY <1>1, Invariance, PTL

\* It ends when all of them, or as many as MaxLoop allows, were given.
THEOREM AllOrdersGiven == Spec => []EndsWithAllOrders
  <1>1. IInv => EndsWithAllOrders
    BY DEF IInv, DoneInv, EndsWithAllOrders
  <1>2. QED
    BY <1>1, Invariance, PTL
=============================================================================
