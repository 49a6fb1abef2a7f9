----------------------- MODULE PartyCombination_proofs -----------------------
(***************************************************************************)
(* Proofs that the party finder's answer is a legal team without blocked   *)
(* players, and the largest that the orders tried fill, provided that the  *)
(* slices it keeps do not overwrite each other: either one order is tried, *)
(* or the array of the team to start from has no room.  The run            *)
(* party_overfull shows what happens otherwise.                            *)
(***************************************************************************)
EXTENDS PartyCombination, CommonLemmas

-----------------------------------------------------------------------------
(* Slices.                                                                 *)

\* What a slice has when b is the array it may share.
Within(b, s) == IF s.shared THEN SubSeq(b, 1, s.len) ELSE s.own

\* A slice whose places were all written.
Written(b, s) ==
    IF s.shared THEN s.len <= Len(b) /\ \A i \in 1 .. s.len : b[i] \in Tickets
    ELSE Len(s.own) = s.len

Arrays == Seq(Tickets \cup {None})

\* The contents of a slice that was written are tickets.
LEMMA SliceContents ==
    ASSUME NEW b \in Arrays, NEW s \in Slice, Written(b, s)
    PROVE  /\ Within(b, s) \in Seq(Tickets) /\ Len(Within(b, s)) = s.len
           /\ s.len \in Nat /\ DOMAIN Within(b, s) = 1 .. s.len
           /\ s.shared => \A i \in 1 .. s.len : Within(b, s)[i] = b[i]
  <1>1. s.len \in Nat /\ s.own \in Seq(Tickets) /\ s.shared \in BOOLEAN
    BY DEF Slice
  <1>2. CASE s.shared
    <2>1. PICK n \in Nat : n = s.len /\ \A i \in 1 .. n : b[i] \in Tickets
      BY <1>1, <1>2 DEF Written
    <2>2. /\ SubSeq(b, 1, n) \in Seq(Tickets)
          /\ Len(SubSeq(b, 1, n)) = IF 1 <= n THEN n - 1 + 1 ELSE 0
          /\ \A i \in 1 .. n - 1 + 1 : SubSeq(b, 1, n)[i] = b[1 + i - 1]
      BY <2>1, SubSeqProperties
    <2>3. n - 1 + 1 = n /\ \A i \in 1 .. n : 1 + i - 1 = i
      OBVIOUS
    <2>4. Len(SubSeq(b, 1, n)) = n
      BY <2>2, <2>3
    <2>5. \A i \in 1 .. n : SubSeq(b, 1, n)[i] = b[i]
      BY <2>2, <2>3
    <2>6. QED
      BY <1>2, <2>1, <2>2, <2>4, <2>5, LenProperties DEF Within
  <1>3. CASE ~s.shared
    BY <1>1, <1>3, LenProperties DEF Written, Within
  <1>4. QED
    BY <1>1, <1>2, <1>3

\* Writing a ticket into the array changes only slices that reach that far.
LEMMA WriteElsewhere ==
    ASSUME NEW b \in Arrays, NEW s \in Slice, Written(b, s),
           NEW j \in DOMAIN b, NEW t \in Tickets
    PROVE  LET c == [b EXCEPT ![j] = t]
           IN  /\ c \in Arrays /\ Len(c) = Len(b)
               /\ \A i \in DOMAIN b : c[i] = IF i = j THEN t ELSE b[i]
               /\ Written(c, s)
               /\ j > s.len \/ ~s.shared => Within(c, s) = Within(b, s)
  <1>a. PICK c : c = [b EXCEPT ![j] = t]
    OBVIOUS
  <1>b. j \in 1 .. Len(b) /\ DOMAIN b = 1 .. Len(b)
    BY LenProperties DEF Arrays
  <1>1. /\ c \in Arrays /\ Len(c) = Len(b) /\ Len(b) \in Nat
        /\ \A i \in 1 .. Len(b) : c[i] = IF i = j THEN t ELSE b[i]
    BY <1>a, <1>b, ExceptSeq, LenProperties DEF Arrays
  <1>2. s.len \in Nat
    BY DEF Slice
  <1>3. Written(c, s)
    <2>1. CASE s.shared
      <3>1. \A i \in 1 .. s.len : i \in 1 .. Len(b) /\ b[i] \in Tickets
        BY <1>1, <1>2, <2>1 DEF Written
      <3>2. QED
        BY <1>1, <2>1, <3>1 DEF Written
    <2>2. CASE ~s.shared
      BY <2>2 DEF Written
    <2>3. QED
      BY <2>1, <2>2
  <1>4. CASE ~s.shared
    BY <1>a, <1>b, <1>1, <1>3, <1>4 DEF Within
  <1>5. CASE s.shared
    <2>1. /\ Within(b, s) \in Seq(Tickets) /\ DOMAIN Within(b, s) = 1 .. s.len
          /\ \A i \in 1 .. s.len : Within(b, s)[i] = b[i]
      BY <1>5, SliceContents
    <2>2. /\ Within(c, s) \in Seq(Tickets) /\ DOMAIN Within(c, s) = 1 .. s.len
          /\ \A i \in 1 .. s.len : Within(c, s)[i] = c[i]
      BY <1>1, <1>3, <1>5, SliceContents
    <2>3. ASSUME j > s.len PROVE \A i \in 1 .. s.len : c[i] = b[i]
      <3>1. \A i \in 1 .. s.len : i \in 1 .. Len(b) /\ i # j
        BY <1>1, <1>2, <1>5, <2>3 DEF Written
      <3>2. QED
        BY <1>1, <3>1
    <2>4. j > s.len => Within(c, s) = Within(b, s)
      <3>1. PICK x \in Seq(Tickets), y \in Seq(Tickets) : x = Within(b, s) /\ y = Within(c, s)
        BY <2>1, <2>2
      <3>2. x = [i \in DOMAIN x |-> x[i]] /\ y = [i \in DOMAIN y |-> y[i]]
        OBVIOUS
      <3>3. DOMAIN x = DOMAIN y /\ (j > s.len => \A i \in DOMAIN x : x[i] = y[i])
        BY <2>1, <2>2, <2>3, <3>1
      <3>4. QED
        BY <3>1, <3>2, <3>3
    <2>5. QED
      BY <1>a, <1>b, <1>1, <1>3, <1>5, <2>4
  <1>6. QED
    BY <1>4, <1>5

\* append: in the shared array while that has room, in an array of its own then.
LEMMA SliceGrows ==
    ASSUME NEW b \in Arrays, NEW s \in Slice, Written(b, s), NEW t \in Tickets
    PROVE  /\ s.shared /\ s.len < Len(b) =>
                LET c == [b EXCEPT ![s.len + 1] = t]
                    r == [shared |-> TRUE, len |-> s.len + 1, own |-> <<>>]
                IN  /\ s.len + 1 \in 1 .. Len(b) /\ r \in Slice /\ r.len = s.len + 1 /\ Written(c, r)
                    /\ Within(c, r) = Append(Within(b, s), t)
           /\ LET r == [shared |-> FALSE, len |-> s.len + 1, own |-> Append(Within(b, s), t)]
              IN  r \in Slice /\ Written(b, r) /\ Within(b, r) = Append(Within(b, s), t)
  <1>1. /\ s.len \in Nat /\ s.own \in Seq(Tickets) /\ s.shared \in BOOLEAN /\ Len(b) \in Nat
        /\ s = [shared |-> s.shared, len |-> s.len, own |-> s.own]
    BY LenProperties DEF Slice, Arrays
  <1>2. PICK x \in Seq(Tickets) :
            /\ x = Within(b, s) /\ Len(x) = s.len
            /\ s.shared => \A i \in 1 .. s.len : x[i] = b[i]
    BY SliceContents
  <1>3. /\ Append(x, t) \in Seq(Tickets) /\ Len(Append(x, t)) = s.len + 1
        /\ \A i \in 1 .. s.len : Append(x, t)[i] = x[i]
        /\ Append(x, t)[s.len + 1] = t
    BY <1>1, <1>2
  <1>4. ASSUME s.shared, s.len < Len(b)
        PROVE  LET c == [b EXCEPT ![s.len + 1] = t]
                   r == [shared |-> TRUE, len |-> s.len + 1, own |-> <<>>]
               IN  /\ s.len + 1 \in 1 .. Len(b) /\ r \in Slice /\ r.len = s.len + 1 /\ Written(c, r)
                   /\ Within(c, r) = Append(Within(b, s), t)
    <2>1. PICK j \in 1 .. Len(b) : j = s.len + 1
      BY <1>1, <1>4
    <2>2. PICK c : c = [b EXCEPT ![j] = t]
      OBVIOUS
    <2>3. /\ c \in Arrays /\ Len(c) = Len(b)
          /\ \A i \in 1 .. Len(b) : c[i] = IF i = j THEN t ELSE b[i]
      BY <2>2, ExceptSeq, LenProperties DEF Arrays
    <2>4. PICK r : r = [shared |-> TRUE, len |-> s.len + 1, own |-> <<>>]
      OBVIOUS
    <2>5. r = [shared |-> TRUE, len |-> j, own |-> <<>>] /\ r \in Slice
      BY <1>1, <2>1, <2>4, ToSetEmpty DEF Slice
    <2>6. \A i \in 1 .. j : /\ i \in 1 .. Len(b)
                            /\ i = j \/ i \in 1 .. s.len
      BY <1>1, <2>1
    <2>7. \A i \in 1 .. s.len : b[i] \in Tickets
      BY <1>4 DEF Written
    <2>8. Written(c, r)
      BY <2>1, <2>3, <2>5, <2>6, <2>7 DEF Written
    <2>9. /\ Within(c, r) \in Seq(Tickets) /\ Len(Within(c, r)) = j
          /\ \A i \in 1 .. j : Within(c, r)[i] = c[i]
      BY <2>3, <2>5, <2>8, SliceContents
    <2>10. \A i \in 1 .. j : Append(x, t)[i] = c[i]
      BY <1>2, <1>3, <1>4, <2>1, <2>3, <2>6
    <2>11. Within(c, r) = Append(x, t)
      <3>1. PICK y \in Seq(Tickets), z \in Seq(Tickets) : y = Within(c, r) /\ z = Append(x, t)
        BY <1>3, <2>9
      <3>2. Len(y) = Len(z) /\ \A i \in 1 .. Len(y) : y[i] = z[i]
        BY <1>3, <2>1, <2>9, <2>10, <3>1
      <3>3. QED
        BY <3>1, <3>2, SeqEqual
    <2>12. QED
      BY <1>2, <2>1, <2>2, <2>4, <2>5, <2>8, <2>11
  <1>5. LET r == [shared |-> FALSE, len |-> s.len + 1, own |-> Append(Within(b, s), t)]
        IN  r \in Slice /\ Written(b, r) /\ Within(b, r) = Append(Within(b, s), t)
    BY <1>1, <1>2, <1>3 DEF Slice, Written, Within
  <1>6. QED
    BY <1>4, <1>5

-----------------------------------------------------------------------------
(* Teams.                                                                  *)

\* A team has finitely many players, and with another ticket no more than that
\* ticket's besides.
LEMMA PlayersAppend ==
    ASSUME NEW f, \A u \in Tickets : f[u] \in Nat, NEW s \in Seq(Tickets), NEW t \in Tickets
    PROVE  /\ PlayersBy(f, s) \in Nat /\ PlayersBy(f, Append(s, t)) \in Nat
           /\ PlayersBy(f, Append(s, t)) <= PlayersBy(f, s) + f[t]
  <1>1. ASSUME NEW q \in Seq(Tickets)
        PROVE  IsFiniteSet(UNION {{i} \X (1 .. f[q[i]]) : i \in DOMAIN q})
    <2>1. Len(q) \in Nat /\ DOMAIN q = 1 .. Len(q) /\ \A i \in DOMAIN q : f[q[i]] \in Nat
      BY LenProperties
    <2>2. IsFiniteSet(DOMAIN q)
      BY <2>1, FS_Interval
    <2>3. DEFINE F == [i \in DOMAIN q |-> {i} \X (1 .. f[q[i]])]
                 T == {{i} \X (1 .. f[q[i]]) : i \in DOMAIN q}
    <2>4. F \in Surjection(DOMAIN q, T)
      BY DEF Surjection
    <2>5. IsFiniteSet(T)
      BY <2>2, <2>4, FS_Surjection
    <2>6. ASSUME NEW c \in T PROVE IsFiniteSet(c)
      <3>1. PICK i \in DOMAIN q : c = {i} \X (1 .. f[q[i]])
        OBVIOUS
      <3>2. IsFiniteSet({i}) /\ IsFiniteSet(1 .. f[q[i]])
        <4>1. PICK k \in Nat : k = f[q[i]]
          BY <2>1
        <4>2. IsFiniteSet(1 .. k)
          BY FS_Interval
        <4>3. QED
          BY <4>1, <4>2, FS_Singleton
      <3>3. QED
        BY <3>1, <3>2, FS_Product
    <2>7. QED
      BY <2>5, <2>6, FS_UNION
  <1>2. PICK n \in Nat, q \in Seq(Tickets) :
            /\ n = Len(s) /\ q = Append(s, t) /\ DOMAIN s = 1 .. n /\ DOMAIN q = DOMAIN s \cup {n + 1}
            /\ \A i \in DOMAIN s : q[i] = s[i]
            /\ q[n + 1] = t
    <2>1. /\ Append(s, t) \in Seq(Tickets)
          /\ \A i \in DOMAIN s : Append(s, t)[i] = s[i]
          /\ Append(s, t)[Len(s) + 1] = t
          /\ DOMAIN Append(s, t) = DOMAIN s \cup {Len(s) + 1}
      BY ToSetAppend
    <2>2. QED
      BY <2>1, LenProperties
  <1>3. DEFINE A == UNION {{i} \X (1 .. f[s[i]]) : i \in DOMAIN s}
               B == {n + 1} \X (1 .. f[t])
               C == UNION {{i} \X (1 .. f[q[i]]) : i \in DOMAIN q}
  <1>4. C = A \cup B
    <2>1. C = (UNION {{i} \X (1 .. f[q[i]]) : i \in DOMAIN s}) \cup ({n + 1} \X (1 .. f[q[n + 1]]))
      BY <1>2
    <2>2. QED
      BY <1>2, <2>1
  <1>5. IsFiniteSet(A) /\ IsFiniteSet(C)
    BY <1>1
  <1>6. /\ IsFiniteSet(B) /\ Cardinality(B) = f[t]
    <2>1. PICK k \in Nat : k = f[t]
      OBVIOUS
    <2>2. IsFiniteSet(1 .. k) /\ Cardinality(1 .. k) = k
      BY FS_Interval
    <2>3. QED
      BY <2>1, <2>2, PairsWith
  <1>7. PlayersBy(f, s) = Cardinality(A) /\ PlayersBy(f, Append(s, t)) = Cardinality(C)
    BY <1>2 DEF PlayersBy
  <1>8. HIDE DEF A, B, C
  <1>9. /\ Cardinality(A) \in Nat /\ Cardinality(B) \in Nat /\ Cardinality(C) \in Nat
        /\ Cardinality(A \cap B) \in Nat
    BY <1>5, <1>6, FS_CardinalityType, FS_Intersection
  <1>10. Cardinality(A \cup B) = Cardinality(A) + Cardinality(B) - Cardinality(A \cap B)
    BY <1>5, <1>6, FS_Union
  <1>11. QED
    BY <1>4, <1>6, <1>7, <1>9, <1>10

\* A team that starts with another one still does with a ticket more.
LEMMA PrefixAppend ==
    ASSUME NEW c \in Seq(Tickets), NEW s \in Seq(Tickets), NEW t \in Tickets, IsPrefix(c, s)
    PROVE  IsPrefix(c, Append(s, t))
  <1>1. PICK n \in Nat, m \in Nat, q \in Seq(Tickets) :
            /\ n = Len(c) /\ m = Len(s) /\ q = Append(s, t) /\ n <= m /\ Len(q) = m + 1
            /\ \A i \in 1 .. m : q[i] = s[i]
            /\ SubSeq(c, 1, n) = SubSeq(s, 1, n)
    <2>1. /\ Len(c) \in Nat /\ Len(s) \in Nat /\ DOMAIN s = 1 .. Len(s)
      BY LenProperties
    <2>2. /\ Append(s, t) \in Seq(Tickets) /\ Len(Append(s, t)) = Len(s) + 1
          /\ \A i \in DOMAIN s : Append(s, t)[i] = s[i]
      BY ToSetAppend
    <2>3. Len(c) <= Len(s) /\ SubSeq(c, 1, Len(c)) = SubSeq(s, 1, Len(c))
      BY DEF IsPrefix
    <2>4. QED
      BY <2>1, <2>2, <2>3
  <1>2. \A i \in 1 .. n : i \in 1 .. m /\ q[i] = s[i] /\ s[i] \in Tickets
    BY <1>1
  <1>3. /\ SubSeq(s, 1, n) \in Seq(Tickets) /\ SubSeq(q, 1, n) \in Seq(Tickets)
        /\ Len(SubSeq(s, 1, n)) = IF 1 <= n THEN n - 1 + 1 ELSE 0
        /\ Len(SubSeq(q, 1, n)) = IF 1 <= n THEN n - 1 + 1 ELSE 0
        /\ \A i \in 1 .. n - 1 + 1 : SubSeq(s, 1, n)[i] = s[1 + i - 1]
        /\ \A i \in 1 .. n - 1 + 1 : SubSeq(q, 1, n)[i] = q[1 + i - 1]
    BY <1>2, SubSeqProperties
  <1>4. PICK x \in Seq(Tickets), y \in Seq(Tickets) : x = SubSeq(s, 1, n) /\ y = SubSeq(q, 1, n)
    BY <1>3
  <1>5. n - 1 + 1 = n /\ \A i \in 1 .. n : 1 + i - 1 = i
    OBVIOUS
  <1>6. Len(x) = n /\ Len(y) = n
    BY <1>3, <1>4, <1>5
  <1>7. \A i \in 1 .. n : x[i] = y[i]
    BY <1>2, <1>3, <1>4, <1>5
  <1>8. x = y
    BY <1>6, <1>7, SeqEqual
  <1>9. QED
    BY <1>1, <1>4, <1>8 DEF IsPrefix

\* Putting nobody in a team, or a whole team.
LEMMA PrefixSelf == \A s \in Seq(Tickets) : IsPrefix(s, s)
  BY LenProperties DEF IsPrefix

-----------------------------------------------------------------------------
(* The inductive invariant.                                                *)

\* A team made from the one to start from.
Team(s) ==
    /\ s \in Seq(Tickets) /\ IsPrefix(current, s) /\ IsInjective(s)
    /\ Players(s) <= MaxPlayer
    /\ OtherTeamOnly => ~Blocked(ToSet(s))

Legal(s) == Team(s) /\ (s # current => Players(s) >= MinPlayer)

Shape ==
    /\ \A t \in Tickets : size[t] \in Sizes[t]
    /\ [team |-> current, loops |-> loops] \in Starts
    /\ backing \in Arrays /\ Len(backing) = Capacity(Len(current))
    /\ \A i \in 1 .. Len(current) : backing[i] = current[i]
    /\ result \in Slice /\ Written(backing, result) /\ Len(current) <= result.len
    /\ best \in Slice /\ Written(backing, best)
    /\ tried \in Nat
    /\ pc \in {"next", "fill", "done"}
    /\ Team(current)

\* While an order is read, what was read of it made a team, and what is left is
\* not in it.
FillInv ==
    /\ order \in Seq(ToSet(Source)) /\ IsInjective(order) /\ Len(order) <= Len(Source)
    /\ at \in 1 .. Len(order) + 1
    /\ pc = "fill" =>
        /\ tried > 0
        /\ Team(Contents(result))
        /\ \A i \in at .. Len(order) : order[i] \notin ToSet(Contents(result))

\* The best team is one that may be answered, and nothing the finder may still
\* write into the shared array is part of it.
BestInv ==
    /\ Legal(Contents(best))
    /\ Len(backing) = Len(current) \/ (loops = 1 /\ (tried = 0 \/ pc = "fill" => best = Start))

AnswerInv == pc = "done" => Legal(answer)

TypeInv == Shape /\ FillInv

IInv == TypeInv /\ BestInv /\ AnswerInv

\* One order is tried, or the array of the team to start from has no room.
OneOwner == \A s \in Starts : s.loops = 1 \/ Capacity(Len(s.team)) = Len(s.team)

\* The constants, as the proofs use them.
LEMMA Basics ==
    /\ Source \in Seq(Tickets) /\ IsInjective(Source) /\ Source \in Seq(ToSet(Source))
    /\ ToSet(Source) \subseteq Tickets
    /\ None \notin Tickets
    /\ MaxPlayer \in Nat /\ MinPlayer \in Nat /\ MinPlayer <= MaxPlayer
    /\ \A t \in Tickets : Sizes[t] \subseteq Nat
  <1>1. MaxPlayer \in Nat /\ MinPlayer \in 1 .. MaxPlayer
    BY CombinationAssumption
  <1>2. MinPlayer \in Nat /\ MinPlayer <= MaxPlayer
    BY <1>1
  <1>3. /\ Source \in Seq(Tickets) /\ IsInjective(Source)
        /\ None \notin Tickets /\ \A t \in Tickets : Sizes[t] \subseteq Nat
    BY CombinationAssumption
  <1>4. QED
    BY <1>1, <1>2, <1>3, ToSetType

\* What the call came with.
LEMMA InputType ==
    ASSUME [team |-> current, loops |-> loops] \in Starts
    PROVE  /\ current \in Seq(Tickets) /\ Len(current) \in Nat /\ IsInjective(current)
           /\ ToSet(current) \cap ToSet(Source) = {}
           /\ loops \in Nat \ {0}
           /\ Capacity(Len(current)) \in Nat /\ Len(current) <= Capacity(Len(current))
           /\ OneOwner => loops = 1 \/ Capacity(Len(current)) = Len(current)
  <1>1. PICK s \in Starts : s.team = current /\ s.loops = loops
    OBVIOUS
  <1>2. s.team \in Seq(Tickets) /\ s.loops \in Nat \ {0}
    BY CombinationAssumption
  <1>3. /\ ToSet(s.team) \cap ToSet(Source) = {} /\ IsInjective(s.team)
        /\ Capacity(Len(s.team)) \in Nat /\ Len(s.team) <= Capacity(Len(s.team))
    BY CombinationAssumption
  <1>4. QED
    BY <1>1, <1>2, <1>3, LenProperties DEF OneOwner

\* The sizes of parties are numbers.
LEMMA SizesType ==
    ASSUME \A t \in Tickets : size[t] \in Sizes[t]
    PROVE  /\ \A t \in Tickets : size[t] \in Nat
           /\ \A s \in Seq(Tickets) : Players(s) \in Nat
           /\ Players(<<>>) = 0
  <1>1. \A t \in Tickets : size[t] \in Nat
    BY Basics
  <1>2. ASSUME NEW s \in Seq(Tickets) PROVE Players(s) \in Nat
    <2>1. CASE Tickets = {}
      <3>1. s = <<>>
        BY <2>1
      <3>2. QED
        BY <3>1, FS_EmptySet DEF Players, PlayersBy
    <2>2. CASE Tickets # {}
      <3>1. PICK t \in Tickets : TRUE
        BY <2>2
      <3>2. PICK f : f = size
        OBVIOUS
      <3>3. \A u \in Tickets : f[u] \in Nat
        BY <1>1, <3>2
      <3>4. PlayersBy(f, s) \in Nat
        BY <3>3, PlayersAppend
      <3>5. QED
        BY <3>2, <3>4 DEF Players
    <2>3. QED
      BY <2>1, <2>2
  <1>3. Players(<<>>) = 0
    <2>1. UNION {{i} \X (1 .. size[<<>>[i]]) : i \in DOMAIN <<>>} = {}
      OBVIOUS
    <2>2. QED
      BY <2>1, FS_EmptySet DEF Players, PlayersBy
  <1>4. QED
    BY <1>1, <1>2, <1>3

\* A team stays one while the input stays.
LEMMA TeamKept ==
    ASSUME UNCHANGED input, NEW s
    PROVE  /\ Team(s)' <=> Team(s)
           /\ Legal(s)' <=> Legal(s)
  <1>1. Players(s)' = Players(s)
    BY DEF input, Players, PlayersBy
  <1>2. Team(s)' <=> Team(s)
    BY <1>1 DEF input, Team
  <1>3. QED
    BY <1>1, <1>2 DEF input, Legal

\* A ticket that neither brings too many players nor somebody blocked makes a
\* team of a team.
LEMMA TeamGrows ==
    ASSUME \A t \in Tickets : size[t] \in Sizes[t], current \in Seq(Tickets),
           NEW s, Team(s), NEW t \in Tickets, t \notin ToSet(s),
           Players(s) + size[t] <= MaxPlayer,
           OtherTeamOnly => ~Blocked({t} \cup ToSet(s))
    PROVE  Team(Append(s, t))
  <1>1. s \in Seq(Tickets) /\ IsPrefix(current, s) /\ IsInjective(s)
    BY DEF Team
  <1>2. Append(s, t) \in Seq(Tickets) /\ ToSet(Append(s, t)) = {t} \cup ToSet(s)
    BY <1>1, ToSetAppend
  <1>3. IsInjective(Append(s, t))
    BY <1>1, InjectiveAppend
  <1>4. IsPrefix(current, Append(s, t))
    BY <1>1, PrefixAppend
  <1>5. Players(Append(s, t)) <= MaxPlayer
    <2>1. PICK f : f = size /\ \A u \in Tickets : f[u] \in Nat
      BY SizesType
    <2>2. PICK a \in Nat, b \in Nat, k \in Nat, m \in Nat :
              /\ a = PlayersBy(f, s) /\ b = PlayersBy(f, Append(s, t)) /\ k = f[t] /\ m = MaxPlayer
              /\ b <= a + k
      BY <1>1, <2>1, PlayersAppend, Basics
    <2>3. a + k <= m
      BY <2>1, <2>2 DEF Players
    <2>4. b <= m
      BY <2>2, <2>3
    <2>5. QED
      BY <2>1, <2>2, <2>4 DEF Players
  <1>6. QED
    BY <1>2, <1>3, <1>4, <1>5 DEF Team

\* The slice an order starts with holds the team to start from.
LEMMA StartContents ==
    ASSUME [team |-> current, loops |-> loops] \in Starts,
           backing \in Arrays, Len(backing) = Capacity(Len(current)),
           \A i \in 1 .. Len(current) : backing[i] = current[i]
    PROVE  /\ Start \in Slice /\ Start.len = Len(current)
           /\ Written(backing, Start) /\ Contents(Start) = current
  <1>1. /\ current \in Seq(Tickets) /\ Len(current) \in Nat
        /\ Len(current) <= Len(backing) /\ \A i \in 1 .. Len(current) : current[i] \in Tickets
    BY InputType, LenProperties
  <1>2. Start \in Slice /\ Start.shared /\ Start.len = Len(current)
    BY <1>1, ToSetEmpty DEF Start, Slice
  <1>3. Written(backing, Start)
    BY <1>1, <1>2 DEF Written
  <1>4. PICK b \in Arrays, s \in Slice : b = backing /\ s = Start
    BY <1>2
  <1>5. /\ Within(b, s) \in Seq(Tickets) /\ Len(Within(b, s)) = s.len
        /\ \A i \in 1 .. s.len : Within(b, s)[i] = b[i]
    BY <1>2, <1>3, <1>4, SliceContents
  <1>6. PICK x \in Seq(Tickets), y \in Seq(Tickets) : x = Within(b, s) /\ y = current
    BY <1>1, <1>5
  <1>7. Len(x) = Len(y) /\ \A i \in 1 .. Len(x) : x[i] = y[i]
    BY <1>2, <1>4, <1>5, <1>6
  <1>8. x = y
    BY <1>7, SeqEqual
  <1>9. QED
    BY <1>2, <1>3, <1>4, <1>6, <1>8 DEF Contents, Within

\* The call starts with a team that may be answered.
LEMMA InitInv == Init => TypeInv /\ AnswerInv /\ (OneOwner => BestInv)
  <1> SUFFICES ASSUME Init PROVE TypeInv /\ AnswerInv /\ (OneOwner => BestInv)
    OBVIOUS
  <1>1. /\ \A t \in Tickets : size[t] \in Sizes[t]
        /\ [team |-> current, loops |-> loops] \in Starts
    <2>1. PICK s \in Starts : current = s.team /\ loops = s.loops
      BY DEF Init
    <2>2. s = [team |-> s.team, loops |-> s.loops]
      BY CombinationAssumption
    <2>3. QED
      BY <2>1, <2>2 DEF Init
  <1>2. PICK n \in Nat, k \in Nat : n = Capacity(Len(current)) /\ k = Len(current) /\ k <= n
    BY <1>1, InputType
  <1>3. /\ backing \in Arrays /\ Len(backing) = n
        /\ \A i \in 1 .. k : backing[i] = current[i]
    <2>1. backing = [i \in 1 .. n |-> IF i <= k THEN current[i] ELSE None]
      BY <1>2 DEF Init
    <2>2. \A i \in 1 .. n : i <= k => i \in 1 .. Len(current)
      BY <1>2
    <2>3. \A i \in 1 .. Len(current) : current[i] \in Tickets
      BY <1>1, InputType
    <2>4. QED
      BY <1>2, <2>1, <2>2, <2>3 DEF Arrays
  <1>4. /\ Start \in Slice /\ Start.len = Len(current)
        /\ Written(backing, Start) /\ Contents(Start) = current
    BY <1>1, <1>2, <1>3, StartContents
  <1>5. Team(current)
    <2>1. current \in Seq(Tickets) /\ IsPrefix(current, current) /\ IsInjective(current)
      BY <1>1, InputType, PrefixSelf
    <2>2. Players(current) <= MaxPlayer
      <3>1. CASE current = <<>>
        BY <1>1, <3>1, SizesType, Basics
      <3>2. CASE current # <<>>
        <4>1. Players(current) \in MinPlayer .. MaxPlayer
          BY <3>2 DEF Init, Players
        <4>2. QED
          BY <4>1, Basics
      <3>3. QED
        BY <3>1, <3>2
    <2>3. QED
      BY <2>1, <2>2 DEF Init, Team
  <1>6. result = Start /\ best = Start /\ tried = 0 /\ order = <<>> /\ at = 1 /\ pc = "next"
    BY DEF Init
  <1>7. Shape
    BY <1>1, <1>2, <1>3, <1>4, <1>5, <1>6 DEF Shape
  <1>8. FillInv
    BY <1>6, ToSetEmpty, Basics, LenProperties DEF FillInv
  <1>9. AnswerInv
    BY <1>6 DEF AnswerInv
  <1>10. OneOwner => BestInv
    <2>1. Legal(Contents(best))
      BY <1>4, <1>5, <1>6 DEF Legal
    <2>2. OneOwner => loops = 1 \/ Len(backing) = Len(current)
      BY <1>1, <1>2, <1>3, InputType
    <2>3. QED
      BY <1>6, <2>1, <2>2 DEF BestInv
  <1>11. QED
    BY <1>7, <1>8, <1>9, <1>10 DEF TypeInv

\* Every order has the tickets once.
LEMMA OrderType ==
    ASSUME loops \in Nat \ {0}, tried \in Nat, tried < OrderCount
    PROVE  /\ OrderAt(tried) \in Seq(ToSet(Source)) /\ IsInjective(OrderAt(tried))
           /\ Len(OrderAt(tried)) = Len(Source)
           /\ loops = 1 => tried = 0
  <1>1. PICK S : S = ToSet(Source)
    OBVIOUS
  <1>2. Source \in Seq(S) /\ IsInjective(Source) /\ Len(Source) \in Nat
    BY <1>1, Basics, LenProperties
  <1>3. PICK all : all = IF Len(Source) < 2 THEN 1 ELSE PairCount(Tail(Source))
    OBVIOUS
  <1>4. OrderCount = IF loops < all THEN loops ELSE all
    BY <1>3 DEF OrderCount
  <1>5. all \in Nat
    <2>1. CASE Len(Source) < 2
      BY <1>3, <2>1
    <2>2. CASE ~(Len(Source) < 2)
      <3>1. PICK n \in Nat : n = Len(Tail(Source)) /\ n >= 1
        BY <1>2, <2>2, HeadTailProperties
      <3>2. n * (n - 1) \in Nat
        BY <3>1
      <3>3. QED
        BY <1>3, <2>2, <3>1, <3>2 DEF PairCount
    <2>3. QED
      BY <2>1, <2>2
  <1>6. tried < all /\ (loops = 1 => tried = 0)
    BY <1>4, <1>5
  <1>7. CASE Source = <<>>
    BY <1>1, <1>2, <1>6, <1>7, ToSetEmpty DEF OrderAt
  <1>8. CASE Source # <<>>
    <2>1. /\ Head(Source) \in S /\ Tail(Source) \in Seq(S) /\ IsInjective(Tail(Source))
          /\ ToSet(Tail(Source)) = S \ {Head(Source)}
      BY <1>1, <1>2, <1>8, InjectiveTail
    <2>2. Len(Tail(Source)) = Len(Source) - 1 /\ Len(Source) >= 1
      BY <1>2, <1>8, HeadTailProperties, EmptySeq
    <2>3. PICK q \in Seq(S), h \in S :
             /\ q = Tail(Source) /\ h = Head(Source) /\ IsInjective(q)
             /\ ToSet(q) = S \ {h} /\ Len(q) = Len(Source) - 1
      BY <2>1, <2>2
    <2>4. Len(q) >= 2 => tried < PairCount(q)
      BY <1>2, <1>3, <1>6, <2>3
    <2>5. /\ PairFirst(q, tried) \in Seq(S) /\ IsInjective(PairFirst(q, tried))
          /\ ToSet(PairFirst(q, tried)) = ToSet(q) /\ Len(PairFirst(q, tried)) = Len(q)
      BY <2>3, <2>4, PairFirstProperties
    <2>6. PICK r \in Seq(S), f \in Seq(S) : r = PairFirst(q, tried) /\ f = <<h>>
      <3>1. <<h>> \in Seq(S)
        OBVIOUS
      <3>2. PairFirst(q, tried) \in Seq(S)
        BY <2>5
      <3>3. QED
        BY <3>1, <3>2
    <2>7. OrderAt(tried) = f \o r
      BY <1>8, <2>3, <2>6 DEF OrderAt
    <2>8. IsInjective(f) /\ ToSet(f) = {h} /\ Len(f) = 1
      BY <2>6 DEF IsInjective, ToSet
    <2>9. ToSet(f) \cap ToSet(r) = {}
      BY <2>3, <2>5, <2>6, <2>8
    <2>10. IsInjective(f \o r)
      BY <2>5, <2>6, <2>8, <2>9, InjectiveConcat
    <2>11. f \o r \in Seq(S) /\ Len(f \o r) = Len(f) + Len(r)
      BY ConcatProperties
    <2>12. Len(f \o r) = Len(Source)
      <3>1. PICK n \in Nat : n = Len(Source)
        BY <1>2
      <3>2. Len(f) = 1 /\ Len(r) = n - 1 /\ Len(f \o r) = Len(f) + Len(r)
        BY <2>3, <2>5, <2>6, <2>8, <2>11, <3>1
      <3>3. 1 + (n - 1) = n
        OBVIOUS
      <3>4. QED
        BY <3>1, <3>2, <3>3
    <2>13. QED
      BY <1>1, <1>6, <2>7, <2>10, <2>11, <2>12
  <1>9. QED
    BY <1>7, <1>8

\* A new order starts from the team the call came with.
LEMMA NextOrderInv ==
    ASSUME TypeInv, NextOrder
    PROVE  TypeInv' /\ AnswerInv' /\ (BestInv => BestInv')
  <1>1. /\ tried \in Nat /\ loops \in Nat \ {0} /\ tried < OrderCount
        /\ order' = OrderAt(tried) /\ tried' = tried + 1 /\ result' = Start
        /\ at' = 1 /\ pc' = "fill" /\ UNCHANGED <<input, backing, best, answer>>
    BY InputType DEF NextOrder, TypeInv, Shape
  <1>2. /\ Start \in Slice /\ Start.len = Len(current)
        /\ Written(backing, Start) /\ Contents(Start) = current
    BY StartContents DEF TypeInv, Shape
  <1>3. Team(current)' /\ current' = current
    BY <1>1, TeamKept DEF TypeInv, Shape, input
  <1>4. Shape'
    BY <1>1, <1>2, <1>3, InputType DEF TypeInv, Shape, input
  <1>5. Contents(result)' = current
    BY <1>1, <1>2 DEF Contents
  <1>6. ToSet(current) \cap ToSet(Source) = {} /\ current \in Seq(Tickets)
    BY InputType DEF TypeInv, Shape
  <1>7. /\ order' \in Seq(ToSet(Source)) /\ IsInjective(order') /\ Len(order') = Len(Source)
        /\ loops = 1 => tried = 0
    BY <1>1, OrderType
  <1>8. \A i \in 1 .. Len(order') : order'[i] \in ToSet(Source)
    BY <1>7
  <1>9. Len(Source) \in Nat
    BY Basics, LenProperties
  <1>10. Team(Contents(result))'
    BY <1>3, <1>5
  <1>11. \A i \in at' .. Len(order') : order'[i] \notin ToSet(Contents(result))'
    BY <1>1, <1>5, <1>6, <1>8
  <1>12. FillInv'
    BY <1>1, <1>7, <1>9, <1>10, <1>11 DEF FillInv
  <1>13. AnswerInv'
    BY <1>1 DEF AnswerInv
  <1>14. ASSUME BestInv PROVE BestInv'
    <2>1. PICK s : s = Contents(best)
      OBVIOUS
    <2>2. Contents(best)' = s
      BY <1>1, <2>1 DEF Contents
    <2>3. Legal(s)'
      BY <1>1, <1>14, <2>1, TeamKept DEF BestInv
    <2>4. Legal(Contents(best))'
      BY <2>2, <2>3
    <2>5. Len(backing) = Len(current) \/ (loops = 1 /\ best = Start)
      BY <1>7, <1>14 DEF BestInv
    <2>6. Start' = Start
      BY <1>3 DEF Start
    <2>7. QED
      BY <1>1, <1>3, <2>4, <2>5, <2>6 DEF BestInv, input
  <1>15. QED
    BY <1>4, <1>12, <1>13, <1>14 DEF TypeInv

\* What Consider puts in the team fits: the team grows, and the best team stays
\* what it was when the array it may share has no room for others.
LEMMA ConsiderInv ==
    ASSUME TypeInv, Consider
    PROVE  /\ TypeInv' /\ AnswerInv' /\ (BestInv => BestInv')
           /\ Contents(result)' = JoinedBy(size, Contents(result), order[at])
           /\ BestInv => Contents(best)' = Contents(best)
  <1>1. /\ pc = "fill" /\ at <= Len(order) /\ at' = at + 1
        /\ UNCHANGED <<input, best, tried, order, pc, answer>>
    BY DEF Consider
  <1>2. /\ Len(order) \in Nat /\ at \in 1 .. Len(order) /\ order \in Seq(ToSet(Source))
        /\ IsInjective(order) /\ Len(order) <= Len(Source)
        /\ \A i \in at .. Len(order) : order[i] \notin ToSet(Contents(result))
        /\ Team(Contents(result)) /\ tried > 0
    BY <1>1, LenProperties DEF TypeInv, FillInv
  <1>3. PICK t \in Tickets : t = order[at] /\ t \notin ToSet(Contents(result))
    BY <1>2, Basics
  <1>4. PICK s \in Seq(Tickets) : s = Contents(result) /\ Team(s) /\ t \notin ToSet(s)
    BY <1>2, <1>3 DEF Team
  <1>5. \A i \in at + 1 .. Len(order) : order[i] # t /\ order[i] \notin ToSet(s)
    <2>1. SUFFICES ASSUME NEW i \in at + 1 .. Len(order)
                   PROVE  order[i] # t /\ order[i] \notin ToSet(s)
      OBVIOUS
    <2>2. i \in DOMAIN order /\ at \in DOMAIN order /\ i # at /\ i \in at .. Len(order)
      BY <1>2, LenProperties
    <2>3. QED
      BY <1>2, <1>3, <1>4, <2>2 DEF IsInjective
  <1>6. PICK b \in Arrays, k \in Nat, r \in Slice, o \in Slice :
            /\ b = backing /\ k = Len(current) /\ r = result /\ o = best
            /\ Written(b, r) /\ k <= r.len /\ Written(b, o) /\ r.len \in Nat
            /\ Within(b, r) = s /\ current \in Seq(Tickets)
            /\ \A i \in 1 .. k : b[i] = current[i]
    <2>1. Len(current) \in Nat /\ current \in Seq(Tickets) /\ result.len \in Nat
      BY InputType DEF TypeInv, Shape, Slice
    <2>2. Within(backing, result) = Contents(result)
      BY DEF Within, Contents
    <2>3. QED
      BY <1>4, <2>1, <2>2 DEF TypeInv, Shape
  <1>7. PICK c, x :
            /\ c = backing' /\ x = Contents(result)'
            /\ c \in Arrays /\ Len(c) = Len(b)
            /\ \A i \in 1 .. k : c[i] = current[i]
            /\ result' \in Slice /\ Written(c, result') /\ k <= result'.len
            /\ Team(x) /\ ToSet(x) \subseteq ToSet(s) \cup {t}
            /\ x = JoinedBy(size, s, t)
            /\ Written(c, o)
            /\ BestInv => Within(c, o) = Within(b, o)
    <2>1. Contents(result)' = Within(backing', result')
      BY DEF Contents, Within
    <2>a. JoinedBy(size, s, t) = IF ~JoinsBlocked(t) /\ AssignMembers(t) THEN Append(s, t) ELSE s
      <3>1. /\ JoinsBlocked(t) <=> OtherTeamOnly /\ Blocked({t} \cup ToSet(s))
            /\ AssignMembers(t) <=> PlayersBy(size, s) + size[t] <= MaxPlayer
        BY <1>4 DEF JoinsBlocked, AssignMembers, Players
      <3>2. QED
        BY <3>1, Zenon DEF JoinedBy
    <2>2. CASE ~JoinsBlocked(t) /\ AssignMembers(t)
      <3>1. AppendResult(t)
        BY <1>3, <2>2 DEF Consider
      <3>2. Team(Append(s, t)) /\ ToSet(Append(s, t)) = ToSet(s) \cup {t}
        <4>1. Players(s) + size[t] <= MaxPlayer /\ (OtherTeamOnly => ~Blocked({t} \cup ToSet(s)))
          BY <1>4, <2>2 DEF JoinsBlocked, AssignMembers
        <4>2. \A u \in Tickets : size[u] \in Sizes[u]
          BY DEF TypeInv, Shape
        <4>3. QED
          BY <1>4, <1>6, <4>1, <4>2, TeamGrows, ToSetAppend
      <3>3. CASE r.shared /\ r.len < Len(b)
        <4>1. PICK j \in Nat : j = r.len + 1
          BY <1>6
        <4>2. PICK c : c = [b EXCEPT ![j] = t]
          OBVIOUS
        <4>3. PICK w : w = [shared |-> TRUE, len |-> r.len + 1, own |-> <<>>]
          OBVIOUS
        <4>4. backing' = c /\ result' = w
          BY <1>6, <3>1, <3>3, <4>1, <4>2, <4>3 DEF AppendResult
        <4>5. /\ j \in 1 .. Len(b) /\ w \in Slice /\ w.len = j /\ Written(c, w)
              /\ Within(c, w) = Append(s, t)
          BY <1>6, <3>3, <4>1, <4>2, <4>3, SliceGrows
        <4>6. /\ c \in Arrays /\ Len(c) = Len(b)
              /\ \A i \in 1 .. Len(b) : c[i] = IF i = j THEN t ELSE b[i]
              /\ Written(c, o)
              /\ j > o.len \/ ~o.shared => Within(c, o) = Within(b, o)
          <5>1. PICK m \in DOMAIN b : m = j
            BY <4>5, LenProperties DEF Arrays
          <5>2. Written(b, o) /\ c = [b EXCEPT ![m] = t]
            BY <1>6, <4>2, <5>1
          <5>3. /\ c \in Arrays /\ Len(c) = Len(b)
                /\ \A i \in DOMAIN b : c[i] = IF i = m THEN t ELSE b[i]
                /\ Written(c, o)
                /\ m > o.len \/ ~o.shared => Within(c, o) = Within(b, o)
            BY <5>2, WriteElsewhere
          <5>4. QED
            BY <5>1, <5>3, LenProperties DEF Arrays
        <4>7. \A i \in 1 .. k : c[i] = current[i]
          <5>1. PICK n \in Nat : n = Len(b)
            BY LenProperties DEF Arrays
          <5>2. \A i \in 1 .. k : i \in 1 .. n /\ i # j
            BY <1>6, <3>3, <4>1, <5>1
          <5>3. QED
            BY <1>6, <4>6, <5>1, <5>2
        <4>8. BestInv => Within(c, o) = Within(b, o)
          <5>1. SUFFICES ASSUME BestInv PROVE j > o.len
            BY <4>6
          <5>2. Len(b) # k
            BY <1>6, <3>3
          <5>3. best = Start
            BY <1>1, <1>6, <5>1, <5>2 DEF BestInv
          <5>4. o.len = k
            BY <1>6, <5>3 DEF Start
          <5>5. QED
            BY <1>6, <4>1, <5>4
        <4>9. k <= w.len
          BY <1>6, <4>1, <4>5
        <4>10. QED
          BY <2>1, <2>2, <2>a, <3>2, <4>4, <4>5, <4>6, <4>7, <4>8, <4>9
      <3>4. CASE ~(r.shared /\ r.len < Len(b))
        <4>1. PICK w : w = [shared |-> FALSE, len |-> r.len + 1, own |-> Append(s, t)]
          OBVIOUS
        <4>2. backing' = b /\ result' = w
          BY <1>4, <1>6, <3>1, <3>4, <4>1 DEF AppendResult
        <4>3. w \in Slice /\ Written(b, w) /\ Within(b, w) = Append(s, t)
          BY <1>6, <4>1, SliceGrows
        <4>4. k <= w.len
          BY <1>6, <4>1
        <4>5. QED
          BY <1>6, <2>1, <2>2, <2>a, <3>2, <4>2, <4>3, <4>4
      <3>5. QED
        BY <3>3, <3>4
    <2>3. CASE ~(~JoinsBlocked(t) /\ AssignMembers(t))
      <3>1. UNCHANGED <<result, backing>>
        BY <1>3, <2>3 DEF Consider
      <3>2. QED
        BY <1>4, <1>6, <2>1, <2>3, <2>a, <3>1
    <2>4. QED
      BY <2>2, <2>3
  <1>8. Team(current)' /\ current' = current /\ loops' = loops /\ size' = size
    BY <1>1, TeamKept DEF TypeInv, Shape, input
  <1>9. Shape'
    BY <1>1, <1>6, <1>7, <1>8 DEF TypeInv, Shape
  <1>10. Team(Contents(result))'
    <2>1. Team(x)'
      BY <1>1, <1>7, TeamKept
    <2>2. QED
      BY <1>7, <2>1
  <1>11. FillInv'
    <2>1. \A i \in at' .. Len(order') : order'[i] \notin ToSet(Contents(result))'
      BY <1>1, <1>5, <1>7
    <2>2. at' \in 1 .. Len(order') + 1
      BY <1>1, <1>2
    <2>3. QED
      BY <1>1, <1>2, <1>10, <2>1, <2>2 DEF FillInv
  <1>12. AnswerInv'
    BY <1>1 DEF AnswerInv
  <1>a. BestInv => Contents(best)' = Contents(best)
    <2>1. Contents(best)' = Within(backing', best') /\ Contents(best) = Within(b, o)
      BY <1>6 DEF Contents, Within
    <2>2. QED
      BY <1>1, <1>6, <1>7, <2>1
  <1>13. ASSUME BestInv PROVE BestInv'
    <2>2. Contents(best)' = Contents(best)
      BY <1>13, <1>a
    <2>3. PICK y : y = Contents(best)
      OBVIOUS
    <2>4. Legal(y)'
      BY <1>1, <1>13, <2>3, TeamKept DEF BestInv
    <2>5. Legal(Contents(best))'
      BY <2>2, <2>3, <2>4
    <2>6. Start' = Start
      BY <1>8 DEF Start
    <2>7. Len(backing') = Len(backing)
      BY <1>6, <1>7
    <2>8. QED
      BY <1>1, <1>8, <1>13, <2>5, <2>6, <2>7 DEF BestInv
  <1>14. Contents(result)' = JoinedBy(size, Contents(result), order[at])
    BY <1>3, <1>4, <1>7
  <1>15. QED
    BY <1>9, <1>11, <1>12, <1>13, <1>14, <1>a DEF TypeInv

\* A team that replaces the best one has enough players, and so has a full one.
LEMMA OrderEndsInv ==
    ASSUME TypeInv, OrderEnds
    PROVE  TypeInv' /\ AnswerInv' /\ (BestInv => BestInv')
  <1>1. /\ pc = "fill" /\ pc' \in {"next", "done"} /\ best' = IF IsBetter THEN result ELSE best
        /\ UNCHANGED <<input, backing, result, tried, order, at>>
    BY DEF OrderEnds
  <1>2. /\ current' = current /\ loops' = loops /\ size' = size /\ backing' = backing
        /\ result' = result /\ tried' = tried /\ order' = order /\ at' = at
    BY <1>1 DEF input
  <1>3. Team(current)'
    BY <1>1, <1>2, TeamKept DEF TypeInv, Shape
  <1>4. Shape'
    BY <1>1, <1>2, <1>3 DEF TypeInv, Shape
  <1>5. FillInv'
    BY <1>1, <1>2 DEF TypeInv, FillInv
  <1>6. PICK x \in Seq(Tickets) : x = Contents(result) /\ Team(x)
    BY <1>1 DEF TypeInv, FillInv, Team
  <1>7. /\ MinPlayer \in Nat /\ MaxPlayer \in Nat /\ MinPlayer <= MaxPlayer
        /\ Players(x) \in Nat
    BY Basics, SizesType DEF TypeInv, Shape
  <1>8. ASSUME pc' = "done" PROVE Legal(answer)'
    <2>1. Players(x) = MaxPlayer /\ answer' = x
      BY <1>1, <1>6, <1>8 DEF OrderEnds
    <2>2. Legal(x)
      BY <1>6, <1>7, <2>1 DEF Legal
    <2>3. Legal(x)'
      BY <1>1, <2>2, TeamKept
    <2>4. QED
      BY <2>1, <2>3
  <1>9. AnswerInv'
    BY <1>8 DEF AnswerInv
  <1>10. ASSUME BestInv PROVE BestInv'
    <2>1. PICK y : y = IF IsBetter THEN x ELSE Contents(best)
      OBVIOUS
    <2>2. Contents(best)' = y
      BY <1>1, <1>2, <1>6, <2>1 DEF Contents
    <2>3. Legal(y)
      <3>1. IsBetter => Legal(x)
        BY <1>6, <1>7 DEF IsBetter, Legal
      <3>2. QED
        BY <1>10, <2>1, <3>1 DEF BestInv
    <2>4. Legal(Contents(best))'
      <3>1. Legal(y)'
        BY <1>1, <2>3, TeamKept
      <3>2. QED
        BY <2>2, <3>1
    <2>5. tried > 0 /\ tried \in Nat
      BY <1>1 DEF TypeInv, FillInv, Shape
    <2>6. QED
      BY <1>1, <1>2, <1>10, <2>4, <2>5 DEF BestInv
  <1>11. QED
    BY <1>4, <1>5, <1>9, <1>10 DEF TypeInv

\* The best team is answered when no order is left.
LEMMA ReturnBestInv ==
    ASSUME TypeInv, ReturnBest
    PROVE  TypeInv' /\ (BestInv => BestInv' /\ AnswerInv')
  <1>1. /\ pc = "next" /\ pc' = "done" /\ answer' = Contents(best) /\ tried >= OrderCount
        /\ UNCHANGED <<input, backing, result, best, tried, order, at>>
    BY DEF ReturnBest
  <1>2. /\ current' = current /\ loops' = loops /\ size' = size /\ backing' = backing /\ best' = best
        /\ result' = result /\ tried' = tried /\ order' = order /\ at' = at
    BY <1>1 DEF input
  <1>3. Team(current)'
    BY <1>1, <1>2, TeamKept DEF TypeInv, Shape
  <1>4. Shape'
    BY <1>1, <1>2, <1>3 DEF TypeInv, Shape
  <1>5. FillInv'
    BY <1>1, <1>2 DEF TypeInv, FillInv
  <1>6. ASSUME BestInv PROVE BestInv' /\ AnswerInv'
    <2>1. PICK y : y = Contents(best) /\ Legal(y)
      BY <1>6 DEF BestInv
    <2>2. Legal(y)'
      BY <1>1, <2>1, TeamKept
    <2>3. Contents(best)' = y
      BY <1>2, <2>1 DEF Contents
    <2>4. Legal(Contents(best))' /\ Legal(answer)'
      BY <1>1, <2>1, <2>2, <2>3
    <2>5. Start' = Start
      BY <1>2 DEF Start
    <2>6. QED
      BY <1>1, <1>2, <1>6, <2>4, <2>5 DEF BestInv, AnswerInv
  <1>7. QED
    BY <1>4, <1>5, <1>6 DEF TypeInv

\* A call that is over changes nothing.
LEMMA StutterInv ==
    ASSUME TypeInv, UNCHANGED vars
    PROVE  TypeInv' /\ (BestInv /\ AnswerInv => BestInv' /\ AnswerInv')
  <1>1. /\ UNCHANGED input /\ answer' = answer /\ pc' = pc
        /\ current' = current /\ loops' = loops /\ size' = size /\ backing' = backing /\ best' = best
        /\ result' = result /\ tried' = tried /\ order' = order /\ at' = at
    BY DEF vars, input
  <1>2. Team(current)' /\ (Legal(answer) => Legal(answer)')
    <2>1. Team(current)'
      BY <1>1, TeamKept DEF TypeInv, Shape
    <2>2. PICK y : y = answer
      OBVIOUS
    <2>3. Legal(y)' <=> Legal(y)
      BY <1>1, TeamKept
    <2>4. QED
      BY <1>1, <2>1, <2>2, <2>3
  <1>3. Shape'
    BY <1>1, <1>2 DEF TypeInv, Shape
  <1>4. PICK x, y : x = Contents(result) /\ y = Contents(best)
    OBVIOUS
  <1>5. Contents(result)' = x /\ Contents(best)' = y
    BY <1>1, <1>4 DEF Contents
  <1>6. FillInv'
    <2>1. pc = "fill" => Team(Contents(result))'
      <3>1. Team(x)' <=> Team(x)
        BY <1>1, TeamKept
      <3>2. QED
        BY <1>4, <1>5, <3>1 DEF TypeInv, FillInv
    <2>2. QED
      BY <1>1, <1>4, <1>5, <2>1 DEF TypeInv, FillInv
  <1>7. ASSUME BestInv PROVE BestInv'
    <2>1. Legal(y)'
      BY <1>1, <1>4, <1>7, TeamKept DEF BestInv
    <2>2. Legal(Contents(best))'
      BY <1>5, <2>1
    <2>3. Start' = Start
      BY <1>1 DEF Start
    <2>4. QED
      BY <1>1, <1>7, <2>2, <2>3 DEF BestInv
  <1>8. AnswerInv => AnswerInv'
    BY <1>1, <1>2 DEF AnswerInv
  <1>9. QED
    BY <1>3, <1>6, <1>7, <1>8 DEF TypeInv

\* No step breaks the invariant.
LEMMA NextInv ==
    ASSUME TypeInv, [Next]_vars
    PROVE  TypeInv' /\ (BestInv /\ AnswerInv => BestInv' /\ AnswerInv')
  <1>1. CASE NextOrder
    BY <1>1, NextOrderInv
  <1>2. CASE Consider
    BY <1>2, ConsiderInv
  <1>3. CASE OrderEnds
    BY <1>3, OrderEndsInv
  <1>4. CASE ReturnBest
    BY <1>4, ReturnBestInv
  <1>5. CASE Finished
    BY <1>5, StutterInv DEF Finished
  <1>6. CASE UNCHANGED vars
    BY <1>6, StutterInv
  <1>7. QED
    BY <1>1, <1>2, <1>3, <1>4, <1>5, <1>6 DEF Next

-----------------------------------------------------------------------------
(* The answer and what filling greedily gives.                             *)

\* The teams of an order follow from each other, each by one ticket.
LEMMA FilledSteps ==
    ASSUME NEW f, NEW c, NEW o, Len(o) \in Nat
    PROVE  /\ Filled(f, c, o)[0] = c
           /\ \A i \in 1 .. Len(o) : Filled(f, c, o)[i] = JoinedBy(f, Filled(f, c, o)[i - 1], o[i])
  <1>1. DEFINE Fills(g, n) == g = [i \in 0 .. n |-> IF i = 0 THEN c ELSE JoinedBy(f, g[i - 1], o[i])]
               bad == {n \in Nat : ~ \E g : Fills(g, n)}
  <1>2. bad = {}
    <2>1. SUFFICES ASSUME bad # {} PROVE FALSE
      OBVIOUS
    <2>2. PICK n \in bad : \A m \in bad : n <= m
      <3>1. bad \subseteq Nat
        OBVIOUS
      <3>2. HIDE DEF bad
      <3>3. QED
        BY <2>1, <3>1, SmallestNumber
    <2>3. n \in Nat /\ ~ \E g : Fills(g, n)
      BY <2>2
    <2>4. n # 0
      <3>1. SUFFICES ASSUME n = 0 PROVE FALSE
        OBVIOUS
      <3>2. PICK g : g = [i \in {0} |-> c]
        OBVIOUS
      <3>3. PICK h : h = [i \in 0 .. 0 |-> IF i = 0 THEN c ELSE JoinedBy(f, g[i - 1], o[i])]
        OBVIOUS
      <3>4. 0 .. 0 = {0}
        OBVIOUS
      <3>5. g = h
        BY <3>2, <3>3, <3>4
      <3>6. QED
        BY <2>3, <3>1, <3>3, <3>5
    <2>5. n - 1 \in Nat /\ n - 1 \notin bad
      <3>1. n - 1 \in Nat /\ ~(n <= n - 1)
        BY <2>3, <2>4
      <3>2. HIDE DEF bad
      <3>3. QED
        BY <2>2, <3>1
    <2>6. PICK g : Fills(g, n - 1)
      BY <2>5
    <2>7. PICK last : last = JoinedBy(f, g[n - 1], o[n])
      OBVIOUS
    <2>8. PICK h : h = [i \in 0 .. n |-> IF i = n THEN last ELSE g[i]]
      OBVIOUS
    <2>9. ASSUME NEW i \in 0 .. n
          PROVE  h[i] = IF i = 0 THEN c ELSE JoinedBy(f, h[i - 1], o[i])
      <3>1. CASE i = n
        <4>1. h[i] = last /\ i - 1 \in 0 .. n /\ i - 1 # n /\ i # 0
          BY <2>3, <2>4, <2>8, <3>1
        <4>2. h[i - 1] = g[n - 1]
          BY <2>8, <3>1, <4>1
        <4>3. QED
          BY <2>7, <3>1, <4>1, <4>2
      <3>2. CASE i # n
        <4>1. i \in 0 .. n - 1 /\ h[i] = g[i]
          BY <2>3, <2>8, <3>2
        <4>2. g[i] = IF i = 0 THEN c ELSE JoinedBy(f, g[i - 1], o[i])
          BY <2>6, <4>1
        <4>3. i # 0 => h[i - 1] = g[i - 1]
          <5>1. i # 0 => i - 1 \in 0 .. n /\ i - 1 # n
            BY <2>3, <4>1
          <5>2. QED
            BY <2>8, <5>1
        <4>4. QED
          BY <4>1, <4>2, <4>3
      <3>3. QED
        BY <3>1, <3>2
    <2>10. Fills(h, n)
      <3>1. PICK k : k = [i \in 0 .. n |-> IF i = 0 THEN c ELSE JoinedBy(f, h[i - 1], o[i])]
        OBVIOUS
      <3>2. \A i \in 0 .. n : h[i] = k[i]
        BY <2>9, <3>1
      <3>3. h = k
        BY <2>8, <3>1, <3>2
      <3>4. QED
        BY <3>1, <3>3
    <2>11. QED
      BY <2>3, <2>10
  <1>3. PICK n \in Nat : n = Len(o)
    OBVIOUS
  <1>4. \E g : Fills(g, n)
    BY <1>2
  <1>5. PICK team : team = CHOOSE g : Fills(g, n)
    OBVIOUS
  <1>6. Fills(team, n)
    <2>1. HIDE DEF Fills
    <2>2. QED
      BY <1>4, <1>5
  <1>7. Filled(f, c, o) = team
    BY <1>3, <1>5 DEF Filled
  <1>8. team[0] = c
    BY <1>6
  <1>9. \A i \in 1 .. n : team[i] = JoinedBy(f, team[i - 1], o[i])
    BY <1>6
  <1>10. HIDE DEF Fills
  <1>11. QED
    BY <1>3, <1>7, <1>8, <1>9

\* Each of the first n orders fills a team, and none of them a larger one than s.
Largest(s, n) == \A k \in 0 .. n - 1 :
    /\ Greedy(k) \in Seq(Tickets)
    /\ Players(Greedy(k)) >= MinPlayer => Players(s) >= Players(Greedy(k))

\* The team being filled is what filling greedily gives so far.
AsGreedy ==
    /\ order = OrderAt(tried - 1)
    /\ Contents(result) = Filled(size, current, order)[at - 1]

\* The best team is as large as that of any order done with, and so is the answer.
GreedyInv ==
    /\ pc = "fill" => AsGreedy /\ Largest(Contents(best), tried - 1)
    /\ pc = "next" => Largest(Contents(best), tried)
    /\ pc = "done" => Largest(answer, tried)

\* An order gives the same team while the input stays.
LEMMA LargestKept ==
    ASSUME UNCHANGED input, NEW s, NEW n
    PROVE  /\ \A k : Players(Greedy(k))' = Players(Greedy(k))
           /\ Players(s)' = Players(s)
           /\ Largest(s, n)' <=> Largest(s, n)
  <1>1. \A k : OrderAt(k)' = OrderAt(k)
    BY DEF OrderAt
  <1>2. size' = size /\ current' = current
    BY DEF input
  <1>3. \A q : Players(q)' = Players(q)
    BY <1>2 DEF Players, PlayersBy
  <1>4. \A k : Greedy(k)' = Greedy(k)
    BY <1>2 DEF Greedy, OrderAt
  <1>5. \A k : Players(Greedy(k))' = Players(Greedy(k))
    BY <1>2 DEF Greedy, Players, OrderAt
  <1>6. QED
    BY <1>3, <1>4, <1>5 DEF Largest

\* One order more is done with.
LEMMA LargestMore ==
    ASSUME NEW s, NEW n \in Nat, Largest(s, n), Greedy(n) \in Seq(Tickets),
           Players(Greedy(n)) >= MinPlayer => Players(s) >= Players(Greedy(n))
    PROVE  Largest(s, n + 1)
  <1>1. \A k \in 0 .. n + 1 - 1 : k \in 0 .. n - 1 \/ k = n
    OBVIOUS
  <1>2. QED
    BY <1>1 DEF Largest

\* At first no order has been tried.
LEMMA GreedyInit == Init => GreedyInv
  <1>a. Init => pc = "next" /\ tried = 0
    BY Zenon DEF Init
  <1>1. SUFFICES ASSUME Init PROVE Largest(Contents(best), tried)
    BY <1>a DEF GreedyInv
  <1>2. tried = 0
    BY <1>1, <1>a
  <1>3. 0 .. 0 - 1 = {}
    OBVIOUS
  <1>4. QED
    BY <1>2, <1>3 DEF Largest

\* A new order starts from the team the call came with.
LEMMA NextOrderGreedy ==
    ASSUME TypeInv, GreedyInv, NextOrder
    PROVE  GreedyInv'
  <1>1. /\ tried \in Nat /\ loops \in Nat \ {0} /\ tried < OrderCount /\ pc = "next"
        /\ order' = OrderAt(tried) /\ tried' = tried + 1 /\ result' = Start
        /\ at' = 1 /\ pc' = "fill" /\ UNCHANGED <<input, backing, best, answer>>
    BY InputType DEF NextOrder, TypeInv, Shape
  <1>2. Contents(Start) = current
    BY StartContents DEF TypeInv, Shape
  <1>3. size' = size /\ current' = current /\ backing' = backing /\ best' = best
    BY <1>1 DEF input
  <1>4. Contents(result)' = current /\ Contents(best)' = Contents(best)
    BY <1>1, <1>2, <1>3 DEF Contents
  <1>5. order' \in Seq(ToSet(Source))
    BY <1>1, OrderType
  <1>6. Len(order') \in Nat
    BY <1>5, LenProperties
  <1>7. PICK o : o = order'
    OBVIOUS
  <1>8. Filled(size, current, o)[0] = current
    BY <1>6, <1>7, FilledSteps
  <1>9. tried + 1 - 1 = tried /\ 1 - 1 = 0
    BY <1>1
  <1>10. Contents(result)' = Filled(size, current, order)'[at' - 1]
    <2>1. Filled(size, current, order)' = Filled(size, current, o)
      BY <1>3, <1>7
    <2>2. QED
      BY <1>1, <1>4, <1>8, <1>9, <2>1
  <1>11. Largest(Contents(best), tried - 1)'
    <2>1. PICK y : y = Contents(best)
      OBVIOUS
    <2>2. Largest(y, tried)
      BY <1>1, <2>1 DEF GreedyInv
    <2>3. PICK n : n = tried
      OBVIOUS
    <2>4. Largest(y, n)'
      BY <1>1, <2>2, <2>3, LargestKept
    <2>5. Contents(best)' = y /\ tried' - 1 = n
      BY <1>1, <1>4, <1>9, <2>1, <2>3
    <2>6. QED
      BY <2>4, <2>5
  <1>12. order' = OrderAt(tried - 1)'
    <2>1. OrderAt(tried - 1)' = OrderAt(tried' - 1)
      BY DEF OrderAt
    <2>2. QED
      BY <1>1, <1>9, <2>1
  <1>13. AsGreedy'
    BY <1>10, <1>12 DEF AsGreedy
  <1>14. QED
    BY <1>1, <1>11, <1>13 DEF GreedyInv

\* The team being filled takes or leaves a ticket as filling greedily does.
LEMMA ConsiderGreedy ==
    ASSUME TypeInv, BestInv, GreedyInv, Consider
    PROVE  GreedyInv'
  <1>1. /\ pc = "fill" /\ pc' = pc /\ at <= Len(order) /\ at' = at + 1
        /\ size' = size /\ current' = current /\ tried' = tried /\ order' = order
        /\ UNCHANGED input
    BY DEF Consider, input
  <1>2. /\ Contents(result)' = JoinedBy(size, Contents(result), order[at])
        /\ Contents(best)' = Contents(best)
    BY ConsiderInv
  <1>3. Len(order) \in Nat /\ at \in 1 .. Len(order)
    BY <1>1, LenProperties DEF TypeInv, FillInv
  <1>4. PICK o : o = order
    OBVIOUS
  <1>5. Contents(result) = Filled(size, current, o)[at - 1]
    BY <1>1, <1>4 DEF GreedyInv, AsGreedy
  <1>6. Filled(size, current, o)[at] = JoinedBy(size, Filled(size, current, o)[at - 1], o[at])
    BY <1>3, <1>4, FilledSteps
  <1>7. Contents(result)' = Filled(size, current, o)[at]
    BY <1>2, <1>4, <1>5, <1>6
  <1>8. at' - 1 = at
    BY <1>1, <1>3
  <1>9. Contents(result)' = Filled(size, current, order)'[at' - 1]
    <2>1. Filled(size, current, order)' = Filled(size, current, o)
      BY <1>1, <1>4
    <2>2. QED
      BY <1>7, <1>8, <2>1
  <1>10. Largest(Contents(best), tried - 1)'
    <2>1. PICK y, n : y = Contents(best) /\ n = tried - 1
      OBVIOUS
    <2>2. Largest(y, n)
      BY <1>1, <2>1 DEF GreedyInv
    <2>3. Largest(y, n)'
      BY <1>1, <2>2, LargestKept
    <2>4. Contents(best)' = y /\ tried' - 1 = n
      BY <1>1, <1>2, <2>1
    <2>5. QED
      BY <2>3, <2>4
  <1>11. order' = OrderAt(tried - 1)'
    <2>1. OrderAt(tried - 1)' = OrderAt(tried' - 1)
      BY DEF OrderAt
    <2>2. order = OrderAt(tried - 1)
      BY <1>1 DEF GreedyInv, AsGreedy
    <2>3. QED
      BY <1>1, <2>1, <2>2
  <1>12. AsGreedy'
    BY <1>9, <1>11 DEF AsGreedy
  <1>13. QED
    BY <1>1, <1>10, <1>12 DEF GreedyInv

\* At its end an order has filled the team that filling greedily gives: it is the
\* answer if it is full, and no larger than the best one otherwise.
LEMMA OrderEndsGreedy ==
    ASSUME TypeInv, BestInv, GreedyInv, OrderEnds
    PROVE  GreedyInv'
  <1>1. /\ pc = "fill" /\ pc' \in {"next", "done"} /\ best' = IF IsBetter THEN result ELSE best
        /\ backing' = backing /\ tried' = tried /\ UNCHANGED input /\ at > Len(order)
    BY DEF OrderEnds
  <1>2. PICK x \in Seq(Tickets), y \in Seq(Tickets), n \in Nat :
           /\ x = Contents(result) /\ y = Contents(best) /\ n = tried - 1 /\ tried = n + 1
           /\ Team(x) /\ Team(y)
    <2>1. tried - 1 \in Nat /\ tried = tried - 1 + 1
      BY <1>1 DEF TypeInv, Shape, FillInv
    <2>2. Team(Contents(result)) /\ Team(Contents(best))
      BY <1>1 DEF TypeInv, FillInv, BestInv, Legal
    <2>3. QED
      BY <2>1, <2>2 DEF Team
  <1>3. PICK a \in Nat, b \in Nat, mn \in Nat, mx \in Nat :
           /\ a = Players(x) /\ b = Players(y) /\ mn = MinPlayer /\ mx = MaxPlayer
           /\ a <= mx /\ b <= mx /\ mn <= mx
    <2>1. Players(x) \in Nat /\ Players(y) \in Nat
      BY SizesType DEF TypeInv, Shape
    <2>2. Players(x) <= MaxPlayer /\ Players(y) <= MaxPlayer
      BY <1>2 DEF Team
    <2>3. QED
      BY <2>1, <2>2, Basics
  <1>4. Greedy(n) = x
    <2>1. Len(order) \in Nat /\ at \in 1 .. Len(order) + 1
      BY LenProperties DEF TypeInv, FillInv
    <2>2. at - 1 = Len(order)
      BY <1>1, <2>1
    <2>3. order = OrderAt(n) /\ x = Filled(size, current, order)[at - 1]
      BY <1>1, <1>2 DEF GreedyInv, AsGreedy
    <2>4. QED
      BY <2>2, <2>3 DEF Greedy
  <1>5. Largest(y, n)
    BY <1>1, <1>2 DEF GreedyInv
  <1>6. IsBetter <=> a >= mn /\ a <= mx /\ a > b
    BY <1>2, <1>3 DEF IsBetter
  <1>7. PICK z : z = IF IsBetter THEN x ELSE y
    OBVIOUS
  <1>8. Contents(best)' = z
    BY <1>1, <1>2, <1>7 DEF Contents
  <1>9. Players(z) >= b /\ (a >= mn => Players(z) >= a)
    BY <1>3, <1>6, <1>7
  <1>10. Largest(z, n + 1)
    <2>1. Largest(z, n)
      <3>a. \A k \in 0 .. n - 1 : Greedy(k) \in Seq(Tickets)
        BY <1>5 DEF Largest
      <3>1. SUFFICES ASSUME NEW k \in 0 .. n - 1, Players(Greedy(k)) >= MinPlayer
                     PROVE  Players(z) >= Players(Greedy(k))
        BY <3>a DEF Largest
      <3>2. b >= Players(Greedy(k))
        <4>1. Players(y) >= Players(Greedy(k))
          BY <1>5, <3>1, Zenon DEF Largest
        <4>2. QED
          BY <1>3, <4>1
      <3>4. CASE z = y
        BY <1>3, <3>2, <3>4
      <3>5. CASE z # y
        <4>1. z = x /\ IsBetter /\ a > b
          BY <1>6, <1>7, <3>5
        <4>2. Players(Greedy(k)) \in Nat
          BY <1>5, SizesType DEF Largest, TypeInv, Shape
        <4>3. QED
          BY <1>3, <3>2, <4>1, <4>2
      <3>6. QED
        BY <3>4, <3>5
    <2>2. QED
      BY <1>2, <1>3, <1>4, <1>9, <2>1, LargestMore
  <1>11. Largest(z, n + 1)'
    <2>1. PICK m : m = n + 1
      OBVIOUS
    <2>2. Largest(z, m)'
      BY <1>1, <1>10, <2>1, LargestKept
    <2>3. QED
      BY <2>1, <2>2
  <1>12. CASE Players(x) = MaxPlayer
    <2>1. answer' = x /\ pc' = "done"
      BY <1>2, <1>12 DEF OrderEnds
    <2>2. z = x \/ Players(z) = Players(x)
      BY <1>3, <1>6, <1>7, <1>12
    <2>3. Largest(x, n + 1)
      BY <1>10, <2>2 DEF Largest
    <2>4. PICK m : m = n + 1
      OBVIOUS
    <2>5. Largest(x, m)'
      BY <1>1, <2>3, <2>4, LargestKept
    <2>6. Largest(answer, tried)'
      BY <1>1, <1>2, <2>1, <2>4, <2>5
    <2>7. QED
      BY <2>1, <2>6 DEF GreedyInv
  <1>13. CASE Players(x) # MaxPlayer
    <2>1. pc' = "next"
      BY <1>2, <1>13 DEF OrderEnds
    <2>2. Largest(Contents(best), tried)'
      BY <1>1, <1>2, <1>8, <1>11
    <2>3. QED
      BY <2>1, <2>2 DEF GreedyInv
  <1>14. QED
    BY <1>12, <1>13

\* The best team is answered when no order is left.
LEMMA ReturnBestGreedy ==
    ASSUME GreedyInv, ReturnBest
    PROVE  GreedyInv'
  <1>1. pc = "next" /\ pc' = "done" /\ answer' = Contents(best) /\ tried' = tried /\ UNCHANGED input
    BY DEF ReturnBest
  <1>2. PICK y, n : y = Contents(best) /\ n = tried
    OBVIOUS
  <1>3. Largest(y, n)'
    BY <1>1, <1>2, LargestKept DEF GreedyInv
  <1>4. Largest(answer, tried)'
    BY <1>1, <1>2, <1>3
  <1>5. QED
    BY <1>1, <1>4 DEF GreedyInv

\* A call that is over changes nothing.
LEMMA StutterGreedy ==
    ASSUME GreedyInv, UNCHANGED vars
    PROVE  GreedyInv'
  <1>1. /\ UNCHANGED input /\ answer' = answer /\ pc' = pc /\ tried' = tried
        /\ order' = order /\ at' = at /\ size' = size /\ current' = current
        /\ backing' = backing /\ result' = result /\ best' = best
    BY DEF vars, input
  <1>2. PICK y, a, n, m : y = Contents(best) /\ a = answer /\ n = tried /\ m = tried - 1
    OBVIOUS
  <1>3. Contents(best)' = y /\ Contents(result)' = Contents(result)
    BY <1>1, <1>2 DEF Contents
  <1>4. AsGreedy' <=> AsGreedy
    <2>1. OrderAt(tried - 1)' = OrderAt(tried' - 1)
      BY DEF OrderAt
    <2>2. QED
      BY <1>1, <1>3, <2>1 DEF AsGreedy
  <1>5. /\ Largest(y, m)' <=> Largest(y, m)
        /\ Largest(y, n)' <=> Largest(y, n)
        /\ Largest(a, n)' <=> Largest(a, n)
    BY <1>1, LargestKept
  <1>6. /\ Largest(Contents(best), tried - 1)' <=> Largest(Contents(best), tried - 1)
        /\ Largest(Contents(best), tried)' <=> Largest(Contents(best), tried)
        /\ Largest(answer, tried)' <=> Largest(answer, tried)
    BY <1>1, <1>2, <1>3, <1>5
  <1>7. QED
    BY <1>1, <1>4, <1>6 DEF GreedyInv

\* No step breaks this invariant either.
LEMMA NextGreedy ==
    ASSUME IInv, GreedyInv, [Next]_vars
    PROVE  GreedyInv'
  <1>1. TypeInv /\ BestInv
    BY DEF IInv
  <1>2. CASE NextOrder
    BY <1>1, <1>2, NextOrderGreedy
  <1>3. CASE Consider
    BY <1>1, <1>3, ConsiderGreedy
  <1>4. CASE OrderEnds
    BY <1>1, <1>4, OrderEndsGreedy
  <1>5. CASE ReturnBest
    BY <1>5, ReturnBestGreedy
  <1>6. CASE Finished
    BY <1>6, StutterGreedy DEF Finished
  <1>7. CASE UNCHANGED vars
    BY <1>7, StutterGreedy
  <1>8. QED
    BY <1>2, <1>3, <1>4, <1>5, <1>6, <1>7 DEF Next

-----------------------------------------------------------------------------
(* The theorems.                                                           *)

\* What the invariant says of the types: the slices hold tickets only, and the
\* reading position stays in the order (partyfinder_normal.go:31-66).
LEMMA TypeInvTypes == TypeInv => TypeOK
  <1> SUFFICES ASSUME TypeInv PROVE TypeOK
    OBVIOUS
  <1>1. ToSet(backing) \subseteq Tickets \cup {None}
    BY ToSetType DEF TypeInv, Shape, Arrays
  <1>2. None \notin ToSet(Contents(result)) \cup ToSet(Contents(best))
    <2>1. PICK b \in Arrays, r \in Slice, o \in Slice :
              /\ b = backing /\ r = result /\ o = best /\ Written(b, r) /\ Written(b, o)
      BY DEF TypeInv, Shape
    <2>2. Within(b, r) \in Seq(Tickets) /\ Within(b, o) \in Seq(Tickets)
      BY <2>1, SliceContents
    <2>3. ToSet(Within(b, r)) \subseteq Tickets /\ ToSet(Within(b, o)) \subseteq Tickets
      BY <2>2, ToSetType
    <2>4. Within(b, r) = Contents(result) /\ Within(b, o) = Contents(best)
      BY <2>1 DEF Within, Contents
    <2>5. QED
      BY <2>3, <2>4, Basics
  <1>3. at \in 1 .. Len(Source) + 1
    <2>1. Len(order) \in Nat /\ Len(Source) \in Nat /\ Len(order) <= Len(Source)
          /\ at \in 1 .. Len(order) + 1
      BY Basics, LenProperties DEF TypeInv, FillInv
    <2>2. QED
      BY <2>1
  <1>4. QED
    BY <1>1, <1>2, <1>3 DEF TypeInv, Shape, TypeOK

\* The party finder keeps tickets in its slices, never a place of the array that
\* nothing was written to (partyfinder_normal.go:31-66).
THEOREM TypeCorrect == Spec => []TypeOK
  <1>1. Init => TypeInv
    BY InitInv
  <1>2. TypeInv /\ [Next]_vars => TypeInv'
    BY NextInv
  <1>3. TypeInv => TypeOK
    BY TypeInvTypes
  <1>4. QED
    BY <1>1, <1>2, <1>3, PTL DEF Spec

\* When the slices cannot overwrite each other, the best team stays one that may
\* be answered.
LEMMA Invariance ==
    ASSUME OneOwner
    PROVE  Spec => []IInv
  <1>1. Init => IInv
    BY InitInv DEF IInv
  <1>2. IInv /\ [Next]_vars => IInv'
    BY NextInv DEF IInv
  <1>3. QED
    BY <1>1, <1>2, PTL DEF Spec

\* When the slices cannot overwrite each other, the answer is the team to start
\* from with further tickets, each once, with no more players than allowed, and
\* enough of them (matchplayer.go:700-729).
THEOREM LegalAnswer ==
    ASSUME OneOwner
    PROVE  Spec => []LegalTeam
  <1>1. IInv => LegalTeam
    BY DEF IInv, AnswerInv, Legal, Team, LegalTeam
  <1>2. QED
    BY <1>1, Invariance, PTL

\* Under the same condition nobody is answered together with a player they
\* blocked (matchplayer.go:702-709).
THEOREM BlocksKept ==
    ASSUME OneOwner
    PROVE  Spec => []NoBlockedInTeam
  <1>1. IInv => NoBlockedInTeam
    BY DEF IInv, AnswerInv, Legal, Team, NoBlockedInTeam
  <1>2. QED
    BY <1>1, Invariance, PTL

\* Under the same condition none of the orders tried fills a larger team than the
\* answer, if it fills one that is large enough (partyfinder.go:35-37).
THEOREM BestAnswer ==
    ASSUME OneOwner
    PROVE  Spec => []BestOfTried
  <1>1. Init => GreedyInv
    BY GreedyInit
  <1>2. IInv /\ GreedyInv /\ [Next]_vars => GreedyInv'
    BY NextGreedy
  <1>3. GreedyInv => BestOfTried
    BY DEF GreedyInv, Largest, BestOfTried
  <1>4. QED
    BY <1>1, <1>2, <1>3, Invariance, PTL DEF Spec
=============================================================================
