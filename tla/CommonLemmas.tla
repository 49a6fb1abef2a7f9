----------------------------- MODULE CommonLemmas -----------------------------
(***************************************************************************)
(* Lemmas about what the proofs on matching keep needing: queues and teams *)
(* as sequences without repetitions, the orders of the reorder tool, the   *)
(* players of a set of requests, smallest numbers, flexed rules, and the   *)
(* regions within reach.                                                   *)
(***************************************************************************)
EXTENDS RegionSearch, Orders, RuleFlexing, RuleValidation, TLAPS, SequenceTheorems, FiniteSetTheorems

-----------------------------------------------------------------------------
(* Sequences and their elements.                                           *)

\* The elements of a sequence over S are in S, and finitely many.
LEMMA ToSetType ==
    ASSUME NEW S, NEW s \in Seq(S)
    PROVE  /\ ToSet(s) \subseteq S
           /\ IsFiniteSet(ToSet(s))
           /\ s \in Seq(ToSet(s))
           /\ Len(s) \in Nat /\ DOMAIN s = 1 .. Len(s)
  <1>1. Len(s) \in Nat /\ DOMAIN s = 1 .. Len(s) /\ s \in [1 .. Len(s) -> S]
    BY LenProperties
  <1>2. s \in [1 .. Len(s) -> ToSet(s)]
    BY <1>1 DEF ToSet
  <1>3. s \in Surjection(1 .. Len(s), ToSet(s))
    BY <1>1, <1>2 DEF Surjection, ToSet
  <1>4. IsFiniteSet(ToSet(s))
    BY <1>1, <1>3, FS_Interval, FS_Surjection
  <1>5. s \in Seq(ToSet(s))
    BY <1>1, <1>2
  <1>6. QED
    BY <1>1, <1>4, <1>5 DEF ToSet

\* The empty sequence has no elements and no repetitions.
LEMMA ToSetEmpty == ToSet(<<>>) = {} /\ IsInjective(<<>>) /\ \A S : <<>> \in Seq(S)
  BY DEF ToSet, IsInjective

\* Appending a value adds it to the elements.
LEMMA ToSetAppend ==
    ASSUME NEW S, NEW s \in Seq(S), NEW x \in S
    PROVE  /\ Append(s, x) \in Seq(S)
           /\ ToSet(Append(s, x)) = ToSet(s) \cup {x}
           /\ Len(Append(s, x)) = Len(s) + 1
           /\ \A i \in DOMAIN s : Append(s, x)[i] = s[i]
           /\ Append(s, x)[Len(s) + 1] = x
           /\ DOMAIN Append(s, x) = DOMAIN s \cup {Len(s) + 1}
  <1>1. /\ Len(s) \in Nat /\ DOMAIN s = 1 .. Len(s)
        /\ Append(s, x) \in Seq(S)
        /\ Len(Append(s, x)) = Len(s) + 1
        /\ DOMAIN Append(s, x) = 1 .. Len(s) + 1
        /\ \A i \in 1 .. Len(s) : Append(s, x)[i] = s[i]
        /\ Append(s, x)[Len(s) + 1] = x
    OBVIOUS
  <1>2. DOMAIN Append(s, x) = DOMAIN s \cup {Len(s) + 1}
    BY <1>1
  <1>3. ToSet(Append(s, x)) = ToSet(s) \cup {x}
    BY <1>1, <1>2 DEF ToSet
  <1>4. QED
    BY <1>1, <1>2, <1>3

\* Whatever a list has, a value can be appended to it.
LEMMA AppendAny ==
    ASSUME NEW s, s \in Seq(ToSet(s)), NEW x
    PROVE  /\ Append(s, x) \in Seq(ToSet(Append(s, x)))
           /\ ToSet(Append(s, x)) = ToSet(s) \cup {x}
           /\ Len(s) \in Nat /\ Len(Append(s, x)) = Len(s) + 1
           /\ DOMAIN s = 1 .. Len(s) /\ DOMAIN Append(s, x) = 1 .. Len(s) + 1
           /\ \A i \in 1 .. Len(s) : Append(s, x)[i] = s[i]
           /\ Append(s, x)[Len(s) + 1] = x
  <1>1. s \in Seq(ToSet(s) \cup {x})
    BY SeqMonotonic
  <1>2. QED
    BY <1>1, ToSetType, ToSetAppend

\* Appending a value that is not there yet makes no repetition.
LEMMA InjectiveAppend ==
    ASSUME NEW S, NEW s \in Seq(S), NEW x \in S, x \notin ToSet(s), IsInjective(s)
    PROVE  IsInjective(Append(s, x))
  <1>1. \A i \in DOMAIN s : s[i] # x
    BY DEF ToSet
  <1>2. QED
    BY <1>1, ToSetAppend, ToSetType DEF IsInjective

\* The head of a sequence without repetitions is not in its tail.
LEMMA InjectiveTail ==
    ASSUME NEW S, NEW s \in Seq(S), s # <<>>, IsInjective(s)
    PROVE  /\ Head(s) \in ToSet(s)
           /\ Tail(s) \in Seq(S)
           /\ IsInjective(Tail(s))
           /\ ToSet(Tail(s)) = ToSet(s) \ {Head(s)}
  <1>1. /\ Tail(s) \in Seq(S)
        /\ Len(s) \in Nat \ {0} /\ DOMAIN s = 1 .. Len(s)
        /\ DOMAIN Tail(s) = 1 .. Len(s) - 1
        /\ Head(s) = s[1]
        /\ \A i \in 1 .. Len(s) - 1 : Tail(s)[i] = s[i + 1]
    BY EmptySeq, HeadTailProperties, LenProperties
  <1>2. Head(s) \in ToSet(s)
    BY <1>1 DEF ToSet
  <1>3. IsInjective(Tail(s))
    BY <1>1 DEF IsInjective
  <1>4. \A e \in ToSet(Tail(s)) : e \in ToSet(s) /\ e # Head(s)
    BY <1>1 DEF ToSet, IsInjective
  <1>5. ASSUME NEW e \in ToSet(s), e # Head(s)
        PROVE  e \in ToSet(Tail(s))
    <2>1. PICK i \in 1 .. Len(s) : e = s[i]
      BY <1>1 DEF ToSet
    <2>2. i - 1 \in 1 .. Len(s) - 1 /\ Tail(s)[i - 1] = s[i]
      BY <1>1, <1>5, <2>1
    <2>3. QED
      BY <1>1, <2>1, <2>2 DEF ToSet
  <1>6. QED
    BY <1>1, <1>2, <1>3, <1>4, <1>5

\* SetToSeqs gives every element of a finite set once.
LEMMA SetToSeqsProperties ==
    ASSUME NEW S, IsFiniteSet(S), NEW q \in SetToSeqs(S)
    PROVE  q \in Seq(S) /\ IsInjective(q) /\ ToSet(q) = S
  <1>1. Cardinality(S) \in Nat
    BY FS_CardinalityType
  <1>2. /\ q \in [1 .. Cardinality(S) -> S]
        /\ \A i, j \in 1 .. Cardinality(S) : i # j => q[i] # q[j]
    BY DEF SetToSeqs
  <1>3. q \in Seq(S) /\ IsInjective(q)
    BY <1>1, <1>2 DEF IsInjective
  <1>4. q \in Injection(1 .. Cardinality(S), S)
    BY <1>2, <1>3 DEF Injection
  <1>5. Cardinality(1 .. Cardinality(S)) = Cardinality(S)
    BY <1>1, FS_Interval
  <1>6. q \in Surjection(1 .. Cardinality(S), S)
    BY <1>4, <1>5, FS_Injection
  <1>7. QED
    BY <1>2, <1>3, <1>6 DEF Surjection, ToSet

\* And it gives every such sequence.
LEMMA SetToSeqsComplete ==
    ASSUME NEW S, NEW q \in Seq(S), IsInjective(q), ToSet(q) = S
    PROVE  IsFiniteSet(S) /\ q \in SetToSeqs(S) /\ Len(q) = Cardinality(S)
  <1>1. Len(q) \in Nat /\ DOMAIN q = 1 .. Len(q) /\ q \in [1 .. Len(q) -> S]
    BY LenProperties
  <1>2. q \in Bijection(1 .. Len(q), S)
    BY <1>1 DEF Bijection, Injection, Surjection, IsInjective, ToSet
  <1>3. IsFiniteSet(1 .. Len(q)) /\ Cardinality(1 .. Len(q)) = Len(q)
    BY <1>1, FS_Interval
  <1>4. IsFiniteSet(S) /\ Cardinality(S) = Len(q)
    <2>1. ExistsBijection(1 .. Len(q), S)
      BY <1>2 DEF ExistsBijection
    <2>2. QED
      BY <1>3, <2>1, FS_Bijection
  <1>5. q \in SetToSeqs(S)
    BY <1>1, <1>4 DEF SetToSeqs, IsInjective
  <1>6. QED
    BY <1>4, <1>5

\* The elements of two sequences put together.
LEMMA ToSetConcat ==
    ASSUME NEW S, NEW s \in Seq(S), NEW t \in Seq(S)
    PROVE  s \o t \in Seq(S) /\ ToSet(s \o t) = ToSet(s) \cup ToSet(t)
  <1>1. /\ s \o t \in Seq(S)
        /\ Len(s) \in Nat /\ Len(t) \in Nat
        /\ DOMAIN s = 1 .. Len(s) /\ DOMAIN t = 1 .. Len(t)
        /\ DOMAIN (s \o t) = 1 .. Len(s) + Len(t)
        /\ \A i \in 1 .. Len(s) + Len(t) :
              (s \o t)[i] = IF i <= Len(s) THEN s[i] ELSE t[i - Len(s)]
    BY ConcatProperties, LenProperties
  <1>2. ToSet(s \o t) \subseteq ToSet(s) \cup ToSet(t)
    <2>1. SUFFICES ASSUME NEW i \in 1 .. Len(s) + Len(t)
                   PROVE  (s \o t)[i] \in ToSet(s) \cup ToSet(t)
      BY <1>1 DEF ToSet
    <2>2. CASE i <= Len(s)
      BY <1>1, <2>2 DEF ToSet
    <2>3. CASE ~(i <= Len(s))
      <3>1. i - Len(s) \in 1 .. Len(t)
        BY <1>1, <2>3
      <3>2. QED
        BY <1>1, <2>3, <3>1 DEF ToSet
    <2>4. QED
      BY <2>2, <2>3
  <1>3. ToSet(s) \subseteq ToSet(s \o t)
    BY <1>1 DEF ToSet
  <1>4. ToSet(t) \subseteq ToSet(s \o t)
    <2>1. SUFFICES ASSUME NEW i \in 1 .. Len(t)
                   PROVE  t[i] \in ToSet(s \o t)
      BY <1>1 DEF ToSet
    <2>2. Len(s) + i \in 1 .. Len(s) + Len(t) /\ (s \o t)[Len(s) + i] = t[i]
      BY <1>1
    <2>3. QED
      BY <1>1, <2>2 DEF ToSet
  <1>5. QED
    BY <1>1, <1>2, <1>3, <1>4

\* Two sequences without repetitions and without a common element, put together.
LEMMA InjectiveConcat ==
    ASSUME NEW S, NEW s \in Seq(S), NEW t \in Seq(S),
           IsInjective(s), IsInjective(t), ToSet(s) \cap ToSet(t) = {}
    PROVE  IsInjective(s \o t)
  <1>1. /\ Len(s) \in Nat /\ Len(t) \in Nat
        /\ DOMAIN s = 1 .. Len(s) /\ DOMAIN t = 1 .. Len(t)
        /\ DOMAIN (s \o t) = 1 .. Len(s) + Len(t)
        /\ \A i \in 1 .. Len(s) + Len(t) :
              (s \o t)[i] = IF i <= Len(s) THEN s[i] ELSE t[i - Len(s)]
    BY ConcatProperties, LenProperties
  <1>2. SUFFICES ASSUME NEW a \in 1 .. Len(s) + Len(t), NEW b \in 1 .. Len(s) + Len(t),
                        (s \o t)[a] = (s \o t)[b]
                 PROVE  a = b
    BY <1>1 DEF IsInjective
  <1>3. \A i \in 1 .. Len(s), j \in 1 .. Len(t) : s[i] # t[j]
    BY <1>1 DEF ToSet
  <1>4. CASE a <= Len(s) /\ b <= Len(s)
    BY <1>1, <1>2, <1>4 DEF IsInjective
  <1>5. CASE a > Len(s) /\ b > Len(s)
    <2>1. a - Len(s) \in DOMAIN t /\ b - Len(s) \in DOMAIN t
      BY <1>1, <1>5
    <2>2. t[a - Len(s)] = t[b - Len(s)]
      BY <1>1, <1>2, <1>5
    <2>3. a - Len(s) = b - Len(s)
      BY <2>1, <2>2 DEF IsInjective
    <2>4. QED
      BY <1>1, <2>3
  <1>6. CASE a <= Len(s) /\ b > Len(s)
    <2>1. a \in 1 .. Len(s) /\ b - Len(s) \in 1 .. Len(t)
      BY <1>1, <1>6
    <2>2. QED
      BY <1>1, <1>2, <1>3, <1>6, <2>1
  <1>7. CASE a > Len(s) /\ b <= Len(s)
    <2>1. b \in 1 .. Len(s) /\ a - Len(s) \in 1 .. Len(t)
      BY <1>1, <1>7
    <2>2. QED
      BY <1>1, <1>2, <1>3, <1>7, <2>1
  <1>8. QED
    BY <1>1, <1>4, <1>5, <1>6, <1>7

\* A function on a finite set has finitely many values.
LEMMA ValuesFinite ==
    ASSUME NEW S, IsFiniteSet(S), NEW f, DOMAIN f = S
    PROVE  IsFiniteSet({f[x] : x \in S})
  <1>1. [x \in S |-> f[x]] \in Surjection(S, {f[x] : x \in S})
    BY DEF Surjection
  <1>2. QED
    BY <1>1, FS_Surjection

-----------------------------------------------------------------------------
(* Requests.                                                               *)

\* A request has the id, the age and the players of its ticket.
LEMMA TicketFields ==
    ASSUME NEW t, IsTicket(t), NEW attributes
    PROVE  LET q == ToMatchRequest(OverTheWire(t), attributes) IN
           /\ q.id = t.id /\ q.createdAt = t.createdAt /\ q.players = t.players
           /\ q.attributes = t.attributes /\ q.latency = SortedLatency(t.latencies)
           /\ q.excluded = {}
  <1>1. PICK w : w = OverTheWire(t)
    OBVIOUS
  <1>2. /\ w.id = t.id /\ w.createdAt = t.createdAt /\ w.players = t.players
        /\ w.attributes = t.attributes /\ w.latencies = t.latencies /\ w.excluded = {}
    BY <1>1 DEF OverTheWire, IsTicket
  <1>3. PICK q : q = ToMatchRequest(w, attributes)
    OBVIOUS
  <1>4. /\ q.id = w.id /\ q.createdAt = w.createdAt /\ q.players = w.players
        /\ q.attributes = w.attributes /\ q.latency = SortedLatency(w.latencies)
        /\ q.excluded = w.excluded
    BY <1>3 DEF ToMatchRequest
  <1>5. QED
    BY <1>1, <1>2, <1>3, <1>4

-----------------------------------------------------------------------------
(* The players of a set of requests.                                       *)

\* As many pairs have a given first element as there are second ones.
LEMMA PairsWith ==
    ASSUME NEW x, NEW S, IsFiniteSet(S)
    PROVE  IsFiniteSet({x} \X S) /\ Cardinality({x} \X S) = Cardinality(S)
  <1>1. PICK A : A = {x}
    OBVIOUS
  <1>2. IsFiniteSet(A) /\ Cardinality(A) = 1
    BY <1>1, FS_Singleton
  <1>3. PICK m \in Nat, n \in Nat : m = Cardinality(A) /\ n = Cardinality(S)
    BY <1>2, FS_CardinalityType
  <1>4. IsFiniteSet(A \X S) /\ Cardinality(A \X S) = Cardinality(A) * Cardinality(S)
    BY <1>2, FS_Product, Zenon
  <1>5. Cardinality(A \X S) = m * n /\ m = 1
    BY <1>2, <1>3, <1>4
  <1>6. QED
    BY <1>1, <1>3, <1>4, <1>5

\* A finite set of finite parties has finitely many players.
LEMMA HeadcountFinite ==
    ASSUME NEW S, IsFiniteSet(S), \A p \in S : IsFiniteSet(DOMAIN p.players)
    PROVE  /\ IsFiniteSet(UNION {{p} \X DOMAIN p.players : p \in S})
           /\ Headcount(S) \in Nat
  <1>1. DEFINE F == [p \in S |-> {p} \X DOMAIN p.players]
               T == {{p} \X DOMAIN p.players : p \in S}
  <1>2. F \in Surjection(S, T)
    BY DEF Surjection
  <1>3. IsFiniteSet(T)
    BY <1>2, FS_Surjection
  <1>4. ASSUME NEW t \in T PROVE IsFiniteSet(t)
    <2>1. PICK p \in S : t = {p} \X DOMAIN p.players
      OBVIOUS
    <2>2. IsFiniteSet({p})
      BY FS_Singleton
    <2>3. QED
      BY <2>1, <2>2, FS_Product
  <1>5. IsFiniteSet(UNION T)
    BY <1>3, <1>4, FS_UNION
  <1>6. QED
    BY <1>5, FS_CardinalityType DEF Headcount

\* Nobody is in no request.
LEMMA HeadcountEmpty == Headcount({}) = 0
  <1>1. UNION {{p} \X DOMAIN p.players : p \in {}} = {}
    OBVIOUS
  <1>2. QED
    BY <1>1, FS_EmptySet DEF Headcount

\* Two sets together have no more players than each of them added up.
LEMMA HeadcountUnion ==
    ASSUME NEW S, IsFiniteSet(S), \A p \in S : IsFiniteSet(DOMAIN p.players),
           NEW T, IsFiniteSet(T), \A p \in T : IsFiniteSet(DOMAIN p.players)
    PROVE  Headcount(S \cup T) <= Headcount(S) + Headcount(T)
  <1>1. DEFINE A == UNION {{p} \X DOMAIN p.players : p \in S}
               B == UNION {{p} \X DOMAIN p.players : p \in T}
  <1>2. IsFiniteSet(A) /\ IsFiniteSet(B)
    BY HeadcountFinite
  <1>3. UNION {{p} \X DOMAIN p.players : p \in S \cup T} = A \cup B
    OBVIOUS
  <1>4. Headcount(S \cup T) = Cardinality(A \cup B)
    BY <1>3 DEF Headcount
  <1>5. /\ Cardinality(A) \in Nat /\ Cardinality(B) \in Nat
        /\ IsFiniteSet(A \cap B)
    BY <1>2, FS_CardinalityType, FS_Intersection
  <1>6. Cardinality(A \cap B) \in Nat
    BY <1>5, FS_CardinalityType
  <1>7. Cardinality(A \cup B) = Cardinality(A) + Cardinality(B) - Cardinality(A \cap B)
    BY <1>2, FS_Union
  <1>8. Headcount(S) = Cardinality(A) /\ Headcount(T) = Cardinality(B)
    BY DEF Headcount
  <1>9. HIDE DEF A, B
  <1>10. QED
    BY <1>4, <1>5, <1>6, <1>7, <1>8

-----------------------------------------------------------------------------
\* A set of natural numbers that is not empty has a smallest one.
LEMMA SmallestNumber ==
    ASSUME NEW T, T \subseteq Nat, T # {}
    PROVE  \E n \in T : \A m \in T : n <= m
  <1>1. DEFINE R == OpToRel(<, Nat)
  <1>2. IsWellFoundedOn(R, Nat)
    BY NatLessThanWellFounded, Zenon
  <1>3. \A m, n \in Nat : m < n => <<m, n>> \in R
    BY Zenon DEF OpToRel
  <1>4. HIDE DEF R
  <1>5. PICK n \in T : \A m \in T : ~ (<<m, n>> \in R)
    BY <1>2, WFMin
  <1>6. \A m \in T : ~ (m < n)
    BY <1>3, <1>5
  <1>7. QED
    BY <1>5, <1>6

\* Some of the first n numbers have a largest one.
LEMMA LargestNumber ==
    ASSUME NEW n \in Nat, NEW T, T \subseteq 1 .. n, T # {}
    PROVE  \E k \in T : \A m \in T : m <= k
  <1>1. DEFINE U == {n - m : m \in T}
  <1>2. U \subseteq Nat /\ U # {}
    <2>1. \A m \in 1 .. n : n - m \in Nat
      OBVIOUS
    <2>2. QED
      BY <2>1
  <1>3. PICK u \in U : \A v \in U : u <= v
    <2>1. HIDE DEF U
    <2>2. QED
      BY <1>2, SmallestNumber
  <1>4. PICK k \in T : u = n - k
    BY <1>3
  <1>5. \A m \in T : n - k <= n - m
    BY <1>3, <1>4
  <1>6. QED
    BY <1>4, <1>5

-----------------------------------------------------------------------------
(* Places of a sequence in increasing order.                               *)

\* Two increasing sequences, one below the other, make an increasing one.
LEMMA IncreasingConcat ==
    ASSUME NEW p \in Seq(Int), NEW q \in Seq(Int),
           \A i, j \in DOMAIN p : i < j => p[i] < p[j],
           \A i, j \in DOMAIN q : i < j => q[i] < q[j],
           \A a \in ToSet(p), b \in ToSet(q) : a < b
    PROVE  \A i, j \in DOMAIN (p \o q) : i < j => (p \o q)[i] < (p \o q)[j]
  <1>1. /\ Len(p) \in Nat /\ Len(q) \in Nat
        /\ DOMAIN p = 1 .. Len(p) /\ DOMAIN q = 1 .. Len(q)
        /\ DOMAIN (p \o q) = 1 .. Len(p) + Len(q)
        /\ \A i \in 1 .. Len(p) + Len(q) :
              (p \o q)[i] = IF i <= Len(p) THEN p[i] ELSE q[i - Len(p)]
    BY ConcatProperties, LenProperties
  <1>2. SUFFICES ASSUME NEW i \in 1 .. Len(p) + Len(q), NEW j \in 1 .. Len(p) + Len(q), i < j
                 PROVE  (p \o q)[i] < (p \o q)[j]
    BY <1>1
  <1>3. CASE j <= Len(p)
    <2>1. i \in DOMAIN p /\ j \in DOMAIN p
      BY <1>1, <1>2, <1>3
    <2>2. (p \o q)[i] = p[i] /\ (p \o q)[j] = p[j]
      BY <1>1, <1>2, <1>3
    <2>3. QED
      BY <1>2, <2>1, <2>2
  <1>4. CASE i <= Len(p) /\ ~(j <= Len(p))
    <2>1. i \in DOMAIN p /\ j - Len(p) \in DOMAIN q
      BY <1>1, <1>2, <1>4
    <2>2. (p \o q)[i] = p[i] /\ (p \o q)[j] = q[j - Len(p)]
      BY <1>1, <1>2, <1>4
    <2>3. p[i] \in ToSet(p) /\ q[j - Len(p)] \in ToSet(q)
      BY <2>1 DEF ToSet
    <2>4. QED
      BY <2>2, <2>3
  <1>5. CASE ~(i <= Len(p))
    <2>1. i - Len(p) \in DOMAIN q /\ j - Len(p) \in DOMAIN q /\ i - Len(p) < j - Len(p)
      BY <1>1, <1>2, <1>5
    <2>2. (p \o q)[i] = q[i - Len(p)] /\ (p \o q)[j] = q[j - Len(p)]
      BY <1>1, <1>2, <1>5
    <2>3. QED
      BY <2>1, <2>2
  <1>6. QED
    BY <1>3, <1>4, <1>5

\* Some numbers can be put in increasing order: those below one of them, that one,
\* and those above.
LEMMA SortedExists ==
    ASSUME NEW T, IsFiniteSet(T), T \subseteq Int
    PROVE  \E p \in SetToSeqs(T) : \A i, j \in DOMAIN p : i < j => p[i] < p[j]
  <1>1. DEFINE Sorted(p) == \A i, j \in DOMAIN p : i < j => p[i] < p[j]
               Good(A) == \E p \in Seq(Int) : IsInjective(p) /\ ToSet(p) = A /\ Sorted(p)
               bad == {m \in Nat : \E A \in SUBSET Int : IsFiniteSet(A) /\ Cardinality(A) = m /\ ~Good(A)}
  <1>2. \A m \in Nat : m \notin bad
    <2>1. SUFFICES ASSUME bad # {} PROVE FALSE
      OBVIOUS
    <2>2. PICK m \in bad : \A k \in bad : m <= k
      <3>1. bad \subseteq Nat
        OBVIOUS
      <3>2. HIDE DEF bad
      <3>3. QED
        BY <2>1, <3>1, SmallestNumber
    <2>3. PICK A \in SUBSET Int : IsFiniteSet(A) /\ Cardinality(A) = m /\ ~Good(A)
      <3>1. HIDE DEF Good
      <3>2. QED
        BY <2>2
    <2>4. ASSUME NEW B \in SUBSET A, B # A PROVE Good(B)
      <3>1. HIDE DEF Good
      <3>2. IsFiniteSet(B) /\ Cardinality(B) \in Nat /\ Cardinality(B) < m
        <4>1. m \in Nat /\ IsFiniteSet(A) /\ Cardinality(A) = m
          BY <2>2, <2>3
        <4>2. IsFiniteSet(B) /\ Cardinality(B) <= m /\ Cardinality(B) # m
          BY <2>4, <4>1, FS_Subset
        <4>3. Cardinality(B) \in Nat
          BY <4>2, FS_CardinalityType
        <4>4. QED
          BY <4>1, <4>2, <4>3
      <3>3. Cardinality(B) \notin bad
        <4>1. m \in Nat
          BY <2>2
        <4>2. ~(m <= Cardinality(B))
          BY <3>2, <4>1
        <4>3. HIDE DEF bad
        <4>4. QED
          BY <2>2, <4>2
      <3>4. QED
        BY <2>3, <3>2, <3>3
    <2>5. CASE A = {}
      <3>1. <<>> \in Seq(Int) /\ IsInjective(<<>>) /\ ToSet(<<>>) = {} /\ Sorted(<<>>)
        BY ToSetEmpty
      <3>2. QED
        BY <2>3, <2>5, <3>1
    <2>6. CASE A # {}
      <3>1. PICK x \in A : x \in Int
        BY <2>3, <2>6
      <3>2. DEFINE low == {a \in A : a < x}
                   high == {a \in A : x < a}
      <3>3. low \in SUBSET A /\ high \in SUBSET A /\ low # A /\ high # A
        BY <3>1
      <3>4. PICK p \in Seq(Int) : IsInjective(p) /\ ToSet(p) = low /\ Sorted(p)
        <4>1. HIDE DEF low, high, Sorted
        <4>2. QED
          BY <2>4, <3>3
      <3>5. PICK q \in Seq(Int) : IsInjective(q) /\ ToSet(q) = high /\ Sorted(q)
        <4>1. HIDE DEF low, high, Sorted
        <4>2. QED
          BY <2>4, <3>3
      <3>6. PICK one \in Seq(Int) : /\ IsInjective(one) /\ ToSet(one) = {x}
                                    /\ \A i, j \in DOMAIN one : ~(i < j)
        <4>1. /\ <<x>> \in Seq(Int) /\ IsInjective(<<x>>) /\ ToSet(<<x>>) = {x}
              /\ \A i, j \in DOMAIN <<x>> : ~(i < j)
          BY <3>1 DEF IsInjective, ToSet
        <4>2. QED
          BY <4>1
      <3>7. PICK r : r = p \o one
        OBVIOUS
      <3>8. /\ r \in Seq(Int) /\ ToSet(r) = low \cup {x} /\ IsInjective(r)
        <4>1. ToSet(p) \cap ToSet(one) = {}
          BY <3>1, <3>4, <3>6
        <4>2. HIDE DEF low
        <4>3. r \in Seq(Int) /\ ToSet(r) = ToSet(p) \cup ToSet(one)
          BY <3>6, <3>7, ToSetConcat
        <4>4. IsInjective(r)
          BY <3>4, <3>6, <3>7, <4>1, InjectiveConcat
        <4>5. QED
          BY <3>4, <3>6, <4>3, <4>4
      <3>9. Sorted(r)
        <4>1. \A a \in ToSet(p), b \in ToSet(one) : a < b
          BY <3>4, <3>6
        <4>2. HIDE DEF low
        <4>3. QED
          BY <3>4, <3>6, <3>7, <4>1, IncreasingConcat
      <3>10. PICK t : t = r \o q
        OBVIOUS
      <3>11. t \in Seq(Int) /\ ToSet(t) = (low \cup {x}) \cup high /\ IsInjective(t)
        <4>1. ToSet(r) \cap ToSet(q) = {}
          <5>1. \A a \in ToSet(r) : a \in Int /\ a <= x
            BY <3>1, <3>8, ToSetType
          <5>2. \A a \in ToSet(q) : a \in Int /\ x < a
            BY <3>5, ToSetType
          <5>3. QED
            BY <3>1, <5>1, <5>2
        <4>2. HIDE DEF low, high
        <4>3. QED
          BY <3>5, <3>8, <3>10, <4>1, ToSetConcat, InjectiveConcat
      <3>12. Sorted(t)
        <4>1. \A a \in ToSet(r), b \in ToSet(q) : a < b
          <5>1. \A a \in ToSet(r) : a \in Int /\ a <= x
            BY <3>1, <3>8, ToSetType
          <5>2. \A a \in ToSet(q) : a \in Int /\ x < a
            BY <3>5, ToSetType
          <5>3. QED
            BY <3>1, <5>1, <5>2
        <4>2. HIDE DEF low, high
        <4>3. QED
          BY <3>5, <3>8, <3>9, <3>10, <4>1, IncreasingConcat
      <3>13. (low \cup {x}) \cup high = A
        <4>1. \A a \in A : a \in Int /\ (a < x \/ a = x \/ x < a)
          BY <2>3, <3>1
        <4>2. QED
          BY <3>1, <4>1
      <3>14. QED
        BY <2>3, <3>11, <3>12, <3>13
    <2>7. QED
      BY <2>5, <2>6
  <1>3. Good(T)
    <2>1. Cardinality(T) \in Nat /\ Cardinality(T) \notin bad
      BY <1>2, FS_CardinalityType
    <2>2. HIDE DEF Good
    <2>3. QED
      BY <2>1
  <1>4. PICK p \in Seq(Int) : IsInjective(p) /\ ToSet(p) = T /\ Sorted(p)
    BY <1>3
  <1>5. p \in Seq(T)
    BY <1>4, ToSetType
  <1>6. p \in SetToSeqs(T)
    BY <1>4, <1>5, SetToSeqsComplete
  <1>7. QED
    BY <1>4, <1>6

\* Numbers up to some n, in particular.
LEMMA IncreasingExists ==
    ASSUME NEW n \in Nat, NEW T, T \subseteq 1 .. n
    PROVE  \E p \in SetToSeqs(T) : \A i, j \in DOMAIN p : i < j => p[i] < p[j]
  <1>1. IsFiniteSet(1 .. n)
    BY FS_Interval
  <1>2. IsFiniteSet(T)
    BY <1>1, FS_Subset
  <1>3. T \subseteq Int
    OBVIOUS
  <1>4. QED
    BY <1>2, <1>3, SortedExists

\* What is picked from a sequence, and from which places.
LEMMA PickedProperties ==
    ASSUME NEW S, NEW q \in Seq(S), NEW T, T \subseteq DOMAIN q
    PROVE  /\ Picked(q, T) \in Seq(S)
           /\ ToSet(Picked(q, T)) = {q[i] : i \in T}
  <1>1. PICK p : p = InOrder(T)
    OBVIOUS
  <1>2. IsFiniteSet(T) /\ p \in SetToSeqs(T)
    <2>1. Len(q) \in Nat /\ DOMAIN q = 1 .. Len(q)
      BY ToSetType
    <2>2. \E o \in SetToSeqs(T) : \A i, j \in DOMAIN o : i < j => o[i] < o[j]
      BY <2>1, IncreasingExists
    <2>3. PICK n \in Nat : T \subseteq 1 .. n
      BY <2>1
    <2>4. IsFiniteSet(T)
      BY <2>3, FS_Interval, FS_Subset
    <2>5. QED
      BY <1>1, <2>2, <2>4 DEF InOrder
  <1>3. p \in Seq(T) /\ ToSet(p) = T
    BY <1>2, SetToSeqsProperties
  <1>4. DOMAIN p = 1 .. Len(p) /\ Len(p) \in Nat /\ \A i \in DOMAIN p : p[i] \in T
    BY <1>3, ToSetType
  <1>5. Picked(q, T) = [i \in DOMAIN p |-> q[p[i]]]
    BY <1>1 DEF Picked
  <1>6. \A i \in DOMAIN p : q[p[i]] \in S
    BY <1>4, ToSetType DEF ToSet
  <1>7. Picked(q, T) \in Seq(S)
    BY <1>4, <1>5, <1>6
  <1>8. ToSet(Picked(q, T)) = {q[i] : i \in T}
    BY <1>3, <1>5 DEF ToSet
  <1>9. QED
    BY <1>7, <1>8

\* The first places picked are the beginning of the sequence.
LEMMA PickedPrefix ==
    ASSUME NEW q, NEW k \in Nat
    PROVE  Picked(q, 1 .. k) = [i \in 1 .. k |-> q[i]]
  <1>1. PICK p : p = InOrder(1 .. k)
    OBVIOUS
  <1>2. p \in SetToSeqs(1 .. k) /\ \A i, j \in DOMAIN p : i < j => p[i] < p[j]
    BY <1>1, IncreasingExists DEF InOrder
  <1>3. p \in Seq(1 .. k) /\ ToSet(p) = 1 .. k /\ DOMAIN p = 1 .. k
    <2>1. IsFiniteSet(1 .. k) /\ Cardinality(1 .. k) = k
      BY FS_Interval
    <2>2. p \in [1 .. Cardinality(1 .. k) -> 1 .. k]
      BY <1>2 DEF SetToSeqs
    <2>3. QED
      BY <1>2, <2>1, <2>2, SetToSeqsProperties
  <1>4. \A i \in 1 .. k : p[i] \in 1 .. k /\ \E m \in 1 .. k : p[m] = i
    BY <1>3 DEF ToSet
  <1>5. \A i \in 1 .. k : p[i] = i
    <2>1. DEFINE bad == {i \in 1 .. k : p[i] # i}
    <2>2. SUFFICES ASSUME bad # {} PROVE FALSE
      OBVIOUS
    <2>3. PICK i \in bad : \A j \in bad : i <= j
      <3>1. bad \subseteq Nat
        OBVIOUS
      <3>2. HIDE DEF bad
      <3>3. QED
        BY <2>2, <3>1, SmallestNumber
    <2>4. i \in 1 .. k /\ p[i] # i /\ p[i] \in 1 .. k
      BY <1>4
    <2>5. \A j \in 1 .. i - 1 : p[j] = j
      BY <2>3, <2>4
    <2>6. p[i] > i
      <3>1. SUFFICES ASSUME p[i] < i PROVE FALSE
        BY <2>4
      <3>2. p[i] \in 1 .. i - 1
        BY <2>4, <3>1
      <3>3. p[p[i]] = p[i] /\ p[i] < i
        BY <2>5, <3>1, <3>2
      <3>4. p[p[i]] < p[i]
        BY <1>2, <1>3, <2>4, <3>1
      <3>5. QED
        BY <2>4, <3>3, <3>4
    <2>7. PICK m \in 1 .. k : p[m] = i
      BY <1>4, <2>4
    <2>8. ~(m < i)
      BY <2>4, <2>5, <2>7
    <2>9. m # i
      BY <2>4, <2>7
    <2>10. ~(m > i)
      BY <1>2, <1>3, <2>4, <2>6, <2>7
    <2>11. QED
      BY <2>4, <2>8, <2>9, <2>10
  <1>6. QED
    BY <1>1, <1>3, <1>5 DEF Picked

-----------------------------------------------------------------------------
(* Sequences put together to one.                                          *)

\* The sequences up to each place, put together: there is such a function.
LEMMA FlattenExists ==
    ASSUME NEW ts, NEW n \in Nat
    PROVE  \E f : f = [i \in 1 .. n |-> IF i = 1 THEN ts[i] ELSE f[i - 1] \o ts[i]]
  <1>1. DEFINE Flat(f, k) == f = [i \in 1 .. k |-> IF i = 1 THEN ts[i] ELSE f[i - 1] \o ts[i]]
               bad == {k \in Nat : ~ \E f : Flat(f, k)}
  <1>2. SUFFICES ASSUME bad # {} PROVE FALSE
    OBVIOUS
  <1>3. PICK k \in bad : \A m \in bad : k <= m
    <2>1. bad \subseteq Nat
      OBVIOUS
    <2>2. HIDE DEF bad
    <2>3. QED
      BY <1>2, <2>1, SmallestNumber
  <1>4. k \in Nat /\ ~ \E f : Flat(f, k)
    BY <1>3
  <1>5. k # 0
    <2>1. SUFFICES ASSUME k = 0 PROVE FALSE
      OBVIOUS
    <2>2. PICK f : f = [i \in {} |-> i]
      OBVIOUS
    <2>3. f = [i \in 1 .. 0 |-> IF i = 1 THEN ts[i] ELSE f[i - 1] \o ts[i]]
      BY <2>2
    <2>4. QED
      BY <1>4, <2>1, <2>3
  <1>6. k - 1 \in Nat /\ k - 1 \notin bad
    <2>1. k - 1 \in Nat /\ ~(k <= k - 1)
      BY <1>4, <1>5
    <2>2. HIDE DEF bad
    <2>3. QED
      BY <1>3, <2>1
  <1>7. PICK f : Flat(f, k - 1)
    BY <1>6
  <1>8. PICK last : last = IF k = 1 THEN ts[k] ELSE f[k - 1] \o ts[k]
    OBVIOUS
  <1>9. PICK g : g = [i \in 1 .. k |-> IF i = k THEN last ELSE f[i]]
    OBVIOUS
  <1>10. ASSUME NEW i \in 1 .. k
         PROVE  g[i] = IF i = 1 THEN ts[i] ELSE g[i - 1] \o ts[i]
    <2>1. CASE i = k
      <3>1. g[i] = last
        BY <1>9, <2>1
      <3>2. CASE k = 1
        BY <1>8, <2>1, <3>1, <3>2
      <3>3. CASE k # 1
        <4>1. i - 1 \in 1 .. k /\ i - 1 # k /\ i - 1 = k - 1
          BY <1>4, <2>1, <3>3
        <4>2. g[i - 1] = f[k - 1]
          BY <1>9, <4>1
        <4>3. QED
          BY <1>8, <2>1, <3>1, <3>3, <4>2
      <3>4. QED
        BY <3>2, <3>3
    <2>2. CASE i # k
      <3>1. i \in 1 .. k - 1
        BY <1>4, <2>2
      <3>2. g[i] = f[i]
        BY <1>9, <2>2
      <3>3. f[i] = IF i = 1 THEN ts[i] ELSE f[i - 1] \o ts[i]
        BY <1>7, <3>1
      <3>4. i # 1 => g[i - 1] = f[i - 1]
        <4>1. i # 1 => i - 1 \in 1 .. k /\ i - 1 # k
          BY <1>4, <3>1
        <4>2. QED
          BY <1>9, <4>1
      <3>5. QED
        BY <3>2, <3>3, <3>4
    <2>3. QED
      BY <2>1, <2>2
  <1>11. Flat(g, k)
    <2>1. PICK h : h = [i \in 1 .. k |-> IF i = 1 THEN ts[i] ELSE g[i - 1] \o ts[i]]
      OBVIOUS
    <2>2. \A i \in 1 .. k : g[i] = h[i]
      BY <1>10, <2>1
    <2>3. g = h
      BY <1>9, <2>1, <2>2
    <2>4. QED
      BY <2>1, <2>3
  <1>12. QED
    BY <1>4, <1>11

\* FlattenSeq has what its sequences have, and nothing else.
LEMMA FlattenProperties ==
    ASSUME NEW S, NEW ts \in Seq(Seq(S))
    PROVE  /\ FlattenSeq(ts) \in Seq(S)
           /\ ToSet(FlattenSeq(ts)) = UNION {ToSet(ts[i]) : i \in DOMAIN ts}
  <1>1. PICK n \in Nat : n = Len(ts) /\ DOMAIN ts = 1 .. n
    BY LenProperties
  <1>2. CASE n = 0
    <2>1. ts = <<>> /\ FlattenSeq(ts) = ts /\ DOMAIN ts = {}
      BY <1>1, <1>2, EmptySeq DEF FlattenSeq
    <2>2. QED
      BY <2>1, ToSetEmpty
  <1>3. CASE n # 0
    <2>1. PICK f : /\ f = [i \in 1 .. n |-> IF i = 1 THEN ts[i] ELSE f[i - 1] \o ts[i]]
                   /\ FlattenSeq(ts) = f[n]
      <3>1. DEFINE Flat(h) == h = [i \in 1 .. n |-> IF i = 1 THEN ts[i] ELSE h[i - 1] \o ts[i]]
                   f == CHOOSE h : Flat(h)
      <3>2. Flat(f)
        <4>1. \E h : Flat(h)
          BY FlattenExists
        <4>2. HIDE DEF Flat
        <4>3. QED
          BY <4>1
      <3>3. FlattenSeq(ts) = f[n]
        BY <1>1, <1>3 DEF FlattenSeq
      <3>4. f = [i \in 1 .. n |-> IF i = 1 THEN ts[i] ELSE f[i - 1] \o ts[i]]
        <4>1. HIDE DEF f
        <4>2. QED
          BY <3>2
      <3>5. HIDE DEF f
      <3>6. QED
        BY <3>3, <3>4
    <2>2. DEFINE Fine(i) == f[i] \in Seq(S) /\ ToSet(f[i]) = UNION {ToSet(ts[j]) : j \in 1 .. i}
                 bad == {i \in 1 .. n : ~Fine(i)}
    <2>3. bad = {}
      <3>1. SUFFICES ASSUME bad # {} PROVE FALSE
        OBVIOUS
      <3>2. PICK i \in bad : \A j \in bad : i <= j
        <4>1. bad \subseteq Nat
          OBVIOUS
        <4>2. HIDE DEF bad
        <4>3. QED
          BY <3>1, <4>1, SmallestNumber
      <3>3. i \in 1 .. n /\ ~Fine(i)
        BY <3>2
      <3>4. ts[i] \in Seq(S) /\ f[i] = IF i = 1 THEN ts[i] ELSE f[i - 1] \o ts[i]
        BY <1>1, <2>1, <3>3, ElementOfSeq
      <3>5. CASE i = 1
        <4>1. f[i] = ts[i] /\ 1 .. i = {i}
          BY <3>4, <3>5
        <4>2. UNION {ToSet(ts[j]) : j \in 1 .. i} = ToSet(ts[i])
          BY <4>1
        <4>3. QED
          BY <3>3, <3>4, <4>1, <4>2
      <3>6. CASE i # 1
        <4>1. i - 1 \in 1 .. n /\ i - 1 \notin bad
          <5>1. i - 1 \in 1 .. n /\ ~(i <= i - 1)
            BY <3>3, <3>6
          <5>2. HIDE DEF bad
          <5>3. QED
            BY <3>2, <5>1
        <4>2. Fine(i - 1)
          BY <4>1
        <4>3. f[i] = f[i - 1] \o ts[i]
          BY <3>4, <3>6
        <4>4. f[i] \in Seq(S) /\ ToSet(f[i]) = ToSet(f[i - 1]) \cup ToSet(ts[i])
          <5>1. PICK a \in Seq(S), b \in Seq(S) : a = f[i - 1] /\ b = ts[i]
            BY <3>4, <4>2
          <5>2. QED
            BY <4>3, <5>1, ToSetConcat
        <4>5. 1 .. i = (1 .. i - 1) \cup {i}
          BY <3>3, <3>6
        <4>6. UNION {ToSet(ts[j]) : j \in 1 .. i} = (UNION {ToSet(ts[j]) : j \in 1 .. i - 1}) \cup ToSet(ts[i])
          BY <4>5
        <4>7. QED
          BY <3>3, <4>2, <4>4, <4>6
      <3>7. QED
        BY <3>5, <3>6
    <2>4. Fine(n)
      <3>1. n \in 1 .. n /\ n \notin bad
        <4>1. HIDE DEF bad
        <4>2. QED
          BY <1>3, <2>3
      <3>2. HIDE DEF Fine
      <3>3. QED
        BY <3>1
    <2>5. QED
      BY <1>1, <2>1, <2>4
  <1>4. QED
    BY <1>2, <1>3

-----------------------------------------------------------------------------
(* Rule sets, and rules flexed to an age.                                  *)

\* RulesFromJSON keeps everything but the rate, and refuses what is not valid.
LEMMA RulesFromJSONFields ==
    ASSUME NEW offered, \A o \in offered : IsRuleSet(o), NEW rs \in RulesFromJSON(offered)
    PROVE  /\ IsRuleSet(rs)
           /\ ValidAlliance(rs.alliance)
           /\ \A i \in DOMAIN rs.allianceFlex :
                 rs.allianceFlex[i].duration \in Nat /\ ValidAlliance(rs.allianceFlex[i].rule)
           /\ \A i \in DOMAIN rs.flex : rs.flex[i].duration \in Nat
           /\ rs.rate \in Nat \ {0} /\ {rs.initial, rs.range, rs.max} \subseteq Nat
  <1>1. PICK o \in offered : /\ ValidRuleSet(o)
                             /\ rs = [o EXCEPT !.rate = IF o.rate = 0 THEN DefaultRate ELSE o.rate]
    BY DEF RulesFromJSON
  <1>2. IsRuleSet(o)
    OBVIOUS
  <1>3. /\ DOMAIN rs = DOMAIN o
        /\ rs.alliance = o.alliance /\ rs.allianceFlex = o.allianceFlex /\ rs.flex = o.flex
        /\ rs.initial = o.initial /\ rs.range = o.range /\ rs.max = o.max
        /\ rs.skipAfter = o.skipAfter
        /\ rs.rate = IF o.rate = 0 THEN DefaultRate ELSE o.rate
    BY <1>1, <1>2 DEF IsRuleSet
  <1>4. rs.rate \in Nat \ {0} /\ {rs.initial, rs.range, rs.max} \subseteq Nat
    <2>1. {o.initial, o.rate, o.range, o.max} \subseteq Int
      BY <1>2 DEF IsRuleSet
    <2>2. o.range >= 0 /\ o.rate >= 0 /\ o.initial >= 0 /\ o.max >= 0
      BY <1>1 DEF ValidRuleSet
    <2>3. {o.initial, o.rate, o.range, o.max} \subseteq Nat
      BY <2>1, <2>2
    <2>4. DefaultRate \in Nat \ {0}
      BY DEF DefaultRate
    <2>5. QED
      BY <1>3, <2>3, <2>4
  <1>5. IsRuleSet(rs)
    BY <1>2, <1>3, <1>4 DEF IsRuleSet
  <1>6. QED
    BY <1>1, <1>2, <1>3, <1>4, <1>5 DEF ValidRuleSet, ValidAllianceFlex, ValidFlex

\* Flexing changes the alliance rule and the rules about attributes only.
LEMMA ActiveFields ==
    ASSUME NEW rs, {"alliance", "allianceFlex", "rules", "flex"} \subseteq DOMAIN rs,
           NEW since, NEW t
    PROVE  LET act == ActiveRuleSet(rs, since, t) IN
           /\ act.alliance = ApplyAllianceFlexingRule(rs.alliance, rs.allianceFlex, since, t)
           /\ act.rules = ApplyRuleFlexing(rs, since, t).rules
           /\ DOMAIN act = DOMAIN rs /\ \A f \in DOMAIN rs \ {"alliance", "rules"} : act[f] = rs[f]
  <1>1. PICK fl : fl = ApplyRuleFlexing(rs, since, t)
    OBVIOUS
  <1>2. /\ DOMAIN fl = DOMAIN rs
        /\ fl.alliance = rs.alliance /\ fl.allianceFlex = rs.allianceFlex
        /\ \A f \in DOMAIN rs \ {"rules"} : fl[f] = rs[f]
    BY <1>1 DEF ApplyRuleFlexing
  <1>3. PICK act : act = ActiveRuleSet(rs, since, t)
    OBVIOUS
  <1>4. act = [fl EXCEPT !.alliance = ApplyAllianceFlexingRule(fl.alliance, fl.allianceFlex, since, t)]
    BY <1>1, <1>3 DEF ActiveRuleSet, ApplyAllianceFlexingRules
  <1>5. /\ act.alliance = ApplyAllianceFlexingRule(fl.alliance, fl.allianceFlex, since, t)
        /\ act.rules = fl.rules
        /\ DOMAIN act = DOMAIN fl /\ \A f \in DOMAIN fl \ {"alliance"} : act[f] = fl[f]
    BY <1>2, <1>4
  <1>6. QED
    BY <1>1, <1>2, <1>3, <1>5

\* The alliance rule is one the age warrants.
LEMMA FlexedAlliance ==
    ASSUME NEW alliance, NEW list, NEW since, NEW t
    PROVE  LET rule == ApplyAllianceFlexingRule(alliance, list, since, t) IN
           \/ rule = alliance
           \/ \E i \in DOMAIN list : since + list[i].duration < t /\ rule = list[i].rule
  <1>1. DEFINE chosen == Chosen(list, DOMAIN list, since, t)
  <1>2. CASE chosen = {}
    BY <1>2 DEF ApplyAllianceFlexingRule
  <1>3. CASE chosen # {}
    <2>1. PICK i : i = CHOOSE j \in chosen : TRUE
      OBVIOUS
    <2>2. i \in chosen
      BY <1>3, <2>1
    <2>3. i \in DOMAIN list /\ since + list[i].duration < t
      BY <2>2 DEF Chosen, IsActiveFlexRule
    <2>4. ApplyAllianceFlexingRule(alliance, list, since, t) = list[i].rule
      BY <1>3, <2>1 DEF ApplyAllianceFlexingRule
    <2>5. QED
      BY <2>3, <2>4
  <1>4. QED
    BY <1>2, <1>3

\* So is the rule about an attribute.
LEMMA FlexedAttribute ==
    ASSUME NEW rs, "rules" \in DOMAIN rs, NEW since, NEW t, NEW a \in DOMAIN rs.rules
    PROVE  LET rule == ApplyRuleFlexing(rs, since, t).rules[a] IN
           \/ rule = rs.rules[a]
           \/ \E i \in DOMAIN rs.flex :
                 /\ rs.flex[i].attribute = a /\ since + rs.flex[i].duration < t
                 /\ rule = [criteria |-> rs.flex[i].criteria, reference |-> rs.flex[i].reference]
  <1>1. DEFINE about == {i \in DOMAIN rs.flex : rs.flex[i].attribute = a}
               chosen == Chosen(rs.flex, about, since, t)
  <1>2. ApplyRuleFlexing(rs, since, t).rules[a] = FlexedRule(rs, a, since, t)
    BY DEF ApplyRuleFlexing
  <1>3. CASE chosen = {}
    BY <1>2, <1>3 DEF FlexedRule
  <1>4. CASE chosen # {}
    <2>1. PICK i : i = CHOOSE j \in chosen : TRUE
      OBVIOUS
    <2>2. i \in chosen
      BY <1>4, <2>1
    <2>3. i \in about /\ since + rs.flex[i].duration < t
      BY <2>2 DEF Chosen, IsActiveFlexRule
    <2>4. FlexedRule(rs, a, since, t)
             = [criteria |-> rs.flex[i].criteria, reference |-> rs.flex[i].reference]
      BY <1>4, <2>1 DEF FlexedRule
    <2>5. QED
      BY <1>2, <2>3, <2>4
  <1>5. QED
    BY <1>3, <1>4

\* The active alliance rule is valid: the rule itself, or one whose time has come.
LEMMA ActiveAlliance ==
    ASSUME NEW rs, {"alliance", "allianceFlex", "rules", "flex"} \subseteq DOMAIN rs,
           ValidAlliance(rs.alliance),
           \A i \in DOMAIN rs.allianceFlex : ValidAlliance(rs.allianceFlex[i].rule),
           NEW since, NEW t
    PROVE  LET rule == ActiveRuleSet(rs, since, t).alliance IN
           /\ ValidAlliance(rule)
           /\ \/ rule = rs.alliance
              \/ \E i \in DOMAIN rs.allianceFlex :
                    since + rs.allianceFlex[i].duration < t /\ rule = rs.allianceFlex[i].rule
  <1>1. PICK rule : rule = ActiveRuleSet(rs, since, t).alliance
    OBVIOUS
  <1>2. rule = ApplyAllianceFlexingRule(rs.alliance, rs.allianceFlex, since, t)
    BY <1>1, ActiveFields
  <1>3. \/ rule = rs.alliance
        \/ \E i \in DOMAIN rs.allianceFlex :
              since + rs.allianceFlex[i].duration < t /\ rule = rs.allianceFlex[i].rule
    BY <1>2, FlexedAlliance
  <1>4. ValidAlliance(rule)
    BY <1>3, Zenon
  <1>5. QED
    BY <1>1, <1>3, <1>4

-----------------------------------------------------------------------------
(* Counting.                                                               *)

\* Quotient and remainder.
LEMMA Division ==
    ASSUME NEW k \in Nat, NEW d \in Nat \ {0}
    PROVE  k \div d \in Nat /\ k % d \in 0 .. d - 1 /\ k = d * (k \div d) + (k % d)
  <1>1. k \div d \in Nat
    OBVIOUS
  <1>2. k % d \in 0 .. d - 1
    OBVIOUS
  <1>3. k = d * (k \div d) + (k % d)
    OBVIOUS
  <1>4. QED
    BY <1>1, <1>2, <1>3

\* A number has one quotient and one remainder.
LEMMA DivisionUnique ==
    ASSUME NEW d \in Nat \ {0}, NEW a \in Nat, NEW b \in Nat,
           NEW r \in 0 .. d - 1, NEW s \in 0 .. d - 1, d * a + r = d * b + s
    PROVE  a = b /\ r = s
  <1>1. CASE a < b
    <2>1. d * (a + 1) <= d * b
      BY <1>1
    <2>2. QED
      BY <2>1
  <1>2. CASE b < a
    <2>1. d * (b + 1) <= d * a
      BY <1>2
    <2>2. QED
      BY <2>1
  <1>3. QED
    BY <1>1, <1>2

\* The quotients of larger numbers are no smaller.
LEMMA DivisionGrows ==
    ASSUME NEW d \in Nat \ {0}, NEW k \in Nat, NEW m \in Nat, k <= m
    PROVE  k \div d <= m \div d
  <1>1. PICK i \in Nat, r \in 0 .. d - 1 : i = k \div d /\ k = d * i + r
    BY Division
  <1>2. PICK j \in Nat, s \in 0 .. d - 1 : j = m \div d /\ m = d * j + s
    BY Division
  <1>3. SUFFICES ASSUME j < i PROVE FALSE
    BY <1>1, <1>2
  <1>4. d * (j + 1) <= d * i
    BY <1>3
  <1>5. QED
    BY <1>1, <1>2, <1>4

\* The next number has the next remainder, or the next quotient.
LEMMA DivisionNext ==
    ASSUME NEW k \in Nat, NEW d \in Nat \ {0}
    PROVE  /\ k % d < d - 1 => (k + 1) \div d = k \div d /\ (k + 1) % d = (k % d) + 1
           /\ k % d = d - 1 => (k + 1) \div d = (k \div d) + 1 /\ (k + 1) % d = 0
  <1>1. PICK i \in Nat, j \in 0 .. d - 1 : i = k \div d /\ j = k % d /\ k = d * i + j
    BY Division
  <1>2. PICK a \in Nat, b \in 0 .. d - 1 :
            a = (k + 1) \div d /\ b = (k + 1) % d /\ k + 1 = d * a + b
    BY Division
  <1>3. CASE j < d - 1
    <2>1. j + 1 \in 0 .. d - 1 /\ d * i + (j + 1) = d * a + b
      BY <1>1, <1>2, <1>3
    <2>2. i = a /\ j + 1 = b
      BY <2>1, DivisionUnique
    <2>3. QED
      BY <1>1, <1>2, <1>3, <2>2
  <1>4. CASE j = d - 1
    <2>1. 0 \in 0 .. d - 1 /\ d * (i + 1) + 0 = d * a + b
      BY <1>1, <1>2, <1>4
    <2>2. i + 1 = a /\ 0 = b
      BY <2>1, DivisionUnique
    <2>3. QED
      BY <1>1, <1>2, <1>4, <2>2
  <1>5. QED
    BY <1>1, <1>3, <1>4

\* Of n - 1 pairs for each of n elements, the k-th is about the k / (n - 1)-th.
LEMMA QuotientBound ==
    ASSUME NEW n \in Nat, n >= 2, NEW k \in Nat
    PROVE  /\ k < n * (n - 1) => k \div (n - 1) \in 0 .. n - 1
           /\ k < n * (n - 1) =>
                (k + 1 = n * (n - 1) <=> k \div (n - 1) = n - 1 /\ k % (n - 1) = n - 2)
  <1>1. PICK d \in Nat \ {0} : d = n - 1
    OBVIOUS
  <1>2. PICK i \in Nat, j \in 0 .. d - 1 : i = k \div d /\ j = k % d /\ k = d * i + j
    BY Division
  <1>3. n * (n - 1) = d * n
    BY <1>1
  <1>4. ASSUME k < d * n PROVE i <= d
    <2>1. SUFFICES ASSUME n <= i PROVE FALSE
      BY <1>1
    <2>2. d * n <= d * i
      BY <2>1
    <2>3. QED
      BY <1>2, <1>4, <2>2
  <1>5. d * n = d * d + d
    BY <1>1
  <1>6. ASSUME k + 1 = d * n PROVE i = d /\ j = d - 1
    <2>1. d * i + j = d * d + (d - 1)
      BY <1>2, <1>5, <1>6
    <2>2. QED
      BY <2>1, DivisionUnique
  <1>7. ASSUME i = d, j = d - 1 PROVE k + 1 = d * n
    BY <1>2, <1>5, <1>7
  <1>8. QED
    BY <1>1, <1>2, <1>3, <1>4, <1>6, <1>7

-----------------------------------------------------------------------------
(* The orders of TwoPointer.                                               *)

\* A sequence without one of its elements.
LEMMA RemoveAtProperties ==
    ASSUME NEW S, NEW q \in Seq(S), IsInjective(q), NEW i \in 1 .. Len(q)
    PROVE  /\ RemoveAt(q, i) \in Seq(S) /\ IsInjective(RemoveAt(q, i))
           /\ ToSet(RemoveAt(q, i)) = ToSet(q) \ {q[i]}
           /\ Len(RemoveAt(q, i)) = Len(q) - 1
           /\ \A m \in 1 .. i - 1 : RemoveAt(q, i)[m] = q[m]
  <1>1. Len(q) \in Nat /\ DOMAIN q = 1 .. Len(q) /\ i \in Nat /\ i <= Len(q)
    BY ToSetType
  <1>2. DEFINE a == SubSeq(q, 1, i - 1)
               b == SubSeq(q, i + 1, Len(q))
               r == RemoveAt(q, i)
  <1>3. /\ a \in Seq(S) /\ Len(a) = i - 1
        /\ \A m \in 1 .. i - 1 : a[m] = q[m]
    BY <1>1, SubSeqProperties
  <1>4. /\ b \in Seq(S) /\ Len(b) = Len(q) - i
        /\ \A m \in 1 .. Len(q) - i : b[m] = q[i + m]
    <2>1. /\ b \in Seq(S) /\ Len(b) = IF i + 1 <= Len(q) THEN Len(q) - (i + 1) + 1 ELSE 0
          /\ \A m \in 1 .. Len(q) - (i + 1) + 1 : b[m] = q[i + 1 + m - 1]
      BY <1>1, SubSeqProperties
    <2>2. Len(q) - (i + 1) + 1 = Len(q) - i /\ (~(i + 1 <= Len(q)) => Len(q) - i = 0)
      <3>1. PICK n \in Nat, k \in Nat : n = Len(q) /\ k = i /\ k <= n
        BY <1>1
      <3>2. n - (k + 1) + 1 = n - k /\ (~(k + 1 <= n) => n - k = 0)
        BY <3>1
      <3>3. QED
        BY <3>1, <3>2
    <2>3. \A m \in 1 .. Len(q) - i : i + 1 + m - 1 = i + m
      BY <1>1
    <2>4. Len(b) = Len(q) - i
      BY <2>1, <2>2
    <2>5. QED
      BY <2>1, <2>2, <2>3, <2>4
  <1>5. r = a \o b
    BY DEF RemoveAt
  <1>6. HIDE DEF a, b, r
  <1>7. /\ r \in Seq(S) /\ Len(r) = Len(q) - 1 /\ DOMAIN r = 1 .. Len(q) - 1
        /\ \A m \in 1 .. Len(q) - 1 : r[m] = IF m <= i - 1 THEN a[m] ELSE b[m - (i - 1)]
    <2>1. Len(a) + Len(b) = Len(q) - 1
      BY <1>1, <1>3, <1>4
    <2>2. /\ r \in Seq(S) /\ Len(r) = Len(a) + Len(b)
          /\ \A m \in 1 .. Len(a) + Len(b) : r[m] = IF m <= Len(a) THEN a[m] ELSE b[m - Len(a)]
      BY <1>3, <1>4, <1>5, ConcatProperties
    <2>3. QED
      BY <1>3, <2>1, <2>2, LenProperties
  <1>8. \A m \in 1 .. i - 1 : r[m] = q[m]
    BY <1>1, <1>3, <1>7
  <1>9. \A m \in i .. Len(q) - 1 : r[m] = q[m + 1]
    <2>1. SUFFICES ASSUME NEW m \in i .. Len(q) - 1 PROVE r[m] = q[m + 1]
      OBVIOUS
    <2>2. m - (i - 1) \in 1 .. Len(q) - i /\ i + (m - (i - 1)) = m + 1
      BY <1>1
    <2>3. b[m - (i - 1)] = q[i + (m - (i - 1))]
      BY <1>4, <2>2
    <2>4. m \in 1 .. Len(q) - 1 /\ ~(m <= i - 1)
      BY <1>1
    <2>5. QED
      BY <1>7, <2>2, <2>3, <2>4
  <1>10. IsInjective(r)
    <2>1. SUFFICES ASSUME NEW m \in 1 .. Len(q) - 1, NEW n \in 1 .. Len(q) - 1, r[m] = r[n]
                   PROVE  m = n
      BY <1>7 DEF IsInjective
    <2>2. PICK x \in DOMAIN q, y \in DOMAIN q :
              /\ x = (IF m < i THEN m ELSE m + 1) /\ y = (IF n < i THEN n ELSE n + 1)
      BY <1>1
    <2>3. r[m] = q[x] /\ r[n] = q[y]
      BY <1>1, <1>8, <1>9, <2>2
    <2>4. x = y
      BY <2>1, <2>2, <2>3 DEF IsInjective
    <2>5. QED
      BY <1>1, <2>2, <2>4
  <1>11. ASSUME NEW m \in 1 .. Len(q) - 1
         PROVE  r[m] \in ToSet(q) \ {q[i]}
    <2>1. PICK x \in DOMAIN q : x = (IF m < i THEN m ELSE m + 1)
      BY <1>1
    <2>2. r[m] = q[x] /\ x # i /\ i \in DOMAIN q
      BY <1>1, <1>8, <1>9, <2>1
    <2>3. QED
      BY <2>2 DEF ToSet, IsInjective
  <1>12. ASSUME NEW x \in 1 .. Len(q), x # i
         PROVE  q[x] \in ToSet(r)
    <2>1. CASE x < i
      <3>1. x \in DOMAIN r /\ r[x] = q[x]
        BY <1>1, <1>7, <1>8, <2>1
      <3>2. QED
        BY <3>1 DEF ToSet
    <2>2. CASE x > i
      <3>1. x - 1 \in DOMAIN r /\ r[x - 1] = q[x - 1 + 1] /\ x - 1 + 1 = x
        BY <1>1, <1>7, <1>9, <2>2
      <3>2. QED
        BY <3>1 DEF ToSet
    <2>3. QED
      BY <1>1, <1>12, <2>1, <2>2
  <1>13. ToSet(r) = ToSet(q) \ {q[i]}
    <2>1. \A e \in ToSet(r) : e \in ToSet(q) \ {q[i]}
      BY <1>7, <1>11 DEF ToSet
    <2>2. \A e \in ToSet(q) \ {q[i]} : e \in ToSet(r)
      BY <1>1, <1>12 DEF ToSet
    <2>3. QED
      BY <2>1, <2>2
  <1>14. QED
    BY <1>7, <1>8, <1>10, <1>13 DEF r

\* Removing a value from a sequence without repetitions.
LEMMA RemoveFirstProperties ==
    ASSUME NEW S, NEW q \in Seq(S), IsInjective(q), NEW x
    PROVE  /\ RemoveFirst(q, x) \in Seq(S) /\ IsInjective(RemoveFirst(q, x))
           /\ ToSet(RemoveFirst(q, x)) = ToSet(q) \ {x}
  <1>1. Len(q) \in Nat /\ DOMAIN q = 1 .. Len(q)
    BY ToSetType
  <1>2. CASE x \notin ToSet(q)
    <2>1. ~ \E i \in 1 .. Len(q) : q[i] = x
      BY <1>1, <1>2 DEF ToSet
    <2>2. QED
      BY <1>2, <2>1 DEF RemoveFirst
  <1>3. CASE x \in ToSet(q)
    <2>1. PICK I : I = {i \in 1 .. Len(q) : q[i] = x}
      OBVIOUS
    <2>2. I # {} /\ I \subseteq Nat
      BY <1>1, <1>3, <2>1 DEF ToSet
    <2>3. \E n \in I : \A m \in I : n <= m
      BY <2>2, SmallestNumber
    <2>4. PICK i : i = Min(I)
      OBVIOUS
    <2>5. i \in I
      BY <2>3, <2>4 DEF Min
    <2>6. RemoveFirst(q, x) = RemoveAt(q, i)
      BY <2>1, <2>2, <2>4 DEF RemoveFirst, SelectInSeq
    <2>7. i \in 1 .. Len(q) /\ q[i] = x
      BY <2>1, <2>5
    <2>8. QED
      BY <2>6, <2>7, RemoveAtProperties
  <1>4. QED
    BY <1>2, <1>3

\* What is left without two elements.
LEMMA OthersProperties ==
    ASSUME NEW S, NEW q \in Seq(S), IsInjective(q),
           NEW i \in 1 .. Len(q), NEW j \in 1 .. Len(q), i # j
    PROVE  /\ Others(q, i, j) \in Seq(S) /\ IsInjective(Others(q, i, j))
           /\ ToSet(Others(q, i, j)) = ToSet(q) \ {q[i], q[j]}
           /\ Len(Others(q, i, j)) = Len(q) - 2
  <1>1. ASSUME NEW l \in 1 .. Len(q), NEW h \in 1 .. Len(q), l < h
        PROVE  /\ RemoveAt(RemoveAt(q, h), l) \in Seq(S)
               /\ IsInjective(RemoveAt(RemoveAt(q, h), l))
               /\ ToSet(RemoveAt(RemoveAt(q, h), l)) = ToSet(q) \ {q[l], q[h]}
               /\ Len(RemoveAt(RemoveAt(q, h), l)) = Len(q) - 2
    <2>1. PICK r \in Seq(S) :
             /\ r = RemoveAt(q, h) /\ IsInjective(r) /\ ToSet(r) = ToSet(q) \ {q[h]}
             /\ Len(r) = Len(q) - 1 /\ \A m \in 1 .. h - 1 : r[m] = q[m]
      BY RemoveAtProperties
    <2>2. l \in 1 .. Len(r) /\ r[l] = q[l]
      BY <1>1, <2>1, LenProperties
    <2>3. /\ RemoveAt(r, l) \in Seq(S) /\ IsInjective(RemoveAt(r, l))
          /\ ToSet(RemoveAt(r, l)) = ToSet(r) \ {r[l]}
          /\ Len(RemoveAt(r, l)) = Len(r) - 1
      <3>1. PICK m \in 1 .. Len(r) : m = l
        BY <2>2
      <3>2. IsInjective(r)
        BY <2>1
      <3>3. /\ RemoveAt(r, m) \in Seq(S) /\ IsInjective(RemoveAt(r, m))
            /\ ToSet(RemoveAt(r, m)) = ToSet(r) \ {r[m]}
            /\ Len(RemoveAt(r, m)) = Len(r) - 1
        BY <3>2, RemoveAtProperties
      <3>4. QED
        BY <3>1, <3>3
    <2>4. Len(q) \in Nat /\ Len(q) - 1 - 1 = Len(q) - 2
      BY LenProperties
    <2>5. QED
      BY <2>1, <2>2, <2>3, <2>4
  <1>2. CASE i < j
    BY <1>1, <1>2 DEF Others
  <1>3. CASE j < i
    BY <1>1, <1>3 DEF Others
  <1>4. QED
    BY <1>2, <1>3

\* The k-th pair is of two different places.
LEMMA PairPlaces ==
    ASSUME NEW n \in Nat, n >= 2, NEW k \in Nat, k < n * (n - 1)
    PROVE  /\ PairAt(n, k)[1] + 1 \in 1 .. n /\ PairAt(n, k)[2] + 1 \in 1 .. n
           /\ PairAt(n, k)[1] + 1 # PairAt(n, k)[2] + 1
  <1>1. PICK d \in Nat \ {0} : d = n - 1
    OBVIOUS
  <1>2. PICK i \in Nat, j \in 0 .. d - 1 : i = k \div d /\ j = k % d
    BY Division
  <1>3. i \in 0 .. d
    <2>1. k \div (n - 1) \in 0 .. n - 1
      BY QuotientBound
    <2>2. QED
      BY <1>1, <1>2, <2>1
  <1>4. PairAt(n, k) = <<i, IF j < i THEN j ELSE j + 1>>
    BY <1>1, <1>2 DEF PairAt
  <1>5. QED
    BY <1>1, <1>3, <1>4

\* Putting a pair first leaves the elements as they are.
LEMMA PairFirstProperties ==
    ASSUME NEW S, NEW q \in Seq(S), IsInjective(q), NEW k \in Nat,
           Len(q) >= 2 => k < PairCount(q)
    PROVE  /\ PairFirst(q, k) \in Seq(S) /\ IsInjective(PairFirst(q, k))
           /\ ToSet(PairFirst(q, k)) = ToSet(q) /\ Len(PairFirst(q, k)) = Len(q)
  <1>1. PICK n \in Nat : n = Len(q)
    BY LenProperties
  <1>2. CASE n < 2
    BY <1>1, <1>2 DEF PairFirst
  <1>3. CASE n >= 2
    <2>1. n >= 2 /\ k < n * (n - 1)
      BY <1>1, <1>3 DEF PairCount
    <2>2. PICK i \in 1 .. n, j \in 1 .. n :
             /\ i = PairAt(n, k)[1] + 1 /\ j = PairAt(n, k)[2] + 1 /\ i # j
      BY <2>1, PairPlaces
    <2>3. PICK f, r : f = <<q[i], q[j]>> /\ r = Others(q, i, j)
      OBVIOUS
    <2>4. PairFirst(q, k) = f \o r
      BY <1>1, <2>1, <2>2, <2>3 DEF PairFirst
    <2>5. /\ r \in Seq(S) /\ IsInjective(r) /\ ToSet(r) = ToSet(q) \ {q[i], q[j]}
          /\ Len(r) = n - 2
      <3>1. i \in 1 .. Len(q) /\ j \in 1 .. Len(q) /\ i # j
        BY <1>1, <2>2
      <3>2. /\ Others(q, i, j) \in Seq(S) /\ IsInjective(Others(q, i, j))
            /\ ToSet(Others(q, i, j)) = ToSet(q) \ {q[i], q[j]}
            /\ Len(Others(q, i, j)) = Len(q) - 2
        BY <3>1, OthersProperties
      <3>3. QED
        BY <1>1, <2>3, <3>2
    <2>6. q[i] \in S /\ q[j] \in S /\ i \in DOMAIN q /\ j \in DOMAIN q
      BY <1>1, LenProperties
    <2>7. q[i] # q[j] /\ q[i] \in ToSet(q) /\ q[j] \in ToSet(q)
      BY <2>2, <2>6 DEF IsInjective, ToSet
    <2>8. f \in Seq(S) /\ IsInjective(f) /\ ToSet(f) = {q[i], q[j]}
      <3>1. f \in Seq(S) /\ DOMAIN f = {1, 2} /\ f[1] = q[i] /\ f[2] = q[j]
        BY <2>3, <2>6
      <3>2. QED
        BY <2>7, <3>1 DEF IsInjective, ToSet
    <2>9. ToSet(f) \cap ToSet(r) = {}
      BY <2>5, <2>8
    <2>10. IsInjective(f \o r)
      BY <2>5, <2>8, <2>9, InjectiveConcat
    <2>11. f \o r \in Seq(S) /\ ToSet(f \o r) = ToSet(f) \cup ToSet(r)
      BY <2>5, <2>8, ToSetConcat
    <2>12. Len(f \o r) = n
      <3>1. Len(f) = 2 /\ Len(f \o r) = Len(f) + Len(r)
        BY <2>3, <2>5, <2>8, ConcatProperties
      <3>2. QED
        BY <2>1, <2>5, <3>1
    <2>13. QED
      BY <1>1, <2>4, <2>5, <2>7, <2>8, <2>10, <2>11, <2>12
  <1>4. QED
    BY <1>2, <1>3

-----------------------------------------------------------------------------
(* Regions within reach.                                                   *)

\* A ticket's regions, the nearest first.
LEMMA SortedLatencyProperties ==
    ASSUME NEW t, IsTicket(t)
    PROVE  LET q == SortedLatency(t.latencies) IN
           /\ q \in Seq([region : DOMAIN t.latencies, ms : Nat])
           /\ \A i \in DOMAIN q : q[i].ms = t.latencies[q[i].region]
           /\ \A i, j \in DOMAIN q : i < j => q[i].ms < q[j].ms
  <1>1. DEFINE times == {t.latencies[r] : r \in DOMAIN t.latencies}
               p == InOrder(times)
               q == SortedLatency(t.latencies)
  <1>2. IsFiniteSet(times) /\ times \subseteq Nat /\ times \subseteq Int
    BY ValuesFinite DEF IsTicket
  <1>3. p \in SetToSeqs(times) /\ \A i, j \in DOMAIN p : i < j => p[i] < p[j]
    <2>1. HIDE DEF times
    <2>2. QED
      BY <1>2, SortedExists DEF InOrder
  <1>4. p \in Seq(times) /\ DOMAIN p = 1 .. Len(p) /\ Len(p) \in Nat /\ \A i \in DOMAIN p : p[i] \in times
    <2>1. HIDE DEF p, times
    <2>2. QED
      BY <1>2, <1>3, SetToSeqsProperties, ToSetType DEF ToSet
  <1>5. q = [i \in DOMAIN p |->
                [region |-> CHOOSE r \in DOMAIN t.latencies : t.latencies[r] = p[i], ms |-> p[i]]]
    BY DEF SortedLatency
  <1>6. ASSUME NEW i \in DOMAIN p
        PROVE  /\ q[i].ms = p[i] /\ q[i].region \in DOMAIN t.latencies
               /\ t.latencies[q[i].region] = p[i]
               /\ q[i] \in [region : DOMAIN t.latencies, ms : Nat]
    <2>1. \E r \in DOMAIN t.latencies : t.latencies[r] = p[i]
      BY <1>4, <1>6
    <2>2. q[i] = [region |-> CHOOSE r \in DOMAIN t.latencies : t.latencies[r] = p[i], ms |-> p[i]]
      <3>1. HIDE DEF p, q
      <3>2. QED
        BY <1>5, <1>6
    <2>3. p[i] \in Nat
      BY <1>2, <1>4, <1>6
    <2>4. HIDE DEF p, q
    <2>5. QED
      BY <2>1, <2>2, <2>3
  <1>7. DOMAIN q = DOMAIN p
    BY <1>5
  <1>8. HIDE DEF p, q, times
  <1>9. q \in Seq([region : DOMAIN t.latencies, ms : Nat])
    <2>1. q = [i \in 1 .. Len(p) |-> q[i]]
      BY <1>4, <1>5
    <2>2. Len(p) \in Nat /\ \A i \in 1 .. Len(p) : q[i] \in [region : DOMAIN t.latencies, ms : Nat]
      BY <1>4, <1>6
    <2>3. QED
      BY <2>1, <2>2
  <1>10. \A i, j \in DOMAIN q : i < j => q[i].ms < q[j].ms
    BY <1>3, <1>6, <1>7
  <1>11. \A i \in DOMAIN q : q[i].ms = t.latencies[q[i].region]
    BY <1>6, <1>7
  <1>12. QED
    BY <1>9, <1>10, <1>11 DEF q

\* Who has waited longer accepts more, and everybody accepts their nearest region.
LEMMA LimitGrows ==
    ASSUME NEW t, t.createdAt \in Nat, t.latency[1].ms \in Nat,
           NEW rs, rs.rate \in Nat \ {0}, {rs.initial, rs.range} \subseteq Nat,
           NEW a \in Nat, NEW b \in Nat, t.createdAt <= a, a <= b
    PROVE  /\ LatencyLimit(t, rs, a) \in Nat /\ LatencyLimit(t, rs, b) \in Nat
           /\ LatencyLimit(t, rs, a) <= LatencyLimit(t, rs, b)
           /\ t.latency[1].ms <= LatencyLimit(t, rs, a)
  <1>1. PICK d \in Nat \ {0} : d = rs.rate
    OBVIOUS
  <1>2. PICK k \in Nat, m \in Nat : /\ k = a - t.createdAt + d - 1
                                    /\ m = b - t.createdAt + d - 1 /\ k <= m
    OBVIOUS
  <1>3. k \div d \in Nat /\ m \div d \in Nat /\ k \div d <= m \div d
    BY <1>2, Division, DivisionGrows
  <1>4. ExpansionStep(t, rs, a) = k \div d /\ ExpansionStep(t, rs, b) = m \div d
    BY <1>1, <1>2 DEF ExpansionStep
  <1>5. ExpansionRange(rs) \in Nat
    BY DEF ExpansionRange
  <1>6. DEFINE Further(x) == IF x - 1 > 0 THEN x - 1 ELSE 0
               c == ExpansionRange(rs)
               u == Further(k \div d)
               v == Further(m \div d)
  <1>7. u \in Nat /\ v \in Nat /\ u <= v
    <2>1. \A x, y \in Nat : x <= y => Further(x) \in Nat /\ Further(y) \in Nat /\ Further(x) <= Further(y)
      OBVIOUS
    <2>2. HIDE DEF Further
    <2>3. QED
      BY <1>3, <2>1
  <1>8. /\ LatencyLimit(t, rs, a) = t.latency[1].ms + rs.initial + u * c
        /\ LatencyLimit(t, rs, b) = t.latency[1].ms + rs.initial + v * c
    BY <1>4 DEF LatencyLimit
  <1> HIDE DEF c, u, v
  <1>9. c \in Nat
    BY <1>5 DEF c
  <1>10. u * c \in Nat /\ v * c \in Nat /\ u * c <= v * c
    BY <1>7, <1>9
  <1>11. t.latency[1].ms + rs.initial \in Nat /\ t.latency[1].ms <= t.latency[1].ms + rs.initial
    OBVIOUS
  <1>12. QED
    BY <1>8, <1>10, <1>11

\* The regions within reach are those of the ticket that are near enough.
LEMMA RegionsInReach ==
    ASSUME NEW S, NEW t, t.latency \in Seq(S), NEW rs, NEW at
    PROVE  /\ FilterRegionByStep(t, rs, at) \in Seq(S)
           /\ RegionNames(FilterRegionByStep(t, rs, at)) =
                {t.latency[i].region : i \in {j \in DOMAIN t.latency : InReach(t.latency[j].ms, t, rs, at)}}
  <1>1. DEFINE T == {i \in DOMAIN t.latency : InReach(t.latency[i].ms, t, rs, at)}
               q == FilterRegionByStep(t, rs, at)
  <1>2. q = Picked(t.latency, T)
    BY DEF FilterRegionByStep
  <1>3. q \in Seq(S) /\ ToSet(q) = {t.latency[i] : i \in T}
    <2>1. T \subseteq DOMAIN t.latency
      OBVIOUS
    <2>2. HIDE DEF T, q
    <2>3. QED
      BY <1>2, <2>1, PickedProperties
  <1>4. RegionNames(q) = {x.region : x \in ToSet(q)}
    BY DEF RegionNames, ToSet
  <1>5. HIDE DEF T, q
  <1>6. RegionNames(q) = {t.latency[i].region : i \in T}
    BY <1>3, <1>4
  <1>7. QED
    BY <1>3, <1>6 DEF T, q

\* Of regions in order, the nearest ones are within reach: the first of them if it is
\* no slower than the maximum.
LEMMA NearestInReach ==
    ASSUME NEW S, NEW t, t.latency \in Seq(S), \A i \in DOMAIN t.latency : t.latency[i].ms \in Nat,
           \A i, j \in DOMAIN t.latency : i < j => t.latency[i].ms < t.latency[j].ms,
           t.latency # <<>>, t.createdAt \in Nat,
           NEW rs, rs.rate \in Nat \ {0}, {rs.initial, rs.range, rs.max} \subseteq Nat,
           NEW at \in Nat, t.createdAt <= at
    PROVE  \E k \in 0 .. Len(t.latency) :
              /\ FilterRegionByStep(t, rs, at) = [i \in 1 .. k |-> t.latency[i]]
              /\ WithinMax(t.latency[1].ms, rs) => k > 0
  <1>1. Len(t.latency) \in Nat /\ DOMAIN t.latency = 1 .. Len(t.latency) /\ 1 \in DOMAIN t.latency
    BY ToSetType
  <1>2. DEFINE T == {i \in DOMAIN t.latency : InReach(t.latency[i].ms, t, rs, at)}
               out == {i \in 1 .. Len(t.latency) + 1 : i \notin T}
  <1>3. PICK n \in out : \A i \in out : n <= i
    <2>1. Len(t.latency) + 1 \in out
      BY <1>1
    <2>2. out \subseteq Nat
      OBVIOUS
    <2>3. HIDE DEF out
    <2>4. QED
      BY <2>1, <2>2, SmallestNumber
  <1>4. n \in 1 .. Len(t.latency) + 1 /\ n \notin T
    BY <1>3
  <1>5. PICK limit \in Nat : limit = LatencyLimit(t, rs, at) /\ t.latency[1].ms <= limit
    BY <1>1, LimitGrows
  <1>6. T = 1 .. n - 1
    <2>1. ASSUME NEW i \in 1 .. n - 1 PROVE i \in T
      <3>1. i \in 1 .. Len(t.latency) + 1 /\ ~(n <= i)
        BY <1>1, <1>4, <2>1
      <3>2. HIDE DEF T
      <3>3. QED
        BY <1>3, <3>1
    <2>2. ASSUME NEW i \in T PROVE i \in 1 .. n - 1
      <3>1. i \in 1 .. Len(t.latency) /\ InReach(t.latency[i].ms, t, rs, at)
        BY <1>1, <2>2
      <3>2. CASE n < i
        <4>1. n \in DOMAIN t.latency /\ i \in DOMAIN t.latency
          BY <1>1, <1>4, <3>1, <3>2
        <4>2. t.latency[n].ms < t.latency[i].ms /\ t.latency[n].ms \in Nat /\ t.latency[i].ms \in Nat
          BY <3>2, <4>1
        <4>3. t.latency[i].ms <= limit /\ (rs.max <= 0 \/ t.latency[i].ms <= rs.max)
          BY <1>5, <3>1 DEF InReach, WithinMax
        <4>4. t.latency[n].ms <= limit /\ (rs.max <= 0 \/ t.latency[n].ms <= rs.max)
          BY <4>2, <4>3
        <4>5. InReach(t.latency[n].ms, t, rs, at)
          BY <1>5, <4>4 DEF InReach, WithinMax
        <4>6. QED
          BY <1>4, <4>1, <4>5
      <3>3. CASE n = i
        BY <1>4, <2>2, <3>3
      <3>4. QED
        BY <1>1, <1>4, <3>1, <3>2, <3>3
    <2>3. QED
      BY <2>1, <2>2
  <1>7. FilterRegionByStep(t, rs, at) = Picked(t.latency, T)
    BY DEF FilterRegionByStep
  <1>8. FilterRegionByStep(t, rs, at) = [i \in 1 .. n - 1 |-> t.latency[i]]
    <2>1. n - 1 \in Nat
      BY <1>1, <1>4
    <2>2. HIDE DEF T
    <2>3. QED
      BY <1>6, <1>7, <2>1, PickedPrefix
  <1>9. WithinMax(t.latency[1].ms, rs) => n - 1 > 0
    <2>1. WithinMax(t.latency[1].ms, rs) => 1 \in T
      BY <1>1, <1>5 DEF InReach
    <2>2. QED
      BY <1>1, <1>4, <2>1
  <1>10. n - 1 \in 0 .. Len(t.latency)
    BY <1>1, <1>4
  <1>11. QED
    BY <1>8, <1>9, <1>10
=============================================================================
