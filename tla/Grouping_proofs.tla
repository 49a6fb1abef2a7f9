---------------------------- MODULE Grouping_proofs ----------------------------
(***************************************************************************)
(* Lemmas about sequences and groupings that the proofs about both streams *)
(* use.                                                                    *)
(***************************************************************************)
EXTENDS Grouping, TLAPS, SequenceTheorems, FiniteSetTheorems

-----------------------------------------------------------------------------
(* Elements of the sequences the goroutines build and consume.             *)

\* Appending a value adds it to the elements.
LEMMA ElementsAppend ==
    ASSUME NEW S, NEW s \in Seq(S), NEW x \in S
    PROVE  /\ Append(s, x) \in Seq(S)
           /\ Elements(Append(s, x)) = Elements(s) \cup {x}
           /\ Len(Append(s, x)) = Len(s) + 1
           /\ \A i \in 1 .. Len(s) : Append(s, x)[i] = s[i]
           /\ Append(s, x)[Len(s) + 1] = x
  <1>1. /\ Append(s, x) \in Seq(S)
        /\ Len(s) \in Nat
        /\ Len(Append(s, x)) = Len(s) + 1
        /\ \A i \in 1 .. Len(s) : Append(s, x)[i] = s[i]
        /\ Append(s, x)[Len(s) + 1] = x
    OBVIOUS
  <1>2. ASSUME NEW e \in Elements(Append(s, x)) PROVE e \in Elements(s) \cup {x}
    <2>1. PICK i \in 1 .. Len(s) + 1 : e = Append(s, x)[i]
      BY <1>1 DEF Elements
    <2>2. CASE i = Len(s) + 1
      BY <2>1, <2>2, <1>1
    <2>3. CASE i # Len(s) + 1
      <3>1. i \in 1 .. Len(s)
        BY <2>3, <1>1
      <3>2. QED
        BY <3>1, <2>1, <1>1 DEF Elements
    <2>4. QED
      BY <2>2, <2>3
  <1>3. ASSUME NEW e \in Elements(s) PROVE e \in Elements(Append(s, x))
    <2>1. PICK i \in 1 .. Len(s) : e = s[i]
      BY DEF Elements
    <2>2. i \in 1 .. Len(Append(s, x)) /\ Append(s, x)[i] = e
      BY <1>1, <2>1
    <2>3. QED
      BY <2>2 DEF Elements
  <1>4. x \in Elements(Append(s, x))
    <2>1. Len(s) + 1 \in 1 .. Len(Append(s, x))
      BY <1>1
    <2>2. QED
      BY <2>1, <1>1 DEF Elements
  <1>5. QED
    BY <1>1, <1>2, <1>3, <1>4

\* Taking the head leaves the other elements in their order.
LEMMA ElementsTail ==
    ASSUME NEW S, NEW s \in Seq(S), s # <<>>
    PROVE  /\ Head(s) \in S
           /\ Head(s) = s[1]
           /\ Tail(s) \in Seq(S)
           /\ Len(s) \in Nat \ {0}
           /\ Len(Tail(s)) = Len(s) - 1
           /\ \A i \in 1 .. Len(Tail(s)) : i + 1 \in 1 .. Len(s) /\ Tail(s)[i] = s[i + 1]
           /\ Head(s) \in Elements(s)
           /\ Elements(Tail(s)) \subseteq Elements(s)
           /\ Elements(s) \subseteq Elements(Tail(s)) \cup {Head(s)}
  <1>1. /\ Head(s) \in S
        /\ Head(s) = s[1]
        /\ Tail(s) \in Seq(S)
        /\ Len(s) \in Nat \ {0}
        /\ Len(Tail(s)) = Len(s) - 1
        /\ \A i \in 1 .. Len(Tail(s)) : i + 1 \in 1 .. Len(s) /\ Tail(s)[i] = s[i + 1]
    BY EmptySeq, HeadTailProperties, LenProperties
  <1>2. Head(s) \in Elements(s)
    BY <1>1 DEF Elements
  <1>3. Elements(Tail(s)) \subseteq Elements(s)
    BY <1>1 DEF Elements
  <1>4. ASSUME NEW e \in Elements(s) PROVE e \in Elements(Tail(s)) \cup {Head(s)}
    <2>1. PICK i \in 1 .. Len(s) : e = s[i]
      BY DEF Elements
    <2>2. CASE i = 1
      BY <2>1, <2>2, <1>1
    <2>3. CASE i # 1
      <3>1. i - 1 \in 1 .. Len(Tail(s)) /\ Tail(s)[i - 1] = s[i]
        BY <2>3, <1>1
      <3>2. QED
        BY <3>1, <2>1 DEF Elements
    <2>4. QED
      BY <2>2, <2>3
  <1>5. QED
    BY <1>1, <1>2, <1>3, <1>4

\* The empty sequence has no elements.
LEMMA ElementsEmpty == Elements(<<>>) = {}
  BY DEF Elements

\* The elements of a sequence over S are in S.
LEMMA ElementsType ==
    ASSUME NEW S, NEW s \in Seq(S)
    PROVE  Elements(s) \subseteq S
  BY ElementOfSeq DEF Elements

\* A sequence has finitely many elements.
LEMMA ElementsFinite ==
    ASSUME NEW S, NEW s \in Seq(S)
    PROVE  IsFiniteSet(Elements(s))
  <1>1. Len(s) \in Nat /\ s \in [1 .. Len(s) -> Elements(s)]
    BY LenProperties DEF Elements
  <1>2. \A e \in Elements(s) : \E i \in 1 .. Len(s) : s[i] = e
    BY DEF Elements
  <1>3. s \in Surjection(1 .. Len(s), Elements(s))
    BY <1>1, <1>2 DEF Surjection
  <1>4. IsFiniteSet(1 .. Len(s))
    BY <1>1, FS_Interval
  <1>5. QED
    BY <1>3, <1>4, FS_Surjection

\* The head of a sequence without repetitions is not in its tail, and the tail
\* has no repetitions either.
LEMMA TailDistinct ==
    ASSUME NEW S, NEW s \in Seq(S), s # <<>>,
           \A i, j \in 1 .. Len(s) : i # j => s[i] # s[j]
    PROVE  /\ Head(s) \notin Elements(Tail(s))
           /\ \A i, j \in 1 .. Len(Tail(s)) : i # j => Tail(s)[i] # Tail(s)[j]
  <1>1. /\ Len(s) \in Nat \ {0}
        /\ Len(Tail(s)) = Len(s) - 1
        /\ Head(s) = s[1]
        /\ \A i \in 1 .. Len(Tail(s)) : i + 1 \in 1 .. Len(s) /\ Tail(s)[i] = s[i + 1]
    BY ElementsTail
  <1>2. \A i, j \in 1 .. Len(Tail(s)) : i # j => Tail(s)[i] # Tail(s)[j]
    BY <1>1
  <1>3. ASSUME NEW i \in 1 .. Len(Tail(s)) PROVE Tail(s)[i] # Head(s)
    <2>1. i + 1 \in 1 .. Len(s) /\ 1 \in 1 .. Len(s) /\ i + 1 # 1
      BY <1>1
    <2>2. QED
      BY <2>1, <1>1
  <1>4. QED
    BY <1>2, <1>3 DEF Elements

\* Appending a value that is not there yet keeps a sequence without repetitions.
LEMMA AppendDistinct ==
    ASSUME NEW S, NEW s \in Seq(S), NEW x \in S, x \notin Elements(s),
           \A i, j \in 1 .. Len(s) : i # j => s[i] # s[j]
    PROVE  \A i, j \in 1 .. Len(Append(s, x)) : i # j => Append(s, x)[i] # Append(s, x)[j]
  <1>1. /\ Len(s) \in Nat
        /\ Len(Append(s, x)) = Len(s) + 1
        /\ \A i \in 1 .. Len(s) : Append(s, x)[i] = s[i]
        /\ Append(s, x)[Len(s) + 1] = x
    BY ElementsAppend, LenProperties
  <1>2. \A i \in 1 .. Len(s) : s[i] # x
    BY DEF Elements
  <1>3. SUFFICES ASSUME NEW i \in 1 .. Len(Append(s, x)), NEW j \in 1 .. Len(Append(s, x)), i # j
                 PROVE  Append(s, x)[i] # Append(s, x)[j]
    OBVIOUS
  <1>4. i \in 1 .. Len(s) \/ i = Len(s) + 1
    BY <1>1
  <1>5. j \in 1 .. Len(s) \/ j = Len(s) + 1
    BY <1>1
  <1>6. QED
    BY <1>1, <1>2, <1>3, <1>4, <1>5

-----------------------------------------------------------------------------
(* What a batch of matchmaking may yield.                                  *)

\* Groupings of the elements of a chunk are sequences of disjoint, non-empty
\* groups of them.
LEMMA GroupingsType ==
    ASSUME NEW T, NEW c \in Seq(T), NEW g \in Groupings(Elements(c))
    PROVE  /\ g \in Seq(SUBSET T)
           /\ \A m \in Elements(g) : m # {} /\ m \subseteq Elements(c)
           /\ \A i, j \in 1 .. Len(g) : i # j => g[i] \cap g[j] = {}
  <1>1. PICK n \in 0 .. Cardinality(Elements(c)) : g \in [1 .. n -> (SUBSET Elements(c)) \ {{}}]
    BY DEF Groupings
  <1>2. n \in Nat
    BY <1>1, ElementsFinite, FS_CardinalityType
  <1>3. Elements(c) \subseteq T
    BY ElementsType
  <1>4. g \in Seq(SUBSET T) /\ Len(g) = n /\ DOMAIN g = 1 .. n
    BY <1>1, <1>2, <1>3
  <1>5. QED
    BY <1>1, <1>4 DEF Groupings, Disjoint, Elements

=============================================================================
