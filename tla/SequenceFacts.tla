---------------------------- MODULE SequenceFacts ----------------------------
(***************************************************************************)
(* Facts about the natural numbers and sequences that the proofs of the    *)
(* other modules rest on: induction stated with sets of numbers, and what  *)
(* follows from it.                                                        *)
(***************************************************************************)
EXTENDS Integers, Sequences, FiniteSets, Subsequence, FiniteSetTheorems, WellFoundedInduction, TLAPS

\* A set of natural numbers has a least member: the intervals up to its members
\* are finite sets, which strict inclusion orders well.
LEMMA LeastMember ==
  ASSUME NEW T \in SUBSET Nat, T # {}
  PROVE  \E n \in T : \A m \in T : n <= m
<1> DEFINE upTo == {1 .. n : n \in T}
<1>1. upTo \subseteq FiniteSubsetsOf(Nat) /\ upTo # {}
  <2>1. \A n \in T : 1 .. n \in SUBSET Nat /\ IsFiniteSet(1 .. n)
    BY FS_Interval
  <2> QED
    BY <2>1 DEF FiniteSubsetsOf
<1> HIDE DEF upTo
<1>2. PICK x \in upTo : \A y \in upTo : ~ (<<y, x>> \in StrictSubsetOrdering(Nat))
  BY <1>1, WFMin, FS_StrictSubsetOrderingWellFounded
<1> USE DEF upTo
<1>3. PICK n \in T : x = 1 .. n
  BY <1>2
<1>4. ASSUME NEW m \in T, ~ (n <= m) PROVE FALSE
  <2>1. 1 .. m \subseteq 1 .. n /\ n \in 1 .. n /\ n \notin 1 .. m
    BY <1>4
  <2>2. <<1 .. m, 1 .. n>> \in StrictSubsetOrdering(Nat)
    BY <2>1 DEF StrictSubsetOrdering
  <2> QED
    BY <1>2, <1>3, <2>2
<1> QED
  BY <1>4

\* Induction over the natural numbers.
LEMMA SetInduction ==
  ASSUME NEW T \in SUBSET Nat, 0 \in T, \A n \in T : n + 1 \in T
  PROVE  T = Nat
<1> SUFFICES ASSUME T # Nat PROVE FALSE
  OBVIOUS
<1>1. PICK n \in Nat \ T : \A m \in Nat \ T : n <= m
  BY LeastMember
<1>2. n - 1 \in Nat /\ n - 1 \in T
  BY <1>1
<1> QED
  BY <1>1, <1>2

\* A bounded set of natural numbers has a greatest member.
LEMMA GreatestMember ==
  ASSUME NEW T \in SUBSET Nat, T # {}, NEW bound \in Nat, \A m \in T : m <= bound
  PROVE  \E n \in T : \A m \in T : m <= n
<1> DEFINE above == {n \in Nat : \A m \in T : m <= n}
<1>1. above \in SUBSET Nat /\ bound \in above
  OBVIOUS
<1>2. PICK n \in above : \A m \in above : n <= m
  BY <1>1, LeastMember
<1>3. n \in T
  <2> SUFFICES ASSUME n \notin T PROVE FALSE
    OBVIOUS
  <2>1. \A m \in T : m <= n - 1
    BY <1>2
  <2>2. n - 1 \in Nat
    <3>1. PICK m \in T : m \in Nat
      OBVIOUS
    <3>2. m <= n - 1 /\ n \in Nat
      BY <2>1
    <3> QED
      BY <3>1, <3>2
  <2> QED
    BY <1>2, <2>1, <2>2
<1> QED
  BY <1>2, <1>3

\* A function on 1..n is a sequence of length n.
LEMMA FunctionIsSeq ==
  ASSUME NEW T, NEW n \in Nat, NEW f, DOMAIN f = 1 .. n,
         f = [i \in 1 .. n |-> f[i]], \A i \in 1 .. n : f[i] \in T
  PROVE  f \in Seq(T) /\ Len(f) = n
OBVIOUS
-----------------------------------------------------------------------------
(* Subsequence.                                                            *)

\* The first k steps of the recursion in Only.
KeptUpTo(s, S, k, kept) ==
  kept = [n \in 0 .. k |->
            IF n = 0 THEN <<>>
            ELSE IF s[n] \in S THEN Append(kept[n - 1], s[n]) ELSE kept[n - 1]]

\* The function that Only is made of exists: it does up to any length.
LEMMA KeptExists ==
  ASSUME NEW T, NEW s \in Seq(T), NEW S, NEW k \in Nat
  PROVE  \E kept : KeptUpTo(s, S, k, kept)
<1> DEFINE P == {n \in Nat : \E kept : KeptUpTo(s, S, n, kept)}
<1>1. 0 \in P
  <2> DEFINE kept == [n \in 0 .. 0 |-> <<>>]
  <2>1. KeptUpTo(s, S, 0, kept)
    BY DEF KeptUpTo
  <2> QED
    BY <2>1
<1>2. ASSUME NEW n \in P PROVE n + 1 \in P
  <2>1. PICK kept : KeptUpTo(s, S, n, kept)
    OBVIOUS
  <2> DEFINE more == [m \in 0 .. n + 1 |-> IF m <= n THEN kept[m]
                        ELSE IF s[m] \in S THEN Append(kept[m - 1], s[m]) ELSE kept[m - 1]]
  <2>2. \A m \in 0 .. n : kept[m] = IF m = 0 THEN <<>>
            ELSE IF s[m] \in S THEN Append(kept[m - 1], s[m]) ELSE kept[m - 1]
    BY <2>1 DEF KeptUpTo
  <2>3. \A m \in 0 .. n + 1 : more[m] = IF m = 0 THEN <<>>
            ELSE IF s[m] \in S THEN Append(more[m - 1], s[m]) ELSE more[m - 1]
    BY <2>2
  <2>4. KeptUpTo(s, S, n + 1, more)
    <3> HIDE DEF more
    <3>1. more = [m \in 0 .. n + 1 |-> more[m]]
      BY DEF more
    <3> QED
      BY <2>3, <3>1 DEF KeptUpTo
  <2> QED
    BY <2>4
<1> HIDE DEF P
<1>3. P = Nat
  <2>1. P \in SUBSET Nat
    BY DEF P
  <2> QED
    BY <1>1, <1>2, <2>1, SetInduction
<1> QED
  BY <1>3 DEF P

\* ... and so Only is a value of it.
LEMMA OnlyIsKept ==
  ASSUME NEW T, NEW s \in Seq(T), NEW S
  PROVE  \E kept : KeptUpTo(s, S, Len(s), kept) /\ Only(s, S) = kept[Len(s)]
<1> DEFINE kept == CHOOSE kept : KeptUpTo(s, S, Len(s), kept)
<1>1. Only(s, S) = kept[Len(s)]
  BY DEF Only, KeptUpTo
<1>2. KeptUpTo(s, S, Len(s), kept)
  <2>1. Len(s) \in Nat
    OBVIOUS
  <2>2. \E f : KeptUpTo(s, S, Len(s), f)
    BY <2>1, KeptExists
  <2> QED
    BY <2>2, Zenon
<1> QED
  BY <1>1, <1>2

\* What is kept of a sequence, and how much.
LEMMA OnlyFacts ==
  ASSUME NEW T, NEW s \in Seq(T), NEW S
  PROVE  /\ Only(s, S) \in Seq(T \cap S)
         /\ Len(Only(s, S)) = Cardinality({i \in 1 .. Len(s) : s[i] \in S})
<1>1. PICK kept : KeptUpTo(s, S, Len(s), kept) /\ Only(s, S) = kept[Len(s)]
  BY OnlyIsKept
<1> DEFINE within(n) == {i \in 1 .. n : s[i] \in S}
           P == {n \in Nat : n <= Len(s) => /\ kept[n] \in Seq(T \cap S)
                                            /\ IsFiniteSet(within(n))
                                            /\ Len(kept[n]) = Cardinality(within(n))}
<1>2. Len(s) \in Nat
  OBVIOUS
<1>3. 0 \in P
  <2>1. kept[0] = <<>>
    BY <1>1, <1>2 DEF KeptUpTo
  <2>2. within(0) = {}
    OBVIOUS
  <2>3. IsFiniteSet({}) /\ Cardinality({}) = 0
    BY FS_EmptySet
  <2> HIDE DEF within
  <2>4. kept[0] \in Seq(T \cap S) /\ Len(kept[0]) = 0
    BY <2>1
  <2> QED
    BY <2>2, <2>3, <2>4
<1>4. ASSUME NEW n \in P PROVE n + 1 \in P
  <2> SUFFICES ASSUME n + 1 <= Len(s)
               PROVE  /\ kept[n + 1] \in Seq(T \cap S)
                      /\ IsFiniteSet(within(n + 1))
                      /\ Len(kept[n + 1]) = Cardinality(within(n + 1))
    OBVIOUS
  <2>1. /\ n \in Nat /\ n + 1 \in 1 .. Len(s)
        /\ kept[n] \in Seq(T \cap S) /\ IsFiniteSet(within(n)) /\ Len(kept[n]) = Cardinality(within(n))
    BY <1>2
  <2>2. kept[n + 1] = IF s[n + 1] \in S THEN Append(kept[n], s[n + 1]) ELSE kept[n]
    <3>1. n + 1 \in 0 .. Len(s) /\ n + 1 # 0 /\ (n + 1) - 1 = n
      BY <2>1
    <3> QED
      BY <1>1, <3>1 DEF KeptUpTo
  <2>3. CASE s[n + 1] \in S
    <3>1. within(n + 1) = within(n) \cup {n + 1} /\ n + 1 \notin within(n)
      BY <2>1, <2>3
    <3>2. s[n + 1] \in T \cap S
      BY <2>1, <2>3
    <3> HIDE DEF within
    <3>3. IsFiniteSet(within(n + 1)) /\ Cardinality(within(n + 1)) = Cardinality(within(n)) + 1
      BY <2>1, <3>1, FS_AddElement
    <3> QED
      BY <2>1, <2>2, <2>3, <3>2, <3>3
  <2>4. CASE s[n + 1] \notin S
    <3>1. within(n + 1) = within(n)
      BY <2>1, <2>4
    <3> HIDE DEF within
    <3> QED
      BY <2>1, <2>2, <2>4, <3>1
  <2> QED
    BY <2>3, <2>4
<1> HIDE DEF P
<1>5. P = Nat
  <2>1. P \in SUBSET Nat
    BY DEF P
  <2> QED
    BY <1>3, <1>4, <2>1, SetInduction
<1>6. Len(s) \in P
  BY <1>2, <1>5
<1> QED
  BY <1>1, <1>2, <1>6 DEF P

\* A sequence of members is kept as it is.
LEMMA OnlyKeepsAll ==
  ASSUME NEW S, NEW s \in Seq(S)
  PROVE  Only(s, S) = s
<1>1. PICK kept : KeptUpTo(s, S, Len(s), kept) /\ Only(s, S) = kept[Len(s)]
  BY OnlyIsKept
<1> DEFINE P == {n \in Nat : n <= Len(s) => kept[n] = SubSeq(s, 1, n)}
<1>2. Len(s) \in Nat
  OBVIOUS
<1>3. 0 \in P
  <2>1. kept[0] = <<>>
    BY <1>1, <1>2 DEF KeptUpTo
  <2>2. SubSeq(s, 1, 0) = <<>>
    OBVIOUS
  <2> QED
    BY <2>1, <2>2
<1>4. ASSUME NEW n \in P PROVE n + 1 \in P
  <2> SUFFICES ASSUME n + 1 <= Len(s)
               PROVE  kept[n + 1] = SubSeq(s, 1, n + 1)
    OBVIOUS
  <2>1. n \in Nat /\ n + 1 \in 1 .. Len(s) /\ kept[n] = SubSeq(s, 1, n)
    BY <1>2
  <2>2. s[n + 1] \in S
    BY <2>1
  <2>3. kept[n + 1] = Append(kept[n], s[n + 1])
    <3>1. n + 1 \in 0 .. Len(s) /\ n + 1 # 0 /\ (n + 1) - 1 = n
      BY <2>1
    <3> QED
      BY <1>1, <2>2, <3>1 DEF KeptUpTo
  <2>4. SubSeq(s, 1, n + 1) = Append(SubSeq(s, 1, n), s[n + 1])
    BY <2>1
  <2> QED
    BY <2>1, <2>3, <2>4
<1> HIDE DEF P
<1>5. P = Nat
  <2>1. P \in SUBSET Nat
    BY DEF P
  <2> QED
    BY <1>3, <1>4, <2>1, SetInduction
<1>6. kept[Len(s)] = SubSeq(s, 1, Len(s))
  BY <1>2, <1>5 DEF P
<1>7. SubSeq(s, 1, Len(s)) = s
  OBVIOUS
<1> QED
  BY <1>1, <1>6, <1>7

\* Sequences with the same members are the same.
LEMMA SameSeq ==
  ASSUME NEW T, NEW s \in Seq(T), NEW t \in Seq(T), Len(s) = Len(t), \A i \in 1 .. Len(s) : s[i] = t[i]
  PROVE  s = t
OBVIOUS

LEMMA AppendIsLonger ==
  ASSUME NEW T, NEW s \in Seq(T), NEW x
  PROVE  Len(Append(s, x)) = Len(s) + 1 /\ Append(s, x) # <<>>
<1>1. Len(Append(s, x)) = Len(s) + 1 /\ Len(s) \in Nat /\ Len(<<>>) = 0
  OBVIOUS
<1>2. Len(Append(s, x)) # Len(<<>>)
  BY <1>1
<1> QED
  BY <1>1, <1>2

\* A sequence that is not empty has a last member.
LEMMA LastOfSeq ==
  ASSUME NEW T, NEW s \in Seq(T), s # <<>>
  PROVE  \E t \in Seq(T), x \in T : s = Append(t, x)
<1> DEFINE n == Len(s) - 1
           front == SubSeq(s, 1, n)
           again == Append(front, s[n + 1])
<1>1. n \in Nat /\ n + 1 \in 1 .. Len(s) /\ n <= Len(s) /\ n + 1 = Len(s)
  OBVIOUS
<1> HIDE DEF n
<1>2. front \in Seq(T) /\ Len(front) = n /\ s[n + 1] \in T
  BY <1>1
<1>3. again \in Seq(T) /\ Len(again) = Len(s) /\ \A i \in 1 .. Len(s) : again[i] = s[i]
  BY <1>1, <1>2
<1> HIDE DEF again
<1>4. again = s
  BY <1>3, SameSeq
<1> HIDE DEF front
<1> QED
  BY <1>2, <1>4 DEF again

LEMMA ConcatFacts ==
  ASSUME NEW T, NEW s \in Seq(T), NEW t \in Seq(T)
  PROVE  /\ s \o t \in Seq(T) /\ Len(s \o t) = Len(s) + Len(t)
         /\ \A i \in 1 .. Len(s) : (s \o t)[i] = s[i]
         /\ \A i \in 1 .. Len(t) : (s \o t)[Len(s) + i] = t[i]
OBVIOUS

LEMMA SubSeqFacts ==
  ASSUME NEW T, NEW s \in Seq(T), NEW m \in 1 .. Len(s) + 1, NEW n \in 0 .. Len(s), m <= n + 1
  PROVE  /\ SubSeq(s, m, n) \in Seq(T) /\ Len(SubSeq(s, m, n)) = n - m + 1
         /\ \A i \in 1 .. n - m + 1 : SubSeq(s, m, n)[i] = s[m + i - 1]
OBVIOUS
-----------------------------------------------------------------------------
(* Induction over sequences.                                               *)

\* What holds of the empty sequence, and of a longer one if of a sequence, holds
\* of every sequence.
LEMMA SeqInduction ==
  ASSUME NEW C, NEW P \in SUBSET Seq(C), <<>> \in P, \A s \in P, c \in C : Append(s, c) \in P
  PROVE  P = Seq(C)
<1> DEFINE T == {n \in Nat : \A s \in Seq(C) : Len(s) = n => s \in P}
<1>1. 0 \in T
  <2>1. \A s \in Seq(C) : Len(s) = 0 => s = <<>>
    OBVIOUS
  <2> QED
    BY <2>1
<1>2. ASSUME NEW n \in T PROVE n + 1 \in T
  <2> SUFFICES ASSUME NEW s \in Seq(C), Len(s) = n + 1 PROVE s \in P
    OBVIOUS
  <2> DEFINE front == SubSeq(s, 1, n)
  <2>1. n \in Nat /\ front \in Seq(C) /\ Len(front) = n /\ s[n + 1] \in C /\ s = Append(front, s[n + 1])
    <3>1. n \in Nat /\ n + 1 \in 1 .. Len(s) /\ n <= Len(s)
      OBVIOUS
    <3>2. front \in Seq(C) /\ Len(front) = n /\ s[n + 1] \in C
      BY <3>1
    <3> DEFINE again == Append(front, s[n + 1])
    <3>3. again \in Seq(C) /\ Len(again) = Len(s) /\ \A i \in 1 .. Len(s) : again[i] = s[i]
      BY <3>1, <3>2
    <3> HIDE DEF again
    <3>4. again = s
      BY <3>3, SameSeq
    <3> QED
      BY <3>1, <3>2, <3>4 DEF again
  <2> HIDE DEF front
  <2>2. front \in P
    BY <2>1
  <2> QED
    BY <2>1, <2>2
<1> HIDE DEF T
<1>3. T = Nat
  <2>1. T \in SUBSET Nat
    BY DEF T
  <2> QED
    BY <1>1, <1>2, <2>1, SetInduction
<1>4. ASSUME NEW s \in Seq(C) PROVE s \in P
  <2>1. Len(s) \in T
    BY <1>3
  <2> QED
    BY <2>1 DEF T
<1> QED
  BY <1>4
-----------------------------------------------------------------------------
(* Folds.  A loop over a sequence is a recursive function of how far it    *)
(* has come; that is a function of the sequence, built member by member.   *)

\* The states of a loop over s, all in S, that starts with b and steps by F.
Steps(S, C) == [S \X C -> S]
Loop(S, F, b, s, at) ==
  /\ at \in [0 .. Len(s) -> S]
  /\ at[0] = b /\ \A i \in 1 .. Len(s) : at[i] = F[<<at[i - 1], s[i]>>]

\* A function that is such a loop wherever its states are in S.
LoopWithin(S, F, b, s, at) ==
  at[0] = b /\ \A i \in 1 .. Len(s) : at[i - 1] \in S => at[i] = F[<<at[i - 1], s[i]>>]
BeginsWith(t, s) == Len(s) <= Len(t) /\ \A i \in 1 .. Len(s) : t[i] = s[i]

\* There are such states, ...
LEMMA LoopExists ==
  ASSUME NEW C, NEW S, NEW b \in S, NEW F \in Steps(S, C), NEW s \in Seq(C)
  PROVE  \E at : Loop(S, F, b, s, at)
<1> DEFINE P == {n \in Nat : n <= Len(s) => \E at \in [0 .. n -> S] :
                                at[0] = b /\ \A i \in 1 .. n : at[i] = F[<<at[i - 1], s[i]>>]}
<1>1. Len(s) \in Nat
  OBVIOUS
<1>2. 0 \in P
  <2> DEFINE at == [i \in 0 .. 0 |-> b]
  <2>1. at \in [0 .. 0 -> S] /\ at[0] = b
    OBVIOUS
  <2>2. \A i \in 1 .. 0 : at[i] = F[<<at[i - 1], s[i]>>]
    OBVIOUS
  <2> HIDE DEF at
  <2> QED
    BY <2>1, <2>2
<1>3. ASSUME NEW n \in P PROVE n + 1 \in P
  <2> SUFFICES ASSUME n + 1 <= Len(s)
               PROVE  \E at \in [0 .. n + 1 -> S] :
                         at[0] = b /\ \A i \in 1 .. n + 1 : at[i] = F[<<at[i - 1], s[i]>>]
    OBVIOUS
  <2>1. n \in Nat /\ n <= Len(s)
    BY <1>1
  <2>2. PICK at \in [0 .. n -> S] : at[0] = b /\ \A i \in 1 .. n : at[i] = F[<<at[i - 1], s[i]>>]
    BY <2>1
  <2> DEFINE more == [i \in 0 .. n + 1 |-> IF i <= n THEN at[i] ELSE F[<<at[n], s[n + 1]>>]]
  <2>3. s[n + 1] \in C
    BY <2>1
  <2>4. <<at[n], s[n + 1]>> \in S \X C
    BY <2>1, <2>2, <2>3
  <2>5. F[<<at[n], s[n + 1]>>] \in S
    BY <2>4 DEF Steps
  <2>6. more \in [0 .. n + 1 -> S]
    BY <2>1, <2>2, <2>5
  <2>7. more[0] = b /\ \A i \in 1 .. n + 1 : more[i] = F[<<more[i - 1], s[i]>>]
    <3>1. \A i \in 0 .. n : more[i] = at[i]
      BY <2>1
    <3>2. more[n + 1] = F[<<at[n], s[n + 1]>>]
      BY <2>1
    <3>3. 0 \in 0 .. n /\ n \in 0 .. n
      BY <2>1
    <3> HIDE DEF more
    <3>4. ASSUME NEW i \in 1 .. n + 1 PROVE more[i] = F[<<more[i - 1], s[i]>>]
      <4>1. CASE i \in 1 .. n
        <5>1. i \in 0 .. n /\ i - 1 \in 0 .. n
          BY <2>1, <4>1
        <5> QED
          BY <2>2, <3>1, <4>1, <5>1
      <4>2. CASE i = n + 1
        <5>1. i - 1 = n
          BY <2>1, <4>2
        <5> QED
          BY <3>1, <3>2, <3>3, <4>2, <5>1
      <4> QED
        BY <2>1, <4>1, <4>2
    <3> QED
      BY <2>2, <3>1, <3>3, <3>4
  <2> QED
    BY <2>6, <2>7
<1> HIDE DEF P
<1>4. P = Nat
  <2>1. P \in SUBSET Nat
    BY DEF P
  <2> QED
    BY <1>2, <1>3, <2>1, SetInduction
<1> QED
  BY <1>1, <1>4 DEF P, Loop

\* ... and they are the only ones, also of a longer sequence as far as s goes.
LEMMA LoopIsUnique ==
  ASSUME NEW C, NEW S, NEW b \in S, NEW F \in Steps(S, C), NEW s \in Seq(C), NEW t \in Seq(C),
         BeginsWith(t, s), NEW at, Loop(S, F, b, s, at),
         NEW other, LoopWithin(S, F, b, t, other)
  PROVE  \A i \in 0 .. Len(s) : other[i] = at[i]
<1> DEFINE P == {n \in Nat : n <= Len(s) => other[n] = at[n]}
<1>1. Len(s) \in Nat /\ Len(t) \in Nat /\ Len(s) <= Len(t) /\ \A i \in 1 .. Len(s) : t[i] = s[i]
  BY DEF BeginsWith
<1>2. 0 \in P
  BY DEF Loop, LoopWithin
<1>3. ASSUME NEW n \in P PROVE n + 1 \in P
  <2> SUFFICES ASSUME n + 1 <= Len(s) PROVE other[n + 1] = at[n + 1]
    OBVIOUS
  <2>1. n \in Nat /\ n \in 0 .. Len(s) /\ n + 1 \in 1 .. Len(s) /\ n + 1 \in 1 .. Len(t) /\ (n + 1) - 1 = n
    BY <1>1
  <2>2. other[n] = at[n] /\ at[n] \in S
    BY <2>1 DEF Loop
  <2>3. other[n + 1] = F[<<other[n], t[n + 1]>>]
    BY <2>1, <2>2 DEF LoopWithin
  <2>4. at[n + 1] = F[<<at[n], s[n + 1]>>]
    BY <2>1 DEF Loop
  <2> QED
    BY <1>1, <2>1, <2>2, <2>3, <2>4
<1> HIDE DEF P
<1>4. P = Nat
  <2>1. P \in SUBSET Nat
    BY DEF P
  <2> QED
    BY <1>2, <1>3, <2>1, SetInduction
<1> QED
  BY <1>1, <1>4 DEF P

\* What a loop comes to, as a function of the sequence.
LEMMA FoldExists ==
  ASSUME NEW C, NEW S, NEW b \in S, NEW F \in Steps(S, C)
  PROVE  \E fold \in [Seq(C) -> S] :
           /\ fold[<<>>] = b
           /\ \A s \in Seq(C), c \in C : fold[Append(s, c)] = F[<<fold[s], c>>]
           /\ \A s \in Seq(C) : \E at : Loop(S, F, b, s, at) /\ at[Len(s)] = fold[s]
           /\ \A s \in Seq(C) : \A at : LoopWithin(S, F, b, s, at) => at[Len(s)] = fold[s]
<1> DEFINE states(s) == CHOOSE at : Loop(S, F, b, s, at)
           fold == [s \in Seq(C) |-> states(s)[Len(s)]]
<1>1. ASSUME NEW s \in Seq(C)
      PROVE  Loop(S, F, b, s, states(s))
  <2>1. \E at : Loop(S, F, b, s, at)
    BY LoopExists
  <2> QED
    BY <2>1, Zenon
<1> HIDE DEF states
<1>2. fold \in [Seq(C) -> S]
  <2>1. ASSUME NEW s \in Seq(C) PROVE states(s)[Len(s)] \in S
    <3>1. Len(s) \in 0 .. Len(s)
      OBVIOUS
    <3> QED
      BY <1>1, <3>1 DEF Loop
  <2> QED
    BY <2>1
<1>3. fold[<<>>] = b
  <2>1. <<>> \in Seq(C) /\ Len(<<>>) = 0
    OBVIOUS
  <2> QED
    BY <1>1, <2>1 DEF Loop
<1>4. ASSUME NEW s \in Seq(C), NEW at, LoopWithin(S, F, b, s, at)
      PROVE  at[Len(s)] = fold[s]
  <2>1. Len(s) \in 0 .. Len(s) /\ BeginsWith(s, s)
    BY DEF BeginsWith
  <2>2. \A i \in 0 .. Len(s) : at[i] = states(s)[i]
    BY <1>1, <1>4, <2>1, LoopIsUnique
  <2> QED
    BY <2>1, <2>2
<1>5. ASSUME NEW s \in Seq(C), NEW c \in C PROVE fold[Append(s, c)] = F[<<fold[s], c>>]
  <2> DEFINE t == Append(s, c)
             n == Len(s)
  <2>1. t \in Seq(C) /\ n \in Nat /\ Len(t) = n + 1 /\ t[n + 1] = c /\ \A i \in 1 .. n : t[i] = s[i]
    OBVIOUS
  <2> HIDE DEF t, n
  <2>2. Loop(S, F, b, t, states(t)) /\ Loop(S, F, b, s, states(s))
    BY <1>1, <2>1
  <2>3. LoopWithin(S, F, b, t, states(t)) /\ BeginsWith(t, s)
    BY <2>1, <2>2 DEF Loop, LoopWithin, BeginsWith, n
  <2>4. \A i \in 0 .. Len(s) : states(t)[i] = states(s)[i]
    BY <1>1, <2>1, <2>3, LoopIsUnique
  <2>5. \A i \in 0 .. n : states(t)[i] = states(s)[i]
    BY <2>4 DEF n
  <2>6. states(t)[n + 1] = F[<<states(t)[n], t[n + 1]>>]
    <3>1. n + 1 \in 1 .. Len(t) /\ (n + 1) - 1 = n
      BY <2>1
    <3> QED
      BY <2>2, <3>1 DEF Loop
  <2>7. fold[t] = states(t)[n + 1] /\ fold[s] = states(s)[n] /\ n \in 0 .. n
    BY <2>1 DEF n
  <2> QED
    BY <2>1, <2>5, <2>6, <2>7 DEF t
<1>6. ASSUME NEW s \in Seq(C)
      PROVE  \E at : Loop(S, F, b, s, at) /\ at[Len(s)] = fold[s]
  BY <1>1
<1> HIDE DEF fold
<1> QED
  BY <1>2, <1>3, <1>4, <1>5, <1>6
=============================================================================
