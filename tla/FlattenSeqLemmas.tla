-------------------------- MODULE FlattenSeqLemmas --------------------------
(***************************************************************************)
(* Facts about FlattenSeq of SequencesExt, the concatenation of a         *)
(* sequence of sequences, which ReadDebt's conservation property is       *)
(* stated with.  FlattenSeq is a recursive function over 1..Len(seqs)      *)
(* (flatten[i] == flatten[i-1] \o seqs[i]): its value is a CHOOSE, so     *)
(* the lemmas first show, by induction over the index, that exactly one   *)
(* function satisfies the recursion, then derive the equations the       *)
(* proofs about the reader use.                                           *)
(***************************************************************************)
EXTENDS SequencesExt, SequenceTheorems, InductionLemmas

\* h satisfies the recursion that defines FlattenSeq(s).
FlatStep(s, h) ==
    h = [i \in 1..Len(s) |-> IF i = 1 THEN s[i] ELSE h[i - 1] \o s[i]]

-----------------------------------------------------------------------------
\* The recursion, read at every index; h is a function on 1..Len(s).
LEMMA FlatStepAt ==
    ASSUME NEW s, NEW h, FlatStep(s, h)
    PROVE  /\ h = [i \in 1..Len(s) |-> h[i]]
           /\ \A i \in 1..Len(s) :
                  h[i] = IF i = 1 THEN s[i] ELSE h[i - 1] \o s[i]
BY Zenon DEF FlatStep

\* The recursion, read at index k + 1.
LEMMA FlatStepSucc ==
    ASSUME NEW s, NEW h, NEW n,
           \A i \in 1..n : h[i] = IF i = 1 THEN s[i] ELSE h[i - 1] \o s[i],
           NEW k \in Nat, k + 1 \in 1..n
    PROVE  h[k + 1] = IF k = 0 THEN s[1] ELSE h[k] \o s[k + 1]
<1>1. h[k + 1] = IF k + 1 = 1 THEN s[k + 1] ELSE h[k + 1 - 1] \o s[k + 1]
  OBVIOUS
<1>2. CASE k = 0
  BY <1>1, <1>2
<1>3. CASE k # 0
  <2>1. k + 1 - 1 = k /\ k + 1 # 1
    BY <1>3
  <2>2. h[k + 1 - 1] = h[k]
    BY <2>1
  <2>3. QED
    BY <1>1, <1>3, <2>1, <2>2
<1>4. QED
  BY <1>2, <1>3

\* At most one function satisfies the recursion.
LEMMA FlatStepUnique ==
    ASSUME NEW X, NEW s \in Seq(Seq(X)), NEW h, NEW g,
           FlatStep(s, h), FlatStep(s, g)
    PROVE  h = g
<1> DEFINE S == {m \in 0..Len(s) : \A i \in 1..m : h[i] = g[i]}
<1> HIDE DEF S
<1>1. Len(s) \in Nat
  BY LenProperties
<1>2. 0 \in S
  BY <1>1 DEF S
<1>3. ASSUME NEW k \in 0..(Len(s) - 1), k \in S PROVE k + 1 \in S
  <2>1. \A i \in 1..k : h[i] = g[i]
    BY <1>3 DEF S
  <2>2. k \in Nat /\ k + 1 \in 1..Len(s)
    BY <1>1
  <2>3. /\ \A i \in 1..Len(s) : h[i] = IF i = 1 THEN s[i] ELSE h[i - 1] \o s[i]
        /\ \A i \in 1..Len(s) : g[i] = IF i = 1 THEN s[i] ELSE g[i - 1] \o s[i]
    BY FlatStepAt
  <2>4. /\ h[k + 1] = IF k = 0 THEN s[1] ELSE h[k] \o s[k + 1]
        /\ g[k + 1] = IF k = 0 THEN s[1] ELSE g[k] \o s[k + 1]
    BY <2>2, <2>3, FlatStepSucc, Zenon
  <2>5. h[k + 1] = g[k + 1]
    <3>1. k # 0 => h[k] = g[k]
      BY <2>1, <2>2
    <3>2. QED
      BY <2>4, <3>1, Zenon
  <2>6. \A i \in 1..(k + 1) : h[i] = g[i]
    BY <2>1, <2>2, <2>5
  <2>7. QED
    BY <2>2, <2>6 DEF S
<1>4. 0..Len(s) \subseteq S
  BY <1>1, <1>2, <1>3, IntervalInduction
<1>5. \A i \in 1..Len(s) : h[i] = g[i]
  BY <1>1, <1>4 DEF S
<1>6. h = [i \in 1..Len(s) |-> h[i]] /\ g = [i \in 1..Len(s) |-> g[i]]
  BY FlatStepAt
<1>7. QED
  BY <1>5, <1>6

\* Some function of sequences satisfies the recursion.
LEMMA FlatStepExists ==
    ASSUME NEW X, NEW s \in Seq(Seq(X))
    PROVE  \E h \in [1..Len(s) -> Seq(X)] : FlatStep(s, h)
<1> DEFINE Eq(f, m) == \A j \in 1..m :
                           f[j] = IF j = 1 THEN s[j] ELSE f[j - 1] \o s[j]
           S == {m \in 0..Len(s) : \E f \in [1..m -> Seq(X)] : Eq(f, m)}
<1> HIDE DEF Eq, S
<1>1. Len(s) \in Nat /\ \A i \in 1..Len(s) : s[i] \in Seq(X)
  BY LenProperties, ElementOfSeq
<1>2. 0 \in S
  <2> DEFINE e == [i \in 1..0 |-> <<>>]
  <2>1. e \in [1..0 -> Seq(X)]
    OBVIOUS
  <2>2. Eq(e, 0)
    BY DEF Eq
  <2>3. 0 \in 0..Len(s)
    BY <1>1
  <2> HIDE DEF e
  <2>4. QED
    BY <2>1, <2>2, <2>3 DEF S
<1>3. ASSUME NEW k \in 0..(Len(s) - 1), k \in S PROVE k + 1 \in S
  <2>1. PICK h \in [1..k -> Seq(X)] : Eq(h, k)
    BY <1>3 DEF S
  <2> DEFINE last == IF k = 0 THEN s[1] ELSE h[k] \o s[k + 1]
             h2 == [i \in 1..(k + 1) |-> IF i <= k THEN h[i] ELSE last]
  <2> HIDE DEF last, h2
  <2>2. last \in Seq(X)
    BY <1>1, <2>1, ConcatProperties DEF last
  <2>3. h2 \in [1..(k + 1) -> Seq(X)]
    BY <1>1, <2>1, <2>2 DEF h2
  <2>4. ASSUME NEW i \in 1..(k + 1)
        PROVE  h2[i] = IF i = 1 THEN s[i] ELSE h2[i - 1] \o s[i]
    <3>1. CASE i <= k /\ i = 1
      <4>1. h[i] = s[i]
        <5>1. i \in 1..k
          BY <3>1
        <5>2. QED
          BY <2>1, <3>1, <5>1, Zenon DEF Eq
      <4>2. h2[i] = h[i]
        BY <3>1 DEF h2
      <4>3. QED
        BY <3>1, <4>1, <4>2, Zenon
    <3>2. CASE i <= k /\ i # 1
      <4>1. h[i] = h[i - 1] \o s[i]
        <5>1. i \in 1..k
          BY <3>2
        <5>2. QED
          BY <2>1, <3>2, <5>1, Zenon DEF Eq
      <4>2. h2[i] = h[i] /\ h2[i - 1] = h[i - 1]
        BY <3>2 DEF h2
      <4>3. QED
        BY <3>2, <4>1, <4>2, Zenon
    <3>3. CASE i = k + 1
      <4>1. h2[i] = last
        BY <1>1, <3>3 DEF h2
      <4>2. CASE k = 0
        <5>1. i = 1 /\ last = s[1]
          BY <3>3, <4>2 DEF last
        <5>2. QED
          BY <4>1, <5>1
      <4>3. CASE k # 0
        <5>1. i # 1 /\ i - 1 = k /\ k \in 1..k
          BY <3>3, <4>3
        <5>2. h2[i - 1] = h[k]
          BY <5>1 DEF h2
        <5>3. last = h[k] \o s[k + 1] /\ s[i] = s[k + 1]
          BY <3>3, <4>3 DEF last
        <5>4. QED
          BY <4>1, <5>1, <5>2, <5>3
      <4>4. QED
        BY <4>2, <4>3, Zenon
    <3>4. QED
      BY <1>1, <3>1, <3>2, <3>3
  <2>5. Eq(h2, k + 1)
    BY <2>4 DEF Eq
  <2>6. k + 1 \in 0..Len(s)
    BY <1>1
  <2> HIDE DEF h2
  <2>7. QED
    BY <2>3, <2>5, <2>6 DEF S
<1>4. 0..Len(s) \subseteq S
  BY <1>1, <1>2, <1>3, IntervalInduction
<1>5. PICK h \in [1..Len(s) -> Seq(X)] : Eq(h, Len(s))
  <2>1. Len(s) \in S
    BY <1>1, <1>4
  <2>2. QED
    BY <2>1 DEF S
<1>6. FlatStep(s, h)
  BY <1>5, Zenon DEF FlatStep, Eq
<1>7. QED
  BY <1>5, <1>6

-----------------------------------------------------------------------------
\* FlattenSeq of a non-empty sequence is the last value of the function
\* that satisfies the recursion.
LEMMA FlattenSeqValue ==
    ASSUME NEW X, NEW s \in Seq(Seq(X)), s # <<>>, NEW h, FlatStep(s, h)
    PROVE  FlattenSeq(s) = h[Len(s)]
<1> DEFINE F == CHOOSE f : FlatStep(s, f)
<1>1. FlattenSeq(s) = F[Len(s)]
  <2>1. Len(s) # 0
    BY EmptySeq
  <2>2. QED
    BY <2>1, Zenon DEF FlattenSeq, FlatStep
<1>2. FlatStep(s, F)
  BY Zenon
<1>3. F = h
  BY <1>2, FlatStepUnique
<1>4. QED
  BY <1>1, <1>3

\* The concatenation of no sequence is empty.
LEMMA FlattenSeqEmpty == FlattenSeq(<<>>) = <<>>
BY DEF FlattenSeq

\* The concatenation of sequences of X is a sequence of X.
LEMMA FlattenSeqType ==
    ASSUME NEW X, NEW s \in Seq(Seq(X))
    PROVE  FlattenSeq(s) \in Seq(X)
<1>1. CASE s = <<>>
  <2>1. <<>> \in Seq(X)
    BY EmptySeq
  <2>2. QED
    BY <1>1, <2>1, FlattenSeqEmpty
<1>2. CASE s # <<>>
  <2>1. PICK h \in [1..Len(s) -> Seq(X)] : FlatStep(s, h)
    BY FlatStepExists
  <2>2. Len(s) \in 1..Len(s)
    BY <1>2, LenProperties, EmptySeq
  <2>3. QED
    BY <1>2, <2>1, <2>2, FlattenSeqValue
<1>3. QED
  BY <1>1, <1>2

\* Concatenating a sequence of sequences is concatenating its head with the
\* concatenation of its tail: how the reader consumes the stream.
LEMMA FlattenSeqHeadTail ==
    ASSUME NEW X, NEW s \in Seq(Seq(X)), s # <<>>
    PROVE  FlattenSeq(s) = Head(s) \o FlattenSeq(Tail(s))
<1> DEFINE rest == Tail(s)
<1> HIDE DEF rest
<1>1. Len(s) \in Nat \ {0}
  BY EmptySeq
<1>2. \A i \in 1..Len(s) : s[i] \in Seq(X)
  BY ElementOfSeq
<1>3. Head(s) = s[1]
  BY DEF Head
<1>4. rest \in Seq(Seq(X)) /\ Len(rest) = Len(s) - 1
  BY HeadTailProperties DEF rest
<1>5. \A j \in 1..Len(rest) : rest[j] = s[j + 1]
  BY <1>1, <1>4 DEF rest
<1>6. ASSUME NEW a \in Seq(X), NEW b \in Seq(X), NEW c \in Seq(X)
      PROVE  (a \o b) \o c = a \o (b \o c)
  BY ONLY ConcatAssociative, a \in Seq(X), b \in Seq(X), c \in Seq(X)
<1>7. CASE Len(s) = 1
  <2>1. rest = <<>>
    <3>1. Len(rest) = 0
      BY <1>4, <1>7
    <3>2. QED
      BY <1>4, <3>1, EmptySeq
  <2>2. PICK h \in [1..Len(s) -> Seq(X)] : FlatStep(s, h)
    BY FlatStepExists
  <2>3. \A i \in 1..Len(s) : h[i] = IF i = 1 THEN s[i] ELSE h[i - 1] \o s[i]
    BY <2>2, FlatStepAt
  <2>4. 1 \in 1..Len(s) /\ Len(s) = 1
    BY <1>7
  <2>5. h[Len(s)] = s[1]
    BY <2>3, <2>4, Zenon
  <2>6. FlattenSeq(s) = s[1]
    BY <2>2, <2>5, FlattenSeqValue
  <2>7. s[1] \o <<>> = s[1]
    BY <1>2, <2>4, ConcatEmptySeq
  <2>8. QED
    BY <1>3, <2>1, <2>6, <2>7, FlattenSeqEmpty DEF rest
<1>8. CASE Len(s) # 1
  <2>1. Len(rest) \in Nat \ {0}
    BY <1>1, <1>4, <1>8
  <2>2. rest # <<>>
    BY <1>4, <2>1, EmptySeq
  <2>3. PICK g \in [1..Len(rest) -> Seq(X)] : FlatStep(rest, g)
    BY <1>4, FlatStepExists
  <2>4. \A j \in 1..Len(rest) : g[j] = IF j = 1 THEN rest[j] ELSE g[j - 1] \o rest[j]
    BY <2>3, FlatStepAt
  <2> DEFINE h == [i \in 1..Len(s) |->
                     IF i = 1 THEN s[1] ELSE s[1] \o g[i - 1]]
  <2> HIDE DEF h
  <2>5. h \in [1..Len(s) -> Seq(X)]
    <3>1. \A i \in 2..Len(s) : i - 1 \in 1..Len(rest)
      BY <1>1, <1>4
    <3>3. s[1] \in Seq(X)
      BY <1>1, <1>2
    <3>2. ASSUME NEW i \in 2..Len(s) PROVE s[1] \o g[i - 1] \in Seq(X)
      <4>1. g[i - 1] \in Seq(X)
        BY <2>3, <3>1
      <4>2. QED
        BY <3>3, <4>1, ConcatProperties
    <3>4. QED
      BY <1>1, <3>2, <3>3 DEF h
  <2>6. ASSUME NEW i \in 1..Len(s)
        PROVE  h[i] = IF i = 1 THEN s[i] ELSE h[i - 1] \o s[i]
    <3>1. CASE i = 1
      BY <3>1 DEF h
    <3>2. CASE i = 2
      <4>1. i # 1 /\ i - 1 = 1 /\ 1 \in 1..Len(rest) /\ s[i] = s[2]
        BY <1>1, <1>4, <3>2
      <4>2. h[i] = s[1] \o g[1] /\ h[i - 1] = s[1]
        BY <4>1 DEF h
      <4>3. g[1] = rest[1]
        BY <2>4, <4>1, Zenon
      <4>4. rest[1] = s[2]
        BY <1>5, <4>1
      <4>5. QED
        BY <4>1, <4>2, <4>3, <4>4, Zenon
    <3>3. CASE i > 2
      <4>1. /\ i # 1 /\ i - 1 \in 1..Len(s) /\ i - 1 # 1
            /\ i - 1 \in 1..Len(rest) /\ i - 2 \in 1..Len(rest)
            /\ (i - 1) - 1 = i - 2
        BY <1>1, <1>4, <3>3
      <4>2. h[i] = s[1] \o g[i - 1]
        BY <4>1 DEF h
      <4>3. h[i - 1] = s[1] \o g[(i - 1) - 1]
        BY <4>1 DEF h
      <4>4. h[i - 1] = s[1] \o g[i - 2]
        BY <4>1, <4>3, Zenon
      <4>5. g[i - 1] = g[i - 2] \o s[i]
        <5>1. g[i - 1] = g[(i - 1) - 1] \o rest[i - 1]
          BY <2>4, <4>1, Zenon
        <5>2. rest[i - 1] = s[i]
          BY <1>5, <4>1
        <5>3. QED
          BY <4>1, <5>1, <5>2, Zenon
      <4>6. g[i - 2] \in Seq(X) /\ s[1] \in Seq(X) /\ s[i] \in Seq(X)
        <5>1. g[i - 2] \in Seq(X)
          BY <2>3, <4>1
        <5>2. 1 \in 1..Len(s)
          BY <1>1
        <5>3. QED
          BY <1>2, <5>1, <5>2
      <4>7. (s[1] \o g[i - 2]) \o s[i] = s[1] \o (g[i - 2] \o s[i])
        BY <1>6, <4>6
      <4>8. QED
        BY <4>1, <4>2, <4>4, <4>5, <4>7, Zenon
    <3>4. QED
      BY <1>1, <3>1, <3>2, <3>3
  <2>7. FlatStep(s, h)
    BY <2>5, <2>6, Zenon DEF FlatStep
  <2>8. FlattenSeq(s) = s[1] \o g[Len(rest)]
    <3>1. FlattenSeq(s) = h[Len(s)]
      BY <2>7, FlattenSeqValue
    <3>2. Len(s) # 1 /\ Len(s) \in 1..Len(s) /\ Len(s) - 1 = Len(rest)
      BY <1>1, <1>4, <1>8
    <3>3. h[Len(s)] = s[1] \o g[Len(s) - 1]
      BY <3>2 DEF h
    <3>4. QED
      BY <3>1, <3>2, <3>3
  <2>9. FlattenSeq(rest) = g[Len(rest)]
    BY <1>4, <2>2, <2>3, FlattenSeqValue
  <2>10. QED
    BY <1>3, <2>8, <2>9 DEF rest
<1>9. QED
  BY <1>7, <1>8

=============================================================================
