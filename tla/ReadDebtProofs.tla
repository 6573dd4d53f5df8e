--------------------------- MODULE ReadDebtProofs ---------------------------
(***************************************************************************)
(* Proofs about module ReadDebt, for every set of byte values and every   *)
(* bound on the messages and the read buffer: the type invariant, with    *)
(* the bound on the debt it states, that the assertion of                *)
(* `process_message` never fires, and DebtConservation: no byte of the    *)
(* stream is lost, duplicated or reordered.  The last rests on the laws   *)
(* of FlattenSeq proved in FlattenSeqLemmas.                              *)
(***************************************************************************)
EXTENDS ReadDebt, FlattenSeqLemmas, TLAPS

-----------------------------------------------------------------------------
\* The messages not yet delivered are each at most MaxMsgLen bytes long, as
\* the stream's were.
MsgsBounded == msgs \in Seq(BoundedSeq(Bytes, MaxMsgLen))

IInv == TypeOK /\ MsgsBounded

-----------------------------------------------------------------------------
\* A member of BoundedSeq(S, n) is a sequence of at most n elements of S.
LEMMA BoundedSeqFacts ==
    ASSUME NEW S, NEW n \in Nat, NEW s \in BoundedSeq(S, n)
    PROVE  s \in Seq(S) /\ Len(s) <= n
<1>1. PICK m \in 0..n : s \in [1..m -> S]
  BY DEF BoundedSeq, SeqOf
<1>2. s \in Seq(S)
  BY <1>1, SeqDef
<1>3. Len(s) = m
  BY <1>1, <1>2, LenProperties
<1>4. QED
  BY <1>2, <1>3

\* BoundedSeq(S, n) is a set of sequences of S.
LEMMA BoundedSeqSubset ==
    ASSUME NEW S, NEW n \in Nat
    PROVE  BoundedSeq(S, n) \subseteq Seq(S)
BY BoundedSeqFacts

\* The debt `buf_in[l..]` cut from a chunk after its first l bytes.
LEMMA RemainderFacts ==
    ASSUME NEW chunk \in Seq(Bytes), NEW l \in Nat, l < Len(chunk)
    PROVE  /\ SubSeq(chunk, l + 1, Len(chunk)) \in Seq(Bytes)
           /\ Len(SubSeq(chunk, l + 1, Len(chunk))) = Len(chunk) - l
<1>1. Len(chunk) \in Nat
  BY LenProperties
<1>2. \A i \in (l + 1)..Len(chunk) : chunk[i] \in Bytes
  BY <1>1, ElementOfSeq
<1>3. QED
  BY <1>1, <1>2, SubSeqProperties

\* `process_message` with no debt pending and a buffer of n bytes: the
\* bytes returned stay a sequence of bytes, the debt is shorter than the
\* chunk it is cut from, and the assertion does not fire.
LEMMA ProcessMessageFacts ==
    ASSUME NEW n \in 1..MaxBuf, NEW chunk \in Seq(Bytes), out \in Seq(Bytes),
           ProcessMessage(n, chunk, NoDebt)
    PROVE  /\ out' \in Seq(Bytes)
           /\ debt' \in Seq(Bytes)
           /\ debt' = NoDebt \/ Len(debt') < Len(chunk)
           /\ panicked' = panicked
<1> DEFINE l == IF Len(chunk) < n THEN Len(chunk) ELSE n
<1> USE DEF l
<1>1. Len(chunk) \in Nat /\ l \in 0..Len(chunk) /\ (chunk # <<>> => l >= 1)
  BY LenProperties, EmptySeq, ReadDebtAssumption
<1>2. out' = out \o SubSeq(chunk, 1, l) /\ debt' = Remainder(chunk, l)
      /\ panicked' = panicked
  BY DEF ProcessMessage, NoDebt
<1>3. SubSeq(chunk, 1, l) \in Seq(Bytes)
  BY <1>1, SubSeqProperties, ElementOfSeq
<1>4. out' \in Seq(Bytes)
  BY <1>2, <1>3, ConcatProperties
<1>5. CASE l < Len(chunk)
  <2>1. debt' = SubSeq(chunk, l + 1, Len(chunk))
    BY <1>2, <1>5 DEF Remainder
  <2>2. l \in Nat /\ l < Len(chunk)
    BY <1>1, <1>5
  <2>3. debt' \in Seq(Bytes) /\ Len(debt') = Len(chunk) - l
    <3> HIDE DEF l
    <3>1. SubSeq(chunk, l + 1, Len(chunk)) \in Seq(Bytes)
          /\ Len(SubSeq(chunk, l + 1, Len(chunk))) = Len(chunk) - l
      BY <2>2, RemainderFacts
    <3>2. QED
      BY <2>1, <3>1
  <2>4. l >= 1
    BY <1>1, <1>5, EmptySeq
  <2>5. Len(debt') < Len(chunk)
    BY <1>1, <2>2, <2>3, <2>4
  <2>6. QED
    BY <1>2, <1>4, <2>3, <2>5
<1>6. CASE ~(l < Len(chunk))
  BY <1>2, <1>4, <1>6, EmptySeq DEF Remainder, NoDebt
<1>7. QED
  BY <1>5, <1>6

-----------------------------------------------------------------------------
\* The initial states satisfy the inductive invariant.
LEMMA InitIInv == Init => IInv
<1> SUFFICES ASSUME Init PROVE IInv
  OBVIOUS
<1>1. input \in Seq(BoundedSeq(Bytes, MaxMsgLen))
  BY BoundedSeqFacts, ReadDebtAssumption DEF Init, Inputs
<1>2. input \in Seq(Seq(Bytes))
  BY <1>1, BoundedSeqSubset, SeqMonotonic, ReadDebtAssumption
<1>3. QED
  BY <1>1, <1>2, EmptySeq DEF Init, IInv, TypeOK, MsgsBounded, NoDebt

\* Every step keeps the inductive invariant.
LEMMA StepIInv == IInv /\ [Next]_vars => IInv'
<1> SUFFICES ASSUME IInv, [Next]_vars PROVE IInv'
  OBVIOUS
<1>0. BoundedSeq(Bytes, MaxMsgLen) \subseteq Seq(Bytes)
  BY BoundedSeqSubset, ReadDebtAssumption
<1>1. ASSUME NEW n \in 1..MaxBuf, Read(n), CheckDebt(n)
      PROVE  IInv'
  <2>1. debt \in Seq(Bytes) /\ debt # NoDebt /\ Len(debt) < MaxMsgLen
    BY <1>1 DEF CheckDebt, IInv, TypeOK
  <2>2. ProcessMessage(n, debt, NoDebt)
    BY <1>1 DEF CheckDebt, Take
  <2>3. /\ out' \in Seq(Bytes) /\ debt' \in Seq(Bytes)
        /\ (debt' = NoDebt \/ Len(debt') < Len(debt))
        /\ panicked' = panicked
    BY <2>1, <2>2, ProcessMessageFacts DEF IInv, TypeOK
  <2>4. debt' = NoDebt \/ Len(debt') < MaxMsgLen
    <3>1. Len(debt) \in Nat /\ (debt' # NoDebt => Len(debt') \in Nat)
      BY <2>1, <2>3, LenProperties
    <3>2. debt' # NoDebt => Len(debt') < Len(debt)
      BY <2>3
    <3>3. QED
      BY <2>1, <3>1, <3>2, ReadDebtAssumption
  <2>5. QED
    BY <1>1, <2>3, <2>4 DEF Read, CheckDebt, IInv, TypeOK, MsgsBounded
<1>2. ASSUME NEW n \in 1..MaxBuf, Read(n), ReadMessage(n)
      PROVE  IInv'
  <2>1. msgs # <<>> /\ debt = NoDebt /\ msgs' = Tail(msgs)
        /\ ProcessMessage(n, Head(msgs), NoDebt)
    BY <1>2 DEF ReadMessage
  <2>2. Head(msgs) \in BoundedSeq(Bytes, MaxMsgLen)
        /\ Tail(msgs) \in Seq(BoundedSeq(Bytes, MaxMsgLen))
    BY <2>1, HeadTailProperties DEF IInv, MsgsBounded
  <2>3. Head(msgs) \in Seq(Bytes) /\ Len(Head(msgs)) <= MaxMsgLen
    BY <2>2, BoundedSeqFacts, ReadDebtAssumption
  <2>4. /\ out' \in Seq(Bytes) /\ debt' \in Seq(Bytes)
        /\ (debt' = NoDebt \/ Len(debt') < Len(Head(msgs)))
        /\ panicked' = panicked
    BY <2>1, <2>3, ProcessMessageFacts DEF IInv, TypeOK
  <2>5. debt' = NoDebt \/ Len(debt') < MaxMsgLen
    <3>1. Len(Head(msgs)) \in Nat /\ (debt' # NoDebt => Len(debt') \in Nat)
      BY <2>3, <2>4, LenProperties
    <3>2. debt' # NoDebt => Len(debt') < Len(Head(msgs))
      BY <2>4
    <3>3. QED
      BY <2>3, <3>1, <3>2, ReadDebtAssumption
  <2>6. msgs' \in Seq(Seq(Bytes))
    BY <1>0, <2>1, <2>2, SeqMonotonic
  <2>7. QED
    BY <1>2, <2>1, <2>2, <2>4, <2>5, <2>6 DEF Read, IInv, TypeOK, MsgsBounded
<1>3. CASE UNCHANGED vars
  BY <1>3 DEF vars, IInv, TypeOK, MsgsBounded
<1>4. QED
  BY <1>1, <1>2, <1>3 DEF Next, Read

-----------------------------------------------------------------------------
\* Type correctness of ReadDebt: the debt is a sequence of bytes, empty
\* (None) or shorter than the longest message, for every buffer size
\* n >= 1 the caller reads with.
THEOREM ReadDebtTypeCorrect == Spec => []TypeOK
<1>1. IInv => TypeOK
  BY DEF IInv
<1>2. QED
  BY <1>1, InitIInv, StepIInv, PTL DEF Spec

-----------------------------------------------------------------------------
\* Concatenation of byte sequences is associative.
LEMMA ConcatAssocBytes ==
    \A a, b, c \in Seq(Bytes) : (a \o b) \o c = a \o (b \o c)
<1> SUFFICES ASSUME NEW a \in Seq(Bytes), NEW b \in Seq(Bytes),
                    NEW c \in Seq(Bytes)
             PROVE  (a \o b) \o c = a \o (b \o c)
  OBVIOUS
<1> QED
  BY ONLY ConcatAssociative, a \in Seq(Bytes), b \in Seq(Bytes),
          c \in Seq(Bytes)

\* `process_message` splits the chunk at l: the bytes copied, then the debt
\* kept, are the chunk.
LEMMA SplitIsChunk ==
    ASSUME NEW chunk \in Seq(Bytes), NEW l \in 0..Len(chunk)
    PROVE  SubSeq(chunk, 1, l) \o Remainder(chunk, l) = chunk
<1>1. Len(chunk) \in Nat
  BY LenProperties
<1>2. CASE l < Len(chunk)
  <2>1. Remainder(chunk, l) = SubSeq(chunk, l + 1, Len(chunk))
    BY <1>2 DEF Remainder
  <2>2. SubSeq(chunk, 1, l) \o SubSeq(chunk, l + 1, Len(chunk))
          = SubSeq(chunk, 1, Len(chunk))
    <3>1. 1 \in 1 .. Len(chunk) + 1 /\ l \in 1 - 1 .. Len(chunk)
          /\ Len(chunk) \in l .. Len(chunk)
      BY <1>1
    <3>2. QED
      BY ONLY <3>1, chunk \in Seq(Bytes), ConcatAdjacentSubSeq
  <2>3. QED
    BY <2>1, <2>2, SubSeqFull
<1>3. CASE l = Len(chunk)
  <2>1. Remainder(chunk, l) = <<>>
    BY <1>3 DEF Remainder, NoDebt
  <2>2. SubSeq(chunk, 1, l) = chunk
    BY <1>3, SubSeqFull
  <2>3. QED
    BY <2>1, <2>2, ConcatEmptySeq
<1>4. QED
  BY <1>1, <1>2, <1>3

\* `process_message` with no debt pending: out \o debt grows by the chunk.
LEMMA ProcessMessageConserves ==
    ASSUME NEW n \in 1..MaxBuf, NEW chunk \in Seq(Bytes), out \in Seq(Bytes),
           ProcessMessage(n, chunk, NoDebt)
    PROVE  out' \o debt' = out \o chunk
<1> DEFINE l == IF Len(chunk) < n THEN Len(chunk) ELSE n
<1>1. Len(chunk) \in Nat /\ l \in 0..Len(chunk)
  BY LenProperties, ReadDebtAssumption
<1>2. out' = out \o SubSeq(chunk, 1, l) /\ debt' = Remainder(chunk, l)
  BY DEF ProcessMessage, NoDebt
<1> HIDE DEF l
<1>3. SubSeq(chunk, 1, l) \in Seq(Bytes) /\ Remainder(chunk, l) \in Seq(Bytes)
  <2>1. \A i \in 1..Len(chunk) : chunk[i] \in Bytes
    BY ElementOfSeq
  <2>2. SubSeq(chunk, 1, l) \in Seq(Bytes)
    BY <1>1, <2>1, SubSeqProperties
  <2>3. Remainder(chunk, l) \in Seq(Bytes)
    BY <1>1, <2>1, SubSeqProperties, EmptySeq DEF Remainder, NoDebt
  <2>4. QED
    BY <2>2, <2>3
<1>4. (out \o SubSeq(chunk, 1, l)) \o Remainder(chunk, l)
        = out \o (SubSeq(chunk, 1, l) \o Remainder(chunk, l))
  BY Zenon, <1>3, ConcatAssocBytes
<1>5. QED
  BY <1>1, <1>2, <1>4, SplitIsChunk

-----------------------------------------------------------------------------
\* The inductive invariant for conservation: the typing of IInv, and the
\* input and what is left of it are streams of byte sequences.
CInv == IInv /\ input \in Seq(Seq(Bytes)) /\ DebtConservation

\* The initial states satisfy CInv.
LEMMA InitCInv == Init => CInv
<1> SUFFICES ASSUME Init PROVE CInv
  OBVIOUS
<1>1. IInv
  BY InitIInv
<1>2. input \in Seq(Seq(Bytes))
  BY <1>1 DEF IInv, TypeOK, Init
<1>3. FlattenSeq(input) \in Seq(Bytes)
  BY <1>2, FlattenSeqType
<1>4. <<>> \o <<>> \o FlattenSeq(input) = FlattenSeq(input)
  BY <1>3, ConcatEmptySeq
<1>5. QED
  BY <1>1, <1>2, <1>4 DEF CInv, DebtConservation, Init, NoDebt

\* Every step keeps CInv.
LEMMA StepCInv == CInv /\ [Next]_vars => CInv'
<1> SUFFICES ASSUME CInv, [Next]_vars PROVE CInv'
  OBVIOUS
<1>1. IInv' /\ input' \in Seq(Seq(Bytes))
  BY StepIInv DEF CInv, Next, Read, vars
<1>2. /\ out \in Seq(Bytes) /\ debt \in Seq(Bytes) /\ msgs \in Seq(Seq(Bytes))
      /\ FlattenSeq(msgs) \in Seq(Bytes)
  BY FlattenSeqType DEF CInv, IInv, TypeOK
<1>3. ASSUME NEW n \in 1..MaxBuf, Read(n), CheckDebt(n)
      PROVE  DebtConservation'
  <2>1. out' \o debt' = out \o debt
    BY <1>2, <1>3, ProcessMessageConserves DEF CheckDebt, Take
  <2>2. out' \in Seq(Bytes) /\ debt' \in Seq(Bytes)
    BY <1>1 DEF IInv, TypeOK
  <2>3. QED
    BY <1>3, <2>1 DEF CheckDebt, Read, CInv, DebtConservation
<1>4. ASSUME NEW n \in 1..MaxBuf, Read(n), ReadMessage(n)
      PROVE  DebtConservation'
  <2>1. msgs # <<>> /\ debt = NoDebt /\ msgs' = Tail(msgs) /\ input' = input
        /\ ProcessMessage(n, Head(msgs), NoDebt)
    BY <1>4 DEF ReadMessage, Read
  <2>2. Head(msgs) \in Seq(Bytes) /\ Tail(msgs) \in Seq(Seq(Bytes))
        /\ FlattenSeq(Tail(msgs)) \in Seq(Bytes)
    BY <1>2, <2>1, HeadTailProperties, FlattenSeqType
  <2>3. out' \o debt' = out \o Head(msgs)
    BY <1>2, <2>1, <2>2, ProcessMessageConserves
  <2>4. FlattenSeq(msgs) = Head(msgs) \o FlattenSeq(Tail(msgs))
    BY <1>2, <2>1, FlattenSeqHeadTail
  <2>5. out \o debt \o FlattenSeq(msgs) = FlattenSeq(input)
    BY DEF CInv, DebtConservation
  <2>6. out \o debt = out
    BY <1>2, <2>1, ConcatEmptySeq DEF NoDebt
  <2>7. (out \o Head(msgs)) \o FlattenSeq(Tail(msgs))
          = out \o (Head(msgs) \o FlattenSeq(Tail(msgs)))
    <3>1. out \in Seq(Bytes) /\ Head(msgs) \in Seq(Bytes)
          /\ FlattenSeq(Tail(msgs)) \in Seq(Bytes)
      BY <1>2, <2>2
    <3>2. QED
      BY Zenon, <3>1, ConcatAssocBytes
  <2>8. QED
    BY <2>1, <2>3, <2>4, <2>5, <2>6, <2>7 DEF DebtConservation
<1>6. DebtConservation'
  <2>1. CASE Next
    <3>1. PICK n \in 1..MaxBuf : Read(n)
      BY <2>1 DEF Next
    <3>2. CheckDebt(n) \/ ReadMessage(n)
      BY <3>1 DEF Read
    <3>3. QED
      BY <3>1, <3>2, <1>3, <1>4
  <2>2. CASE UNCHANGED vars
    BY Zenon, <2>2 DEF vars, CInv, DebtConservation
  <2>3. QED
    BY <2>1, <2>2
<1>7. QED
  BY Zenon, <1>1, <1>6 DEF CInv

\* Spec 8.1, for every stream and every sequence of buffer sizes: what the
\* reads returned, then the debt `process_message` kept, then the messages
\* not yet delivered, is the stream; no byte is lost, duplicated or
\* reordered when a message is split across reads.
THEOREM ReadDebtConservation == Spec => []DebtConservation
<1>1. CInv => DebtConservation
  BY DEF CInv
<1>2. QED
  BY <1>1, InitCInv, StepCInv, PTL DEF Spec


-----------------------------------------------------------------------------
\* A sequence is the prefix of its concatenation with another.
LEMMA PrefixOfConcat ==
    ASSUME NEW a \in Seq(Bytes), NEW b \in Seq(Bytes)
    PROVE  /\ Len(a) <= Len(a \o b)
           /\ SubSeq(a \o b, 1, Len(a)) = a
<1>1. /\ Len(a \o b) = Len(a) + Len(b)
      /\ \A i \in 1..Len(a) : (a \o b)[i] = a[i]
  BY ConcatProperties
<1>2. Len(a) \in Nat /\ Len(b) \in Nat
  BY LenProperties
<1>3. SubSeq(a \o b, 1, Len(a)) = [i \in 1..Len(a) |-> a[i]]
  BY <1>1, <1>2 DEF SubSeq
<1>4. a = [i \in 1..Len(a) |-> a[i]]
  BY LenProperties
<1>5. QED
  BY <1>1, <1>2, <1>3, <1>4

\* `process_message` with no debt pending appends to what the reads
\* returned at most as many bytes as the caller's buffer holds.
LEMMA ProcessMessageOut ==
    ASSUME NEW n \in 1..MaxBuf, NEW chunk \in Seq(Bytes),
           ProcessMessage(n, chunk, NoDebt)
    PROVE  \E x \in Seq(Bytes) : out' = out \o x /\ Len(x) <= n
<1> DEFINE l == IF Len(chunk) < n THEN Len(chunk) ELSE n
<1>1. Len(chunk) \in Nat /\ l \in 0..Len(chunk) /\ l <= n
  BY LenProperties, ReadDebtAssumption
<1>2. out' = out \o SubSeq(chunk, 1, l)
  BY DEF ProcessMessage, NoDebt
<1> HIDE DEF l
<1>3. SubSeq(chunk, 1, l) \in Seq(Bytes) /\ Len(SubSeq(chunk, 1, l)) = l
  <2>1. \A i \in 1..l : chunk[i] \in Bytes
    BY <1>1, ElementOfSeq
  <2>2. QED
    BY <1>1, <2>1, SubSeqProperties
<1>4. QED
  BY <1>1, <1>2, <1>3

\* A read appends to what the reads returned at most n bytes, n the
\* caller's buffer size, and the input stays.
LEMMA ReadOut ==
    ASSUME CInv, NEW n \in 1..MaxBuf, Read(n)
    PROVE  /\ \E x \in Seq(Bytes) : out' = out \o x /\ Len(x) <= n
           /\ input' = input
<1>1. out \in Seq(Bytes) /\ debt \in Seq(Bytes) /\ msgs \in Seq(Seq(Bytes))
  BY DEF CInv, IInv, TypeOK
<1>2. CASE CheckDebt(n)
  BY <1>1, <1>2, ProcessMessageOut DEF CheckDebt, Take, Read
<1>3. CASE ReadMessage(n)
  <2>1. msgs # <<>> /\ debt = NoDebt /\ ProcessMessage(n, Head(msgs), NoDebt)
    BY <1>3 DEF ReadMessage
  <2>2. Head(msgs) \in Seq(Bytes)
    BY <1>1, <2>1, HeadTailProperties
  <2>3. QED
    BY <2>1, <2>2, ProcessMessageOut DEF Read
<1>4. QED
  BY <1>2, <1>3 DEF Read

\* Under conservation, what the reads returned is a prefix of the stream.
LEMMA OutIsPrefix ==
    ASSUME NEW o \in Seq(Bytes), NEW d \in Seq(Bytes),
           NEW m \in Seq(Seq(Bytes)), NEW st,
           o \o d \o FlattenSeq(m) = st
    PROVE  /\ Len(o) <= Len(st)
           /\ o = SubSeq(st, 1, Len(o))
<1>1. FlattenSeq(m) \in Seq(Bytes)
  BY FlattenSeqType
<1>2. d \o FlattenSeq(m) \in Seq(Bytes)
  BY <1>1, ConcatProperties
<1>3. (o \o d) \o FlattenSeq(m) = o \o (d \o FlattenSeq(m))
  BY Zenon, <1>1, ConcatAssocBytes
<1>4. QED
  BY <1>2, <1>3, PrefixOfConcat

\* The reader implements ReadDebtAbs under the identity mapping: for every
\* stream and buffer sizes, each `poll_read` returns the next at most n
\* bytes of the stream (a read of an empty message is a stutter), and the
\* debt `process_message` keeps is never seen by the caller.
THEOREM ReadDebtRefinement == Spec => ImplementsReadDebtAbs
<1>1. Init => RA!AInit
  BY DEF Init, RA!AInit, Inputs, RA!Inputs, BoundedSeq, RA!BoundedSeq,
         SeqOf, RA!SeqOf
<1>2. CInv /\ CInv' /\ [Next]_vars => [RA!ANext]_RA!avars
  <2> SUFFICES ASSUME CInv, CInv', [Next]_vars
               PROVE  [RA!ANext]_RA!avars
    OBVIOUS
  <2>1. CASE UNCHANGED vars
    BY <2>1 DEF vars, RA!avars
  <2>2. CASE Next
    <3>1. PICK n \in 1..MaxBuf : Read(n)
      BY <2>2 DEF Next
    <3>2. PICK x \in Seq(Bytes) : out' = out \o x /\ Len(x) <= n
      BY <3>1, ReadOut
    <3>3. input' = input
      BY <3>1, ReadOut
    <3>4. out \in Seq(Bytes) /\ Len(out) \in Nat /\ Len(x) \in Nat
      BY LenProperties DEF CInv, IInv, TypeOK
    <3>5. Len(out') = Len(out) + Len(x)
      BY <3>2, <3>4, ConcatProperties
    <3>6. /\ Len(out') <= Len(FlattenSeq(input'))
          /\ out' = SubSeq(FlattenSeq(input'), 1, Len(out'))
      <4>1. /\ out' \in Seq(Bytes) /\ debt' \in Seq(Bytes)
            /\ msgs' \in Seq(Seq(Bytes))
            /\ out' \o debt' \o FlattenSeq(msgs') = FlattenSeq(input')
        BY DEF CInv, IInv, TypeOK, DebtConservation
      <4>2. QED
        BY <4>1, OutIsPrefix
    <3>7. RA!ARead(n)
      <4>1. Len(x) \in 0..n
        BY <3>2, <3>4
      <4>2. /\ Len(out) + Len(x) <= Len(FlattenSeq(input))
            /\ out' = SubSeq(FlattenSeq(input), 1, Len(out) + Len(x))
        BY <3>3, <3>5, <3>6
      <4>3. RA!Stream = FlattenSeq(input)
        BY DEF RA!Stream, RA!FlattenSeq, FlattenSeq
      <4>4. QED
        BY <3>3, <4>1, <4>2, <4>3 DEF RA!ARead
    <3>8. QED
      BY <3>7 DEF RA!ANext
  <2>3. QED
    BY <2>1, <2>2
<1>3. QED
  BY <1>1, <1>2, InitCInv, StepCInv, PTL DEF Spec, ImplementsReadDebtAbs, RA!ASpec

=============================================================================
