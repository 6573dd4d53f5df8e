----------------------------- MODULE ReadDebtAbs -----------------------------
(***************************************************************************)
(* What a reader over a ReadDebt promises its caller (spec 4.1 and 8.1):   *)
(* the stream is the concatenation of the message payloads, and a read    *)
(* with a buffer of n bytes returns the next at most n bytes of it.  How  *)
(* the messages are cut, and what is held back as debt, is not visible.   *)
(***************************************************************************)
EXTENDS Naturals, Sequences, SequencesExt

CONSTANTS Bytes, MaxMsgs, MaxMsgLen, MaxBuf

VARIABLES
    input,   \* the messages the stream delivers, fixed for the run
    out      \* the bytes the reads returned, in order

avars == <<input, out>>

Inputs == BoundedSeq(BoundedSeq(Bytes, MaxMsgLen), MaxMsgs)

\* The byte stream the reader presents.
Stream == FlattenSeq(input)

AInit ==
    /\ input \in Inputs
    /\ out = <<>>

\* A read into a buffer of n bytes: the next l <= n bytes of the stream.
ARead(n) ==
    \E l \in 0..n :
        /\ Len(out) + l <= Len(Stream)
        /\ out' = SubSeq(Stream, 1, Len(out) + l)
        /\ UNCHANGED input

ANext == \E n \in 1..MaxBuf : ARead(n)

ASpec == AInit /\ [][ANext]_avars

=============================================================================
