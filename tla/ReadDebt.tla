------------------------------ MODULE ReadDebt ------------------------------
(***************************************************************************)
(* `ReadDebt` of src/lib.rs: the buffer for the part of a message that did *)
(* not fit in the caller's read buffer.  `process_message` copies          *)
(* min(len(buf), len(msg)) bytes and keeps the rest as debt, asserting     *)
(* that no debt was pending; `check_debt` takes the debt (leaving None)    *)
(* and feeds it back through `process_message`.                           *)
(*                                                                         *)
(* The reader that drives it is the WebSocket read wrapper of ws_peer.rs,  *)
(* which is not part of the sources at hand and is modelled from spec 4.5 *)
(* step 4: on each read, drain the debt first, otherwise take the next    *)
(* message of the stream and pass it through `process_message`.  Control  *)
(* frames and the zero-message policy are not modelled: the stream is the *)
(* sequence of data message payloads.                                      *)
(***************************************************************************)
EXTENDS Naturals, Sequences, SequencesExt

CONSTANTS
    Bytes,      \* the byte values a payload is made of
    MaxMsgs,    \* bound on the number of messages the stream delivers
    MaxMsgLen,  \* bound on the length of one message
    MaxBuf      \* bound on the length of the caller's read buffer

ASSUME ReadDebtAssumption ==
    /\ Bytes # {}
    /\ MaxMsgs \in Nat /\ MaxMsgLen \in Nat
    /\ MaxBuf \in Nat \ {0}

\* `ReadDebt(None)`.  The debt is only ever set to `Some(buf_in[l..])`
\* with l < buf_in.len(), never to an empty vector, so the empty sequence
\* stands for None and a non-empty one for Some.
NoDebt == <<>>

\* The streams the reader may be given: up to MaxMsgs payloads, each of up
\* to MaxMsgLen bytes (zero-length payloads included); BoundedSeq is
\* the one of SequencesExt.
Inputs == BoundedSeq(BoundedSeq(Bytes, MaxMsgLen), MaxMsgs)

VARIABLES
    input,     \* the whole stream, fixed for the run
    msgs,      \* the messages the stream has not yet delivered
    debt,      \* ReadDebt.0: NoDebt, or the bytes still owed
    out,       \* the bytes the reads returned, in order
    panicked   \* the `assert_eq!(self.0, None)` of process_message fired

vars == <<input, msgs, debt, out, panicked>>

-----------------------------------------------------------------------------
(***************************************************************************)
(* Mutations of the definitions below, used to check that the properties   *)
(* can tell the code from a plausible bug in it.                           *)
(***************************************************************************)

\* The debt stored as buf_in[l+1..]: one byte lost at the split.
RemainderSkipping(chunk, l) ==
    IF l < Len(chunk) THEN SubSeq(chunk, l + 2, Len(chunk)) ELSE NoDebt

\* The copy not bounded by the caller's buffer (`.min(buf.len())` dropped):
\* the whole chunk is returned and no debt is kept.
ProcessMessageUnbounded(n, chunk, cur) ==
    IF cur # NoDebt
       THEN /\ panicked' = TRUE
            /\ UNCHANGED <<out, debt>>
       ELSE /\ out' = out \o chunk
            /\ debt' = NoDebt
            /\ UNCHANGED panicked

\* The debt sliced from l - 1: the last byte copied is owed again.
RemainderFromLast(chunk, l) ==
    IF l < Len(chunk) THEN SubSeq(chunk, l, Len(chunk)) ELSE NoDebt

-----------------------------------------------------------------------------
\* `if l < buf_in.len() { self.0 = Some(buf_in[l..].to_vec()) }`; the
\* debt is None otherwise (process_message asserted it was None).
Remainder(chunk, l) ==
    IF l < Len(chunk) THEN SubSeq(chunk, l + 1, Len(chunk)) ELSE NoDebt

\* `self.0.take()`: what is left in the ReadDebt once the debt is taken.
Take(d) == NoDebt

\* `process_message(buf, buf_in)` with a buffer of n bytes while the
\* ReadDebt holds cur: the assertion, then the copy of l bytes and the debt.
ProcessMessage(n, chunk, cur) ==
    IF cur # NoDebt
       THEN /\ panicked' = TRUE
            /\ UNCHANGED <<out, debt>>
       ELSE LET l == IF Len(chunk) < n THEN Len(chunk) ELSE n
            IN  /\ out' = out \o SubSeq(chunk, 1, l)
                /\ debt' = Remainder(chunk, l)
                /\ UNCHANGED panicked

\* `check_debt(buf)` when there is a debt: take it, then process it.
CheckDebt(n) ==
    /\ debt # NoDebt
    /\ ProcessMessage(n, debt, Take(debt))
    /\ UNCHANGED msgs

\* No debt: the next message of the stream goes through process_message.
ReadMessage(n) ==
    /\ debt = NoDebt
    /\ msgs # <<>>
    /\ ProcessMessage(n, Head(msgs), debt)
    /\ msgs' = Tail(msgs)

Init ==
    /\ input \in Inputs
    /\ msgs = input
    /\ debt = NoDebt
    /\ out = <<>>
    /\ panicked = FALSE

\* One `poll_read` of the reader with a buffer of n bytes.
Read(n) ==
    /\ ~panicked
    /\ CheckDebt(n) \/ ReadMessage(n)
    /\ UNCHANGED input

Next == \E n \in 1..MaxBuf : Read(n)

Spec == Init /\ [][Next]_vars

-----------------------------------------------------------------------------
(***************************************************************************)
(* Properties.                                                             *)
(***************************************************************************)

TypeOK ==
    /\ input \in Inputs
    /\ msgs \in Seq(Seq(Bytes))
    /\ debt \in Seq(Bytes)
    \* a read buffer is never empty, so process_message copies at least one
    \* byte and the debt is shorter than the message it came from
    /\ debt = NoDebt \/ Len(debt) < MaxMsgLen
    /\ out \in Seq(Bytes)
    /\ panicked \in BOOLEAN

\* Spec 8.1: whatever the sizes (n >= 1) of the caller's buffers, what the reads
\* returned, then the debt, then the undelivered messages, is the stream:
\* no byte is lost, duplicated or reordered at a split.
DebtConservation ==
    out \o debt \o FlattenSeq(msgs) = FlattenSeq(input)


\* The reader seen from its caller: the stream and the bytes returned.
RA == INSTANCE ReadDebtAbs

\* Spec 4.1 and 8.1: every `poll_read` through `check_debt` and
\* `process_message` returns the next at most n bytes of the stream of
\* message payloads, n the caller's buffer size; the debt is invisible.
ImplementsReadDebtAbs == RA!ASpec

=============================================================================
