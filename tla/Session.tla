------------------------------ MODULE Session ------------------------------
(***************************************************************************)
(* One websocat session: `Session::new` pairs two peers into a forward     *)
(* and a reverse transfer, and `Session::run` (src/lib.rs) runs them under *)
(* the termination policy chosen by the options `unidirectional`,         *)
(* `unidirectional_reverse` and `exit_on_eof`.                            *)
(*                                                                         *)
(* A transfer is the `my_copy::copy` future of one direction followed by   *)
(* the `map` closure that calls `w.shutdown()` and drops both halves.  The *)
(* copy (src/my_copy.rs is not part of the sources at hand, it is modelled *)
(* from the spec) pumps chunks through one buffer: a read fills it, writes *)
(* drain it, and a read of 0 bytes with an empty buffer is EOF.  Chunks   *)
(* are counted, not named: the policy only tells apart how many chunks a  *)
(* direction read and wrote, and whether its copy is pending, reached EOF *)
(* or failed.  The                                                         *)
(* combinators of futures 0.1 are modelled by what they do when polled:    *)
(* `join` resolves when both sides are done and, on the first error,       *)
(* erases (drops) both sides; `select` resolves with the first side that   *)
(* resolves and hands back the other one, which the closures drop.         *)
(***************************************************************************)
EXTENDS Naturals

\* Bound on the chunks one direction reads before its source reaches EOF.
CONSTANT MaxChunks

ASSUME MaxChunksAssumption == MaxChunks \in Nat \ {0}

\* The two directions of `Session::new`: "fwd" copies peer1.0 into peer2.1,
\* "rev" copies peer2.0 into peer1.1.
Dirs == {"fwd", "rev"}

Other(d) == IF d = "fwd" THEN "rev" ELSE "fwd"

\* The three options `Session::run` dispatches on (the `Rc<Options>` of the
\* session); every combination is a possible configuration.
OptionValues ==
    [unidirectional : BOOLEAN, unidirectional_reverse : BOOLEAN,
     exit_on_eof : BOOLEAN]

\* Life of one transfer future:
\*   "idle"     built by `run`, not polled yet
\*   "running"  being polled by the session future
\*   "done"     the copy returned Ok (EOF), its map closure ran
\*   "failed"   the copy returned Err
\*   "dropped"  the future was dropped before it resolved
XferStates == {"idle", "running", "done", "failed", "dropped"}

\* What `w.shutdown()` did to the writer of a direction: never called, or
\* called and returned Ready, or called and returned NotReady (the result is
\* thrown away by `let _ = w.shutdown()`).
ShutStates == {"none", "complete", "notready"}

Results == {"pending", "ok", "err"}

VARIABLES
    opts,    \* the session's options, fixed for its lifetime
    xfer,    \* xfer[d]: state of the transfer future of direction d
    shut,    \* shut[d]: what shutdown() did to the writer of direction d
    rd,      \* rd[d]: chunks the copy of d has read from its source
    wr,      \* wr[d]: chunks the copy of d has written to its sink
    result   \* the value the future returned by `run` resolved to

vars == <<opts, xfer, shut, rd, wr, result>>

-----------------------------------------------------------------------------
(***************************************************************************)
(* Mutations of the definitions below, used to check that the properties   *)
(* can tell the code from a plausible bug in it.                           *)
(***************************************************************************)

\* The `join` and `select` arms swapped: exit_on_eof selects `join`.
IsJoinSwapped ==
    ~opts.unidirectional /\ ~opts.unidirectional_reverse /\ opts.exit_on_eof

\* The losing side of a `select` is kept running instead of being dropped.
KeepPending(x) == x

-----------------------------------------------------------------------------
(***************************************************************************)
(* The dispatch of `run` on (unidirectional, unidirectional_reverse,      *)
(* exit_on_eof).                                                           *)
(***************************************************************************)

\* The directions whose futures `run` keeps; the others are `mem::drop`ped.
Launched ==
    CASE ~opts.unidirectional /\ ~opts.unidirectional_reverse -> Dirs
      [] opts.unidirectional /\ ~opts.unidirectional_reverse  -> {"fwd"}
      [] ~opts.unidirectional /\ opts.unidirectional_reverse  -> {"rev"}
      [] OTHER                                                -> {}

\* `f1.join(f2)` is used exactly in the (false, false, false) arm.
IsJoin ==
    ~opts.unidirectional /\ ~opts.unidirectional_reverse /\ ~opts.exit_on_eof

\* Every transfer still pending is dropped: what the `select` closures do to
\* the losing side and what `join` does to both sides on an error.
DropPending(x) ==
    [e \in Dirs |-> IF x[e] \in {"idle", "running"} THEN "dropped" ELSE x[e]]

-----------------------------------------------------------------------------
\* A direction that reaches EOF leaves the session pending iff the session
\* joins and the other direction has not finished yet.
WaitsForOther(d) == IsJoin /\ xfer[Other(d)] # "done"

\* `Session::new` and the two `my_copy::copy` futures built at the top of
\* `run`: nothing has been polled or shut down yet.
Init ==
    /\ opts \in OptionValues
    /\ xfer = [d \in Dirs |-> "idle"]
    /\ shut = [d \in Dirs |-> "none"]
    /\ rd = [d \in Dirs |-> 0]
    /\ wr = [d \in Dirs |-> 0]
    /\ result = "pending"

\* The body of `run` after the futures are built: drop the directions the
\* options exclude; with both excluded return `future::ok(())` at once.
Run ==
    /\ \A d \in Dirs : xfer[d] = "idle"
    /\ xfer' = [d \in Dirs |-> IF d \in Launched THEN "running" ELSE "dropped"]
    /\ result' = IF Launched = {} THEN "ok" ELSE "pending"
    /\ UNCHANGED <<opts, shut, rd, wr>>

\* The copy of direction d reads a chunk into its empty buffer.
Read(d) ==
    /\ result = "pending"
    /\ xfer[d] = "running"
    /\ rd[d] = wr[d]
    /\ rd[d] < MaxChunks
    /\ rd' = [rd EXCEPT ![d] = @ + 1]
    /\ UNCHANGED <<opts, xfer, shut, wr, result>>

\* The copy of direction d writes its buffered chunk to the sink.
Write(d) ==
    /\ result = "pending"
    /\ xfer[d] = "running"
    /\ wr[d] < rd[d]
    /\ wr' = [wr EXCEPT ![d] = @ + 1]
    /\ UNCHANGED <<opts, xfer, shut, rd, result>>

\* The copy of direction d returns Ok: its buffer is empty and the read
\* returned 0 bytes.  Its map closure calls `w.shutdown()` (Ready or
\* NotReady, ignored) and drops both halves; the combinator then either
\* keeps waiting (join) or resolves and drops what is still pending.
Eof(d) ==
    /\ result = "pending"
    /\ xfer[d] = "running"
    /\ rd[d] = wr[d]
    /\ \E outcome \in {"complete", "notready"} :
           shut' = [shut EXCEPT ![d] = outcome]
    /\ IF WaitsForOther(d)
          THEN /\ xfer' = [xfer EXCEPT ![d] = "done"]
               /\ UNCHANGED result
          ELSE /\ xfer' = DropPending([xfer EXCEPT ![d] = "done"])
               /\ result' = "ok"
    /\ UNCHANGED <<opts, rd, wr>>

\* The copy of direction d returns Err (read or write error): every
\* combinator resolves with the error and drops what is still pending; the
\* map closure does not run, so nothing is shut down.
Fail(d) ==
    /\ result = "pending"
    /\ xfer[d] = "running"
    /\ xfer' = DropPending([xfer EXCEPT ![d] = "failed"])
    /\ result' = "err"
    /\ UNCHANGED <<opts, shut, rd, wr>>

Next ==
    \/ Run
    \/ \E d \in Dirs : Read(d) \/ Write(d) \/ Eof(d) \/ Fail(d)

Spec == Init /\ [][Next]_vars

-----------------------------------------------------------------------------
(***************************************************************************)
(* Properties.                                                             *)
(***************************************************************************)

TypeOK ==
    /\ opts \in OptionValues
    /\ xfer \in [Dirs -> XferStates]
    /\ shut \in [Dirs -> ShutStates]
    /\ rd \in [Dirs -> 0..MaxChunks]
    /\ wr \in [Dirs -> 0..MaxChunks]
    /\ result \in Results

\* Spec 8.4: with neither unidirectional option nor exit_on_eof, `run`
\* succeeds only after both directions reached EOF (the `join` arm), and
\* hence after each wrote every chunk it read.
JoinWaitsForBoth ==
    (/\ ~opts.unidirectional /\ ~opts.unidirectional_reverse
     /\ ~opts.exit_on_eof /\ result = "ok") =>
        \A d \in Dirs : xfer[d] = "done" /\ wr[d] = rd[d]

\* Spec 8.5 and 4.6: once the future of `run` has resolved, with any
\* options and either result, no transfer is still pending: the loser of a
\* `select`, the partner of a failed direction in a `join` and the
\* directions excluded by the unidirectional options have all been dropped.
NoTransferOutlivesSession ==
    result # "pending" => \A d \in Dirs : xfer[d] \notin {"idle", "running"}

\* Spec section 3 and 4.6: a direction that completed propagated its
\* shutdown to the transport.  `let _ = w.shutdown()` ignores a NotReady.
CompletedWriterShutDown ==
    \A d \in Dirs : xfer[d] = "done" => shut[d] = "complete"

\* Spec section 5: with exit_on_eof, the `select` drops the transfer that
\* did not win, "which must cancel pending reads and flush any buffered
\* writes best-effort": a loser that had read a chunk wrote it first.
SelectLoserFlushed ==
    (/\ ~opts.unidirectional /\ ~opts.unidirectional_reverse
     /\ opts.exit_on_eof /\ result = "ok") =>
        \A d \in Dirs : xfer[d] = "dropped" => wr[d] = rd[d]

=============================================================================
