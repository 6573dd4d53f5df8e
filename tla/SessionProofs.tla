--------------------------- MODULE SessionProofs ---------------------------
(***************************************************************************)
(* Proofs about module Session, for every value of MaxChunks: the type    *)
(* invariant, and the two safety properties of `Session::run` that the    *)
(* MCSession run checks on a small instance.                              *)
(***************************************************************************)
EXTENDS Session, TLAPS

-----------------------------------------------------------------------------
(***************************************************************************)
(* The inductive invariant.  NoTransferOutlivesSession and                *)
(* JoinWaitsForBoth are not inductive on their own: a step of the join    *)
(* arm that resolves the session with "ok" is only safe because the other *)
(* direction is known to be done, and a direction is done only with its   *)
(* buffer flushed.  The two auxiliary parts say so.                       *)
(***************************************************************************)

\* A direction that reached EOF wrote every chunk it read.
DoneFlushed ==
    \A d \in Dirs : xfer[d] = "done" => wr[d] = rd[d]

\* While the join arm is pending, either `run` has not started or both
\* directions are running or done: none has been dropped or failed.
JoinPending ==
    (IsJoin /\ result = "pending") =>
        \/ \A d \in Dirs : xfer[d] = "idle"
        \/ \A d \in Dirs : xfer[d] \in {"running", "done"}

IInv ==
    /\ TypeOK
    /\ DoneFlushed
    /\ JoinPending
    /\ JoinWaitsForBoth
    /\ NoTransferOutlivesSession

-----------------------------------------------------------------------------
(***************************************************************************)
(* Lemmas about the helpers of Session.                                    *)
(***************************************************************************)

\* Dropping the pending transfers keeps the type and leaves none pending;
\* a transfer that was not pending keeps its state.
LEMMA DropPendingFacts ==
    ASSUME NEW x \in [Dirs -> XferStates]
    PROVE  /\ DropPending(x) \in [Dirs -> XferStates]
           /\ \A d \in Dirs : DropPending(x)[d] \notin {"idle", "running"}
           /\ \A d \in Dirs : x[d] \notin {"idle", "running"}
                                  => DropPending(x)[d] = x[d]
           /\ \A d \in Dirs : DropPending(x)[d] = "done" <=> x[d] = "done"
BY DEF DropPending, XferStates

\* The two directions are distinct and each is the other's other.
LEMMA OtherFacts ==
    ASSUME NEW d \in Dirs
    PROVE  /\ Other(d) \in Dirs
           /\ Other(d) # d
           /\ \A e \in Dirs : e = d \/ e = Other(d)
BY DEF Other, Dirs

-----------------------------------------------------------------------------
\* Every step keeps the type invariant.
LEMMA TypeStep == TypeOK /\ [Next]_vars => TypeOK'
<1> SUFFICES ASSUME TypeOK, [Next]_vars PROVE TypeOK'
  OBVIOUS
<1> USE MaxChunksAssumption
<1>1. CASE Run
  BY <1>1 DEF Run, TypeOK, XferStates, Results
<1>2. ASSUME NEW d \in Dirs, Read(d) PROVE TypeOK'
  BY <1>2 DEF Read, TypeOK
<1>3. ASSUME NEW d \in Dirs, Write(d) PROVE TypeOK'
  BY <1>3 DEF Write, TypeOK
<1>4. ASSUME NEW d \in Dirs, Eof(d) PROVE TypeOK'
  <2>1. [xfer EXCEPT ![d] = "done"] \in [Dirs -> XferStates]
    BY DEF TypeOK, XferStates
  <2>2. xfer' \in [Dirs -> XferStates]
    BY <1>4, <2>1, DropPendingFacts DEF Eof
  <2>3. shut' \in [Dirs -> ShutStates]
    BY <1>4 DEF Eof, TypeOK, ShutStates
  <2>4. QED
    BY <1>4, <2>2, <2>3 DEF Eof, TypeOK, Results
<1>5. ASSUME NEW d \in Dirs, Fail(d) PROVE TypeOK'
  <2>1. [xfer EXCEPT ![d] = "failed"] \in [Dirs -> XferStates]
    BY DEF TypeOK, XferStates
  <2>2. QED
    BY <1>5, <2>1, DropPendingFacts DEF Fail, TypeOK, Results
<1>6. CASE UNCHANGED vars
  BY <1>6 DEF vars, TypeOK
<1>7. QED
  BY <1>1, <1>2, <1>3, <1>4, <1>5, <1>6 DEF Next

-----------------------------------------------------------------------------
\* Type correctness: every reachable state gives each variable a value of
\* its type; in particular the chunk counters of the copies stay within
\* 0..MaxChunks.
THEOREM TypeCorrect == Spec => []TypeOK
<1>1. Init => TypeOK
  BY MaxChunksAssumption DEF Init, TypeOK, XferStates, ShutStates, Results
<1>2. TypeOK /\ [Next]_vars => TypeOK'
  BY TypeStep
<1>3. QED
  BY <1>1, <1>2, PTL DEF Spec

\* `Session::run` never resolves while a transfer is pending, and in the
\* join arm (no unidirectional option, no exit_on_eof) it succeeds only
\* once both directions reached EOF with their buffers written out: the
\* properties NoTransferOutlivesSession and JoinWaitsForBoth, for every
\* value of MaxChunks.
THEOREM SessionSafety ==
    Spec => [](NoTransferOutlivesSession /\ JoinWaitsForBoth)
<1>1. Init => IInv
  BY MaxChunksAssumption
  DEF Init, IInv, TypeOK, XferStates, ShutStates, Results, DoneFlushed,
      JoinPending, JoinWaitsForBoth, NoTransferOutlivesSession
<1>2. IInv /\ [Next]_vars => IInv'
  <2> SUFFICES ASSUME IInv, [Next]_vars PROVE IInv'
    OBVIOUS
  <2>0. TypeOK'
    BY TypeStep DEF IInv
  <2> USE DEF IInv
  <2>1. CASE Run
    <3>1. IsJoin => Launched = Dirs
      BY DEF IsJoin, Launched
    <3>2. Launched = {} => ~IsJoin
      BY DEF IsJoin, Launched, Dirs
    <3>3. /\ \A d \in Dirs : xfer'[d] \in {"running", "dropped"}
          /\ \A d \in Dirs : d \in Launched => xfer'[d] = "running"
          /\ \A d \in Dirs : d \notin Launched => xfer'[d] = "dropped"
          /\ result' # "pending" => Launched = {}
          /\ opts' = opts
      BY <2>1 DEF Run
    <3>4. DoneFlushed'
      BY <3>3 DEF DoneFlushed
    <3>5. JoinPending'
      BY <3>1, <3>3 DEF JoinPending, IsJoin
    <3>6. JoinWaitsForBoth'
      BY <3>2, <3>3 DEF JoinWaitsForBoth, IsJoin
    <3>7. NoTransferOutlivesSession'
      BY <3>3 DEF NoTransferOutlivesSession
    <3>8. QED
      BY <2>0, <3>4, <3>5, <3>6, <3>7
  <2>2. ASSUME NEW d \in Dirs, Read(d) PROVE IInv'
    <3>1. /\ xfer' = xfer /\ result' = result /\ opts' = opts /\ wr' = wr
          /\ result = "pending" /\ xfer[d] = "running"
          /\ rd' = [rd EXCEPT ![d] = @ + 1]
      BY <2>2 DEF Read
    <3>2. DoneFlushed'
      BY <3>1 DEF DoneFlushed, TypeOK
    <3>3. QED
      BY <2>0, <3>1, <3>2
      DEF JoinPending, JoinWaitsForBoth, NoTransferOutlivesSession, IsJoin
  <2>3. ASSUME NEW d \in Dirs, Write(d) PROVE IInv'
    <3>1. /\ xfer' = xfer /\ result' = result /\ opts' = opts /\ rd' = rd
          /\ result = "pending" /\ xfer[d] = "running"
          /\ wr' = [wr EXCEPT ![d] = @ + 1]
      BY <2>3 DEF Write
    <3>2. DoneFlushed'
      BY <3>1 DEF DoneFlushed, TypeOK
    <3>3. QED
      BY <2>0, <3>1, <3>2
      DEF JoinPending, JoinWaitsForBoth, NoTransferOutlivesSession, IsJoin
  <2>4. ASSUME NEW d \in Dirs, Eof(d) PROVE IInv'
    <3> DEFINE x == [xfer EXCEPT ![d] = "done"]
    <3>1. x \in [Dirs -> XferStates]
      BY DEF TypeOK, XferStates
    <3>2. /\ result = "pending" /\ xfer[d] = "running" /\ rd[d] = wr[d]
          /\ opts' = opts /\ rd' = rd /\ wr' = wr
      BY <2>4 DEF Eof
    <3>3. \A e \in Dirs : x[e] = "done" => wr[e] = rd[e]
      BY <3>2 DEF DoneFlushed, TypeOK
    <3>4. CASE WaitsForOther(d)
      <4>1. xfer' = x /\ result' = "pending"
        BY <2>4, <3>4 DEF Eof
      <4>2. IsJoin /\ xfer[Other(d)] = "running"
        BY <3>2, <3>4, OtherFacts DEF WaitsForOther, JoinPending
      <4>3. JoinPending'
        BY <4>1, <4>2, <3>2, OtherFacts DEF JoinPending, IsJoin, TypeOK
      <4>4. QED
        BY <2>0, <3>2, <3>3, <4>1, <4>3
        DEF DoneFlushed, JoinWaitsForBoth, NoTransferOutlivesSession
    <3>5. CASE ~WaitsForOther(d)
      <4>1. xfer' = DropPending(x) /\ result' = "ok"
        BY <2>4, <3>5 DEF Eof
      <4>2. NoTransferOutlivesSession'
        BY <3>1, <4>1, DropPendingFacts DEF NoTransferOutlivesSession
      <4>3. DoneFlushed'
        BY <3>1, <3>2, <3>3, <4>1, DropPendingFacts DEF DoneFlushed
      <4>4. JoinWaitsForBoth'
        <5>1. IsJoin => xfer[Other(d)] = "done"
          BY <3>5 DEF WaitsForOther
        <5>2. IsJoin => \A e \in Dirs : x[e] = "done"
          BY <5>1, OtherFacts DEF TypeOK
        <5>3. IsJoin => \A e \in Dirs : xfer'[e] = "done"
          BY <5>2, <4>1, <3>1, DropPendingFacts
        <5>4. QED
          BY <5>3, <4>3, <3>2 DEF JoinWaitsForBoth, IsJoin, DoneFlushed
      <4>5. JoinPending'
        BY <4>1 DEF JoinPending
      <4>6. QED
        BY <2>0, <4>2, <4>3, <4>4, <4>5
    <3>6. QED
      BY <3>4, <3>5
  <2>5. ASSUME NEW d \in Dirs, Fail(d) PROVE IInv'
    <3> DEFINE x == [xfer EXCEPT ![d] = "failed"]
    <3>1. x \in [Dirs -> XferStates]
      BY DEF TypeOK, XferStates
    <3>2. /\ xfer' = DropPending(x) /\ result' = "err"
          /\ rd' = rd /\ wr' = wr /\ opts' = opts
      BY <2>5 DEF Fail
    <3>3. NoTransferOutlivesSession'
      BY <3>1, <3>2, DropPendingFacts DEF NoTransferOutlivesSession
    <3>4. \A e \in Dirs : x[e] = "done" => xfer[e] = "done"
      BY DEF TypeOK
    <3>5. DoneFlushed'
      BY <3>1, <3>2, <3>4, DropPendingFacts DEF DoneFlushed
    <3>6. QED
      BY <2>0, <3>2, <3>3, <3>5
      DEF JoinWaitsForBoth, JoinPending
  <2>6. CASE UNCHANGED vars
    BY <2>0, <2>6
    DEF vars, DoneFlushed, JoinPending, JoinWaitsForBoth,
        NoTransferOutlivesSession, IsJoin
  <2>7. QED
    BY <2>1, <2>2, <2>3, <2>4, <2>5, <2>6 DEF Next
<1>3. IInv => NoTransferOutlivesSession /\ JoinWaitsForBoth
  BY DEF IInv
<1>4. QED
  BY <1>1, <1>2, <1>3, PTL DEF Spec

\* The join arm of `Session::run` resolves with Ok only after both copies
\* reached EOF and wrote every chunk they read, for every MaxChunks.
THEOREM JoinSafety == Spec => []JoinWaitsForBoth
BY SessionSafety, PTL

=============================================================================
