---------------------------- MODULE ServeProofs ----------------------------
(***************************************************************************)
(* Proofs about module Serve, for every MaxConns, every set of variants   *)
(* and of oneshot values: the type invariant, and the two properties of   *)
(* the ServeOnce path that the serve_lifecycle run checks.               *)
(***************************************************************************)
EXTENDS Serve, SequenceTheorems, TLAPS

-----------------------------------------------------------------------------
(***************************************************************************)
(* The inductive invariant.  PsOutlivesServeOnceSession alone is not      *)
(* inductive: the step that takes the left peer is safe only because the  *)
(* ProgramState is alive while the runner runs, and the step that ends a  *)
(* session is safe only because no other task exists on that path.       *)
(***************************************************************************)

\* A task exists only for an element the runner has taken.
TasksTaken ==
    \A i \in Conns : task[i] # "none" => i <= acc

\* The ServeOnce path serves its first element only.
OnceOnlyFirst ==
    Path = "once" => \A i \in Conns \ {1} : task[i] = "none"

\* While the ServeOnce runner runs, its closures hold the ProgramState.
OnceRunnerHoldsPs ==
    (Path = "once" /\ runner = "running") => ps = "alive"

IInv ==
    /\ TypeOK
    /\ TasksTaken
    /\ OnceOnlyFirst
    /\ OnceRunnerHoldsPs
    /\ PsOutlivesServeOnceSession

-----------------------------------------------------------------------------
\* Every element a left constructor yields is a sequence of elements.
LEMMA LeftYieldsSeq ==
    ASSUME NEW kind \in {"once", "multi"}
    PROVE  LeftYields(kind) \subseteq Seq(Elements)
<1>1. CASE kind = "once"
  <2>1. \A e \in Elements : <<e>> \in [1..1 -> Elements]
    OBVIOUS
  <2>2. [1..1 -> Elements] \subseteq Seq(Elements)
    BY SeqDef
  <2>3. QED
    BY <1>1, <2>1, <2>2 DEF LeftYields
<1>2. CASE kind = "multi"
  <2>1. \A n \in 0..MaxConns : [1..n -> Elements] \subseteq Seq(Elements)
    BY ServeAssumption, SeqDef
  <2>2. QED
    BY <1>2, <2>1 DEF LeftYields
<1>3. QED
  BY <1>1, <1>2

\* No step changes the variant `serve` matches on.
LEMMA PathStep == [Next]_vars => Path' = Path
BY DEF Next, vars, Path, LeftOnce, Accept, AcceptErr, StreamEnd,
       RightConnect, SessionEnd

\* The initial states are typed.
LEMMA InitType == Init => TypeOK
<1> SUFFICES ASSUME Init PROVE TypeOK
  OBVIOUS
<1>1. left \in Seq(Elements)
  BY LeftYieldsSeq, ServeAssumption DEF Init
<1>2. QED
  BY <1>1, ServeAssumption DEF Init, TypeOK, TaskStates

\* Every step keeps the variables in their types.
LEMMA TypeStep == TypeOK /\ [Next]_vars => TypeOK'
<1> SUFFICES ASSUME TypeOK, [Next]_vars PROVE TypeOK'
  OBVIOUS
<1>1. CASE LeftOnce
  <2>1. /\ UNCHANGED <<leftKind, rightKind, oneshot, left>>
        /\ acc = 0 /\ runner = "running"
    BY <1>1 DEF LeftOnce
  <2>2. CASE Len(left) > 0 /\ left[1] = "peer" /\ TakePeer
    <3>1. acc' = 1 /\ task' \in [Conns -> TaskStates]
          /\ UNCHANGED <<runner, errlog, ps>>
      BY <2>1, <2>2, ServeAssumption
      DEF TakePeer, PsAfterConnect, TypeOK, TaskStates, Conns
    <3>2. QED
      BY <2>1, <2>2, <3>1 DEF TypeOK
  <2>3. CASE /\ Len(left) > 0 /\ left[1] = "err" /\ acc' = 1
             /\ runner' = "failed" /\ ps' = "dropped"
             /\ errlog' = Append(errlog, 0) /\ UNCHANGED task
    <3>1. errlog' \in Seq(Origins)
      BY <2>3, AppendProperties DEF TypeOK, Origins
    <3>2. acc' \in 0..Len(left')
      BY <2>1, <2>3, LenProperties DEF TypeOK
    <3>3. QED
      BY <2>1, <2>3, <3>1, <3>2 DEF TypeOK
  <2>4. CASE /\ Len(left) = 0 /\ runner' = "panicked"
             /\ UNCHANGED <<acc, task, ps, errlog>>
    BY <2>1, <2>4 DEF TypeOK
  <2>5. QED
    BY <1>1, <2>2, <2>3, <2>4 DEF LeftOnce
<1>2. CASE Accept
  <3>1. acc < Len(left) /\ acc' = acc + 1 /\ task' \in [Conns -> TaskStates]
        /\ UNCHANGED <<leftKind, rightKind, oneshot, left, runner, errlog, ps>>
    BY <1>2 DEF Accept, TakePeer, PsAfterConnect, TypeOK, TaskStates
  <3>2. QED
    BY <3>1 DEF TypeOK
<1>3. CASE AcceptErr \/ StreamEnd
  BY <1>3 DEF AcceptErr, StreamEnd, TypeOK, Origins
<1>6. ASSUME NEW i \in Conns, RightConnect(i) \/ SessionEnd(i)
      PROVE  TypeOK'
  <2>1. UNCHANGED <<leftKind, rightKind, oneshot, left, acc>>
    BY <1>6 DEF RightConnect, SessionEnd
  <2>2. errlog' \in Seq(Origins)
    <3>1. Append(errlog, i) \in Seq(Origins)
      BY AppendProperties DEF TypeOK, Origins
    <3>2. QED
      BY <1>6, <3>1 DEF RightConnect, SessionEnd, EndTask, Report, TypeOK
  <2>3. task' \in [Conns -> TaskStates]
    BY <1>6 DEF RightConnect, SessionEnd, EndTask, TypeOK, TaskStates
  <2>4. runner' \in {"running", "done", "failed", "panicked"}
        /\ ps' \in {"alive", "dropped"}
    <3>1. ASSUME NEW r \in {"ok", "err"}, EndTask(i, r)
          PROVE  runner' \in {"running", "done", "failed", "panicked"}
                 /\ ps' \in {"alive", "dropped"}
      <4>1. CASE Path = "once"
        BY <3>1, <4>1 DEF EndTask
      <4>2. CASE Path # "once"
        BY <3>1, <4>2 DEF EndTask, TypeOK
      <4>3. QED
        BY <4>1, <4>2
    <3>2. QED
      BY <1>6, <3>1 DEF RightConnect, SessionEnd, TypeOK
  <2>5. QED
    BY <2>1, <2>2, <2>3, <2>4 DEF TypeOK
<1>4. CASE UNCHANGED vars
  BY <1>4 DEF vars, TypeOK
<1>5. QED
  BY <1>1, <1>2, <1>3, <1>4, <1>6 DEF Next

-----------------------------------------------------------------------------
\* Type correctness of Serve.
THEOREM ServeTypeCorrect == Spec => []TypeOK
<1>1. Init => TypeOK
  BY InitType
<1>2. TypeOK /\ [Next]_vars => TypeOK'
  BY TypeStep
<1>3. QED
  BY <1>1, <1>2, PTL DEF Spec

-----------------------------------------------------------------------------
(***************************************************************************)
(* ErrorsReportedOnce is not inductive either: appending the left error   *)
(* to the log keeps it injective only because no left error was taken     *)
(* before, which holds because taking one stops the runner.                *)
(***************************************************************************)

\* While the runner runs, every left element it took was a peer.
LeftErrsStop ==
    runner = "running" => \A k \in 1..acc : left[k] # "err"

ErrInv == LeftErrsStop /\ ErrorsReportedOnce

-----------------------------------------------------------------------------
\* The conjuncts of IInv beyond the type invariant.
Rest ==
    TasksTaken /\ OnceOnlyFirst /\ OnceRunnerHoldsPs /\ PsOutlivesServeOnceSession

\* Task i, which exists, ends with r: what EndTask leaves of Rest.
LEMMA EndTaskKeeps ==
    ASSUME TypeOK, Rest, NEW i \in Conns, task[i] # "none",
           NEW r \in {"ok", "err"}, EndTask(i, r), Path' = Path,
           UNCHANGED acc
    PROVE  Rest'
<1>1. TasksTaken'
  BY DEF Rest, TasksTaken, EndTask, TypeOK
<1>2. OnceOnlyFirst'
  BY DEF Rest, OnceOnlyFirst, EndTask, TypeOK
<1>3. CASE Path = "once"
  <2>1. i = 1
    BY <1>3 DEF Rest, OnceOnlyFirst
  <2>2. \A j \in Conns : ~Active(j)'
    BY <1>3, <2>1 DEF Rest, OnceOnlyFirst, EndTask, Active, TypeOK
  <2>3. runner' # "running"
    BY <1>3 DEF EndTask
  <2>4. QED
    BY <1>1, <1>2, <2>2, <2>3
    DEF Rest, OnceRunnerHoldsPs, PsOutlivesServeOnceSession, PsOutlivesSessions
<1>4. CASE Path # "once"
  BY <1>1, <1>2, <1>4 DEF Rest, OnceRunnerHoldsPs, PsOutlivesServeOnceSession
<1>5. QED
  BY <1>3, <1>4

\* Every step keeps Rest, given the type invariant.
LEMMA RestStep == TypeOK /\ Rest /\ [Next]_vars => Rest'
<1> SUFFICES ASSUME TypeOK, Rest, [Next]_vars PROVE Rest'
  OBVIOUS
<1>0. Path' = Path
  BY PathStep
<1>1. CASE LeftOnce
  <2>1. /\ Path = "once" /\ runner = "running" /\ ps = "alive"
        /\ \A j \in Conns : task[j] = "none"
        /\ UNCHANGED left
    BY <1>1 DEF LeftOnce, Rest, OnceRunnerHoldsPs, TasksTaken, Conns
  <2>2. CASE Len(left) > 0 /\ left[1] = "peer" /\ TakePeer
    <3>1. acc' = 1 /\ task' = [task EXCEPT ![1] = "connecting"] /\ ps' = "alive"
      BY <1>1, <2>1, <2>2 DEF LeftOnce, TakePeer, PsAfterConnect
    <3>2. TasksTaken' /\ OnceOnlyFirst'
      BY <1>0, <2>1, <3>1 DEF TasksTaken, OnceOnlyFirst, TypeOK
    <3>3. QED
      BY <3>1, <3>2 DEF Rest, OnceRunnerHoldsPs, PsOutlivesServeOnceSession,
         PsOutlivesSessions
  <2>3. CASE Len(left) > 0 /\ left[1] = "err" /\ acc' = 1
             /\ runner' = "failed" /\ UNCHANGED task
    BY <1>0, <2>1, <2>3 DEF Rest, TasksTaken, OnceOnlyFirst,
       OnceRunnerHoldsPs, PsOutlivesServeOnceSession, PsOutlivesSessions,
       Active, Conns
  <2>4. CASE Len(left) = 0 /\ runner' = "panicked"
             /\ UNCHANGED <<acc, task, ps>>
    BY <1>0, <2>4 DEF Rest, TasksTaken, OnceOnlyFirst,
       OnceRunnerHoldsPs, PsOutlivesServeOnceSession, PsOutlivesSessions,
       Active
  <2>5. QED
    BY <1>1, <2>2, <2>3, <2>4 DEF LeftOnce
<1>2. CASE Accept \/ AcceptErr \/ StreamEnd
  <2>1. Path = "multi"
    BY <1>2 DEF Accept, AcceptErr, StreamEnd
  <2>2. TasksTaken'
    BY <1>2 DEF Rest, TasksTaken, Accept, AcceptErr, StreamEnd, TakePeer,
       TypeOK
  <2>3. QED
    BY <1>0, <2>1, <2>2 DEF Rest, OnceOnlyFirst, OnceRunnerHoldsPs,
       PsOutlivesServeOnceSession
<1>3. ASSUME NEW i \in Conns, RightConnect(i)
      PROVE  Rest'
  <2>1. task[i] = "connecting" /\ UNCHANGED acc
    BY <1>3 DEF RightConnect
  <2>2. ps = "dropped" => Path # "once"
    BY <2>1 DEF Rest, PsOutlivesServeOnceSession, PsOutlivesSessions, Active
  <2>3. CASE task' = [task EXCEPT ![i] = "running"] /\ UNCHANGED <<runner, ps>>
    BY <1>0, <2>1, <2>2, <2>3 DEF Rest, TasksTaken, OnceOnlyFirst,
       OnceRunnerHoldsPs, PsOutlivesServeOnceSession, PsOutlivesSessions,
       TypeOK
  <2>4. CASE EndTask(i, "err")
    BY <1>0, <2>1, <2>4, EndTaskKeeps
  <2>5. CASE runner' = "panicked" /\ UNCHANGED <<task, ps>>
    BY <1>0, <2>1, <2>5 DEF Rest, TasksTaken, OnceOnlyFirst,
       OnceRunnerHoldsPs, PsOutlivesServeOnceSession, PsOutlivesSessions,
       Active
  <2>6. QED
    BY <1>3, <2>3, <2>4, <2>5 DEF RightConnect
<1>4. ASSUME NEW i \in Conns, SessionEnd(i)
      PROVE  Rest'
  <2>1. task[i] = "running" /\ UNCHANGED acc
    BY <1>4 DEF SessionEnd
  <2>2. PICK r \in {"ok", "err"} : EndTask(i, r)
    BY <1>4 DEF SessionEnd
  <2>3. QED
    BY <1>0, <2>1, <2>2, EndTaskKeeps
<1>5. CASE UNCHANGED vars
  BY <1>0, <1>5 DEF vars, Rest, TasksTaken, OnceOnlyFirst, OnceRunnerHoldsPs,
     PsOutlivesServeOnceSession, PsOutlivesSessions, Active
<1>6. QED
  BY <1>1, <1>2, <1>3, <1>4, <1>5 DEF Next

-----------------------------------------------------------------------------
\* On the ServeOnce path the ProgramState is dropped only after the one
\* session has ended (the `drop(ps)` after `Session::run` in `serve`), for
\* every MaxConns.  The argument needs OnceOnlyFirst: under `oneshot` no
\* session is started for any left element but the first.
THEOREM ServeOnceSafety == Spec => []PsOutlivesServeOnceSession
<1>1. Init => Rest
  BY DEF Init, Rest, TasksTaken, OnceOnlyFirst, OnceRunnerHoldsPs,
     PsOutlivesServeOnceSession, PsOutlivesSessions, Active
<1>2. Init => TypeOK
  BY InitType
<1>3. TypeOK /\ Rest => PsOutlivesServeOnceSession
  BY DEF Rest
<1>4. QED
  BY <1>1, <1>2, <1>3, TypeStep, RestStep, PTL DEF Spec

-----------------------------------------------------------------------------
\* Appending x to a sequence adds x to its range, and keeps the sequence
\* injective when x was not in the range.
LEMMA AppendRange ==
    ASSUME NEW S, NEW s \in Seq(S), NEW x \in S
    PROVE  /\ Range(Append(s, x)) = Range(s) \cup {x}
           /\ IsInjective(s) /\ x \notin Range(s) => IsInjective(Append(s, x))
<1>1. /\ Len(Append(s, x)) = Len(s) + 1
      /\ Append(s, x)[Len(s) + 1] = x
      /\ \A k \in 1..Len(s) : Append(s, x)[k] = s[k]
      /\ DOMAIN Append(s, x) = 1..(Len(s) + 1) /\ DOMAIN s = 1..Len(s)
  BY AppendProperties, LenProperties
<1>2. Range(Append(s, x)) = Range(s) \cup {x}
  BY <1>1, LenProperties DEF Range
<1>3. IsInjective(s) /\ x \notin Range(s) => IsInjective(Append(s, x))
  BY <1>1, LenProperties DEF IsInjective, Range
<1>4. QED
  BY <1>2, <1>3

\* Task i, which exists and has not failed, ends with r: what EndTask
\* leaves of ErrInv.
LEMMA EndTaskErrKeeps ==
    ASSUME TypeOK, ErrInv, NEW i \in Conns, task[i] \in {"connecting", "running"},
           NEW r \in {"ok", "err"}, EndTask(i, r),
           UNCHANGED <<left, acc>>
    PROVE  ErrInv'
<1>1. i \notin Range(errlog) /\ i # 0
  BY DEF ErrInv, ErrorsReportedOnce, Conns
<1>2. runner' = "running" => runner = "running"
  BY DEF EndTask
<1>3. CASE r = "ok"
  BY <1>1, <1>2, <1>3 DEF ErrInv, ErrorsReportedOnce, LeftErrsStop, EndTask,
     Report, TypeOK
<1>4. CASE r = "err"
  <2>1. errlog' = Append(errlog, i)
    BY <1>4 DEF EndTask, Report
  <2>2. Range(errlog') = Range(errlog) \cup {i}
        /\ IsInjective(errlog')
    BY <1>1, <2>1, AppendRange DEF ErrInv, ErrorsReportedOnce, TypeOK, Origins
  <2>3. QED
    BY <1>1, <1>2, <1>4, <2>2 DEF ErrInv, ErrorsReportedOnce, LeftErrsStop,
       EndTask, TypeOK
<1>5. QED
  BY <1>3, <1>4

\* Every step keeps ErrInv, given the type invariant and Rest.
LEMMA ErrStep == TypeOK /\ Rest /\ ErrInv /\ [Next]_vars => ErrInv'
<1> SUFFICES ASSUME TypeOK, Rest, ErrInv, [Next]_vars PROVE ErrInv'
  OBVIOUS
<1>1. CASE LeftOnce
  <2>1. acc = 0 /\ UNCHANGED left
    BY <1>1 DEF LeftOnce
  <2>2. 0 \notin Range(errlog)
    BY <2>1 DEF ErrInv, ErrorsReportedOnce
  <2>3. CASE Len(left) > 0 /\ left[1] = "peer" /\ TakePeer
    <3>1. acc' = 1 /\ task' = [task EXCEPT ![1] = "connecting"]
          /\ UNCHANGED <<errlog, runner>>
      BY <2>1, <2>3 DEF TakePeer
    <3>2. task[1] = "none"
      BY <2>1, ServeAssumption DEF Rest, TasksTaken, Conns
    <3>3. QED
      BY <2>1, <2>2, <2>3, <3>1, <3>2 DEF ErrInv, ErrorsReportedOnce,
         LeftErrsStop, TypeOK
  <2>4. CASE /\ Len(left) > 0 /\ left[1] = "err" /\ acc' = 1
             /\ runner' = "failed" /\ errlog' = Append(errlog, 0)
             /\ UNCHANGED task
    <3>1. Range(errlog') = Range(errlog) \cup {0} /\ IsInjective(errlog')
      BY <2>2, <2>4, AppendRange DEF ErrInv, ErrorsReportedOnce, TypeOK, Origins
    <3>2. 0 \notin Conns
      BY DEF Conns
    <3>3. QED
      BY <2>1, <2>4, <3>1, <3>2 DEF ErrInv, ErrorsReportedOnce, LeftErrsStop
  <2>5. CASE Len(left) = 0 /\ runner' = "panicked"
             /\ UNCHANGED <<acc, task, errlog>>
    BY <2>1, <2>5 DEF ErrInv, ErrorsReportedOnce, LeftErrsStop
  <2>6. QED
    BY <1>1, <2>3, <2>4, <2>5 DEF LeftOnce
<1>2. CASE Accept
  <2>1. /\ acc' = acc + 1 /\ left[acc + 1] = "peer"
        /\ task' = [task EXCEPT ![acc + 1] = "connecting"]
        /\ UNCHANGED <<left, errlog, runner>>
    BY <1>2 DEF Accept, TakePeer
  <2>2. acc + 1 \in Conns => task[acc + 1] = "none"
    BY DEF Rest, TasksTaken, TypeOK
  <2>3. (\E k \in 1..(acc + 1) : left[k] = "err")
        <=> (\E j \in 1..acc : left[j] = "err")
    BY <2>1 DEF TypeOK
  <2>4. QED
    BY <2>1, <2>2, <2>3 DEF ErrInv, ErrorsReportedOnce, LeftErrsStop, TypeOK
<1>3. CASE AcceptErr
  <2>1. /\ acc' = acc + 1 /\ left[acc + 1] = "err" /\ runner' = "failed"
        /\ errlog' = Append(errlog, 0) /\ UNCHANGED <<left, task>>
        /\ runner = "running"
    BY <1>3 DEF AcceptErr
  <2>2. 0 \notin Range(errlog)
    BY <2>1 DEF ErrInv, ErrorsReportedOnce, LeftErrsStop
  <2>3. Range(errlog') = Range(errlog) \cup {0} /\ IsInjective(errlog')
    BY <2>1, <2>2, AppendRange DEF ErrInv, ErrorsReportedOnce, TypeOK, Origins
  <2>4. 0 \notin Conns /\ acc + 1 \in 1..(acc + 1)
    BY DEF Conns, TypeOK
  <2>5. QED
    BY <2>1, <2>3, <2>4 DEF ErrInv, ErrorsReportedOnce, LeftErrsStop
<1>4. CASE StreamEnd
  BY <1>4 DEF StreamEnd, ErrInv, ErrorsReportedOnce, LeftErrsStop
<1>5. ASSUME NEW i \in Conns, RightConnect(i)
      PROVE  ErrInv'
  <2>1. task[i] = "connecting" /\ UNCHANGED <<left, acc>>
    BY <1>5 DEF RightConnect
  <2>2. CASE task' = [task EXCEPT ![i] = "running"]
             /\ UNCHANGED <<runner, errlog>>
    BY <2>1, <2>2 DEF ErrInv, ErrorsReportedOnce, LeftErrsStop, TypeOK
  <2>3. CASE EndTask(i, "err")
    BY <2>1, <2>3, EndTaskErrKeeps
  <2>4. CASE runner' = "panicked" /\ UNCHANGED <<task, errlog>>
    BY <2>1, <2>4 DEF ErrInv, ErrorsReportedOnce, LeftErrsStop
  <2>5. QED
    BY <1>5, <2>2, <2>3, <2>4 DEF RightConnect
<1>6. ASSUME NEW i \in Conns, SessionEnd(i)
      PROVE  ErrInv'
  <2>1. task[i] = "running" /\ UNCHANGED <<left, acc>>
    BY <1>6 DEF SessionEnd
  <2>2. PICK r \in {"ok", "err"} : EndTask(i, r)
    BY <1>6 DEF SessionEnd
  <2>3. QED
    BY <2>1, <2>2, EndTaskErrKeeps
<1>7. CASE UNCHANGED vars
  BY <1>7 DEF vars, ErrInv, ErrorsReportedOnce, LeftErrsStop
<1>8. QED
  BY <1>1, <1>2, <1>3, <1>4, <1>5, <1>6, <1>7 DEF Next

-----------------------------------------------------------------------------
\* Every failure reaches the `onerror` callback exactly once: each task
\* whose right connection or session failed (e1), and the left side once
\* when the runner took an error from it (e2, e3).  For every MaxConns.
THEOREM ServeErrorsReportedOnce == Spec => []ErrorsReportedOnce
<1>1. Init => ErrInv
  BY DEF Init, ErrInv, ErrorsReportedOnce, LeftErrsStop, IsInjective, Range
<1>2. Init => TypeOK /\ Rest
  BY InitType DEF Init, Rest, TasksTaken, OnceOnlyFirst, OnceRunnerHoldsPs,
     PsOutlivesServeOnceSession, PsOutlivesSessions, Active
<1>3. QED
  BY <1>1, <1>2, TypeStep, RestStep, ErrStep, PTL DEF Spec, ErrInv

=============================================================================
