------------------------------- MODULE Serve -------------------------------
(***************************************************************************)
(* The top-level `serve` of src/lib.rs: construct the left specifier with  *)
(* the ProgramState, collapse it to its first connection under `oneshot`  *)
(* (`PeerConstructor::get_only_first_conn`), then either                   *)
(*   - ServeOnce: await the left peer, construct the right specifier,     *)
(*     await its first peer, run one session and drop the ProgramState    *)
(*     after it; every error goes to `onerror` (e3); or                    *)
(*   - ServeMultipleTimes: for each peer of the left stream construct the *)
(*     right specifier and spawn a task that awaits its first peer and    *)
(*     runs a session, errors going to `onerror` (e1); the stream is      *)
(*     consumed by `for_each`, whose error goes to `onerror` (e2).         *)
(*                                                                         *)
(* The left constructor is represented by what it yields: the sequence of *)
(* its elements, each a peer or an error, after which the stream ends (a  *)
(* ServeOnce future yields exactly one).  A session is represented by its *)
(* outcome; module Session models its inside.  The ProgramState is alive  *)
(* as long as the closure that owns it is.                                 *)
(***************************************************************************)
EXTENDS Naturals, Sequences, Functions

CONSTANTS
    MaxConns,       \* bound on the elements of a left ServeMultipleTimes stream
    Kinds,          \* variants a `construct` may return
    OneshotValues   \* values of the `oneshot` option to explore

ASSUME ServeAssumption ==
    /\ MaxConns \in Nat \ {0}
    /\ Kinds \subseteq {"once", "multi"} /\ Kinds # {}
    /\ OneshotValues \subseteq BOOLEAN /\ OneshotValues # {}

Conns == 1..MaxConns

\* An element of a PeerConstructor: a peer, or an error (connect, accept or
\* handshake failure).
Elements == {"peer", "err"}

\* What the left constructor yields, for each variant.
LeftYields(kind) ==
    IF kind = "once" THEN {<<e>> : e \in Elements}
    ELSE UNION {[1..n -> Elements] : n \in 0..MaxConns}

\* Origin of an `onerror` call: 0 is the left constructor, i > 0 the task
\* serving the i-th left connection.
Origins == {0} \cup Conns

TaskStates == {"none", "connecting", "running", "ok", "err"}

VARIABLES
    leftKind,  \* variant returned by `s1.construct`
    rightKind, \* variant returned by `s2.construct`
    oneshot,   \* opts.oneshot
    left,      \* the elements the left constructor yields, in order
    acc,       \* how many of them the runner has taken
    task,      \* task[i]: the work serving the i-th left connection
    runner,    \* the future returned by `serve`
    ps,        \* the ProgramState
    errlog     \* the `onerror` calls, in order, by origin

vars == <<leftKind, rightKind, oneshot, left, acc, task, runner, ps, errlog>>

-----------------------------------------------------------------------------
(***************************************************************************)
(* Mutations of the definitions below, used to check that the properties   *)
(* can tell the code from a plausible bug in it.                           *)
(***************************************************************************)

\* A failed task's error is swallowed instead of reaching `onerror`.
ErrNotReported(i, r) == errlog

\* The ProgramState dropped as soon as the right side is constructed, as it
\* would be if the ServeOnce closure did not move it into the session's map.
PsDroppedAtConnect(i) == "dropped"

-----------------------------------------------------------------------------
\* `if opts.oneshot { left = ServeOnce(left.get_only_first_conn()) }`: the
\* variant `serve` matches on.
Path == IF oneshot THEN "once" ELSE leftKind

\* `onerror` as called for the end r of task i.
Report(i, r) == IF r = "err" THEN Append(errlog, i) ELSE errlog

\* The ProgramState once the right side of task i has been constructed: the
\* ServeOnce path keeps it in the closure until the session ends.
PsAfterConnect(i) == ps

\* `construct` of both sides, then the runner starts.
Init ==
    /\ leftKind \in Kinds
    /\ rightKind \in Kinds
    /\ oneshot \in OneshotValues
    /\ left \in LeftYields(leftKind)
    /\ acc = 0
    /\ task = [i \in Conns |-> "none"]
    /\ runner = "running"
    /\ ps = "alive"
    /\ errlog = <<>>

EndTask(i, r) ==
    /\ task' = [task EXCEPT ![i] = r]
    /\ errlog' = Report(i, r)
    /\ IF Path = "once"
          THEN /\ runner' = IF r = "ok" THEN "done" ELSE "failed"
               /\ ps' = "dropped"
          ELSE UNCHANGED <<runner, ps>>

\* A left peer is taken: `s2.construct(&h, &mut ps, ...)` runs at once and
\* the task starts awaiting the right side's first connection.
TakePeer ==
    /\ task' = [task EXCEPT ![acc + 1] = "connecting"]
    /\ ps' = PsAfterConnect(acc + 1)
    /\ acc' = acc + 1
    /\ UNCHANGED <<runner, errlog>>

\* ServeOnce: the left future (or the first element of a collapsed stream)
\* resolves.  An error fails the runner and reaches `onerror` (e3); an
\* exhausted stream hits `expect("Nowhere to connect it")`.
LeftOnce ==
    /\ Path = "once"
    /\ runner = "running"
    /\ acc = 0
    /\ \/ /\ Len(left) > 0
          /\ left[1] = "peer"
          /\ TakePeer
       \/ /\ Len(left) > 0
          /\ left[1] = "err"
          /\ acc' = 1
          /\ runner' = "failed"
          /\ ps' = "dropped"
          /\ errlog' = Append(errlog, 0)
          /\ UNCHANGED task
       \/ /\ Len(left) = 0
          /\ runner' = "panicked"
          /\ UNCHANGED <<acc, task, ps, errlog>>
    /\ UNCHANGED <<leftKind, rightKind, oneshot, left>>

\* ServeMultipleTimes: the stream yields its next peer; the map closure
\* constructs the right side and spawns the task.
Accept ==
    /\ Path = "multi"
    /\ runner = "running"
    /\ acc < Len(left)
    /\ left[acc + 1] = "peer"
    /\ TakePeer
    /\ UNCHANGED <<leftKind, rightKind, oneshot, left>>

\* ServeMultipleTimes: the stream yields an error; `for_each` fails with it,
\* `onerror` (e2) is called and the runner, with the ProgramState its
\* closure owns, is gone.
AcceptErr ==
    /\ Path = "multi"
    /\ runner = "running"
    /\ acc < Len(left)
    /\ left[acc + 1] = "err"
    /\ acc' = acc + 1
    /\ runner' = "failed"
    /\ ps' = "dropped"
    /\ errlog' = Append(errlog, 0)
    /\ UNCHANGED <<leftKind, rightKind, oneshot, left, task>>

\* ServeMultipleTimes: the stream ends; `for_each` resolves and the runner,
\* with the ProgramState, is gone.  Spawned tasks keep running.
StreamEnd ==
    /\ Path = "multi"
    /\ runner = "running"
    /\ acc = Len(left)
    /\ runner' = "done"
    /\ ps' = "dropped"
    /\ UNCHANGED <<leftKind, rightKind, oneshot, left, acc, task, errlog>>

\* The right side's `get_only_first_conn` future resolves for task i: with
\* a peer the session starts, with an error the task ends; a right stream
\* (ServeMultipleTimes) that ends before its first element hits the
\* `expect`, whose panic unwinds the event loop and ends the program.
RightConnect(i) ==
    /\ runner # "panicked"
    /\ task[i] = "connecting"
    /\ \/ /\ task' = [task EXCEPT ![i] = "running"]
          /\ UNCHANGED <<runner, ps, errlog>>
       \/ EndTask(i, "err")
       \/ /\ rightKind = "multi"
          /\ runner' = "panicked"
          /\ UNCHANGED <<task, ps, errlog>>
    /\ UNCHANGED <<leftKind, rightKind, oneshot, left, acc>>

\* The session of task i resolves (module Session: `Session::run`).
SessionEnd(i) ==
    /\ runner # "panicked"
    /\ task[i] = "running"
    /\ \E r \in {"ok", "err"} : EndTask(i, r)
    /\ UNCHANGED <<leftKind, rightKind, oneshot, left, acc>>

Next ==
    \/ LeftOnce \/ Accept \/ AcceptErr \/ StreamEnd
    \/ \E i \in Conns : RightConnect(i) \/ SessionEnd(i)

Spec == Init /\ [][Next]_vars

-----------------------------------------------------------------------------
(***************************************************************************)
(* Properties.                                                             *)
(***************************************************************************)

TypeOK ==
    /\ leftKind \in {"once", "multi"}
    /\ rightKind \in {"once", "multi"}
    /\ oneshot \in BOOLEAN
    /\ left \in Seq(Elements)
    /\ acc \in 0..Len(left)
    /\ task \in [Conns -> TaskStates]
    /\ runner \in {"running", "done", "failed", "panicked"}
    /\ ps \in {"alive", "dropped"}
    /\ errlog \in Seq(Origins)

\* A task that is connecting or running a session.
Active(i) == task[i] \in {"connecting", "running"}

\* Spec 3 and 9: the ProgramState is destroyed only after the last session
\* completes, so that stdin/stdout are not made blocking under a session.
PsOutlivesSessions ==
    ps = "dropped" => \A i \in Conns : ~Active(i)

\* The same on the ServeOnce path, which the comment at `drop(ps)` is about.
PsOutlivesServeOnceSession ==
    Path = "once" => PsOutlivesSessions

\* Every failure reaches `onerror` exactly once: each failed task once, and
\* the left constructor once iff one of its errors was taken.
ErrorsReportedOnce ==
    /\ IsInjective(errlog)
    /\ \A i \in Conns : task[i] = "err" <=> i \in Range(errlog)
    /\ 0 \in Range(errlog) <=> \E k \in 1..acc : left[k] = "err"

\* Spec 7: in ServeMultipleTimes a connect or handshake error of a left
\* connection is routed to `onerror` and the stream continues.
LeftErrorsDoNotStopServer ==
    Path = "multi" => runner # "failed"

\* Spec 4.2 and 7: an error surfaces through the channel the value would
\* have and is routed to `onerror`; `serve` never takes the program down.
\* `get_only_first_conn` panics on a stream that ends without an element.
NoPanic == runner # "panicked"

\* Spec 3: `get_only_first_conn` on a ServeMultipleTimes takes the first
\* successful element and discards the rest.
OneshotTakesFirstSuccess ==
    (oneshot /\ leftKind = "multi" /\ "peer" \in Range(left))
        => 0 \notin Range(errlog)

=============================================================================
