# A TLA+ verification of websocat's core (src/lib.rs, src/ws_server_peer.rs)

This directory holds TLA+ models of the parts of websocat's library that decide
how connections are served and how sessions end. It has TLC configurations that
model-check them on small instances, and TLAPS proofs of the main session
invariants for every value of the constants.

## 1. The system

`src/lib.rs` follows a command line through five types:

1. A **Specifier** is a parsed argument. It is a chain of layers, such as
   `ws-l:tcp-l:ADDR`, which is `WsUpgrade(TcpListen)`.
   - `specifier_boilerplate!` gives each layer its `is_multiconnect`,
     `uses_global_state` and type.
   - `self_0_is_subspecifier!` links a layer's `get_info` to the layer it wraps.
     With `proxy_is_multiconnect` it also takes over the inner layer's
     `is_multiconnect`.
   - `SpecifierInfo::collect` flattens the info chain for the lints.
2. A **PeerConstructor** is returned by `Specifier::construct`. It is either
   `ServeOnce` (a future of one peer) or `ServeMultipleTimes` (a stream of
   peers).
   - `map` applies a per-peer step, such as the WebSocket handshake
     `ws_upgrade_peer`, and keeps the variant.
   - `get_only_first_conn` collapses a stream to its first element.
3. A **Peer** is a reader and a writer.
4. A **Session** pairs two peers into a forward and a reverse **Transfer**
   (`my_copy::copy` futures). `Session::run` combines them according to the
   options `unidirectional`, `unidirectional_reverse` and `exit_on_eof`:
   - with none of them set, `join`;
   - with only `exit_on_eof`, `select`;
   - with one unidirectional option, one direction, and the other is dropped;
   - with both, no direction at all.
5. **`serve`** builds both specifiers with one **ProgramState**, which owns the
   global stdio and reuser state.
   - Under `oneshot` it collapses the left constructor to one connection.
   - ServeOnce: one session, and the ProgramState is dropped after it.
   - ServeMultipleTimes: each left peer spawns a task that connects the
     right side and runs a session.
   - Errors go to the `onerror` callback.

`ReadDebt` is used by the WebSocket reader. It keeps the part of a message that
did not fit in the caller's buffer, and hands it out on the next read.

`src/options.rs` is a plain struct. The other modules that `lib.rs` declares
(the peers, `my_copy`, `specparse`, `lints`, `ws_peer`) have no source under
`src/`. Where `lib.rs` relies on them, the behaviour is taken from spec.md and
marked `spec_modelled` in PROJECT.json.

## 2. Modules

| module | models | state | actions |
|---|---|---|---|
| `Session` | `Session::new`, `Session::run` (lib.rs 363-435), and the `my_copy` pump from the spec | `opts`, `xfer[d]` (idle/running/done/failed/dropped), `shut[d]` (the outcome of `w.shutdown()`), `rd[d]` and `wr[d]` (chunks read and written), `result` | `Run` (dispatch and drops), `Read`, `Write`, `Eof` (map closure with shutdown, then join waits or select resolves), `Fail` |
| `SessionProofs` | proofs about `Session` | | |
| `Serve` | `serve` (lib.rs 437-506) and `get_only_first_conn` (267-281) | `leftKind` and `rightKind` (the variant each constructor returns), `oneshot`, `left` (the elements the left constructor yields, each a peer or an error), `acc`, `task[i]`, `runner`, `ps`, `errlog` (the `onerror` calls) | `LeftOnce` (peer, error, or the `expect` panic on an empty stream), `Accept`, `AcceptErr`, `StreamEnd`, `RightConnect(i)` (peer, error, or the `expect` panic when the right constructor is a stream that ends at once), `SessionEnd(i)` |
| `ServeProofs` | proofs about `Serve` | | |
| `ReadDebt` | `process_message` and `check_debt` (lib.rs 283-313); the reader that drives them is from spec 4.5 | `input`, `msgs`, `debt`, `out`, `panicked` | `Read(n)` for a buffer of n bytes: `CheckDebt` or `ReadMessage` |
| `SpecInfo` | `SpecifierInfo`, `get_info`, `collect`, the two macros, `Rc<Specifier>`, `PeerConstructor::map`, `WsUpgrade::construct` | `chain` (the layers), `r` and `ss` (the locals of `collect`) | `CollectStep` (one turn of the `while let` loop) |
| `ReadDebtAbs` | what the reader over a ReadDebt promises its caller: each read with an n-byte buffer returns the next at most n bytes of the stream of payloads | `input`, `out` | `ARead(n)` |
| `ReadDebtProofs` | proofs about `ReadDebt` | | |
| `SpecInfoProofs` | proofs about `SpecInfo` | | |
| `InductionLemmas` | induction over `Nat` and over intervals, and `BackwardUnique` (two functions obeying the same backward recursion agree) | | |
| `FlattenSeqLemmas` | the laws of `FlattenSeq` of SequencesExt that `DebtConservation` needs: its value on `<<>>`, its type, and `FlattenSeq(s) = Head(s) \o FlattenSeq(Tail(s))` | | |

Data is abstracted to what the properties tell apart:
- a chunk is counted, not named;
- a peer or an error is a tag;
- a byte is drawn from a set of two values.

A session's inside is modelled by `Session`, and `Serve` sees only its outcome.
The futures 0.1 combinators are modelled by what they do when polled:
- `join` erases both sides on the first error;
- `select` hands back the loser, which the closures drop;
- `for_each` fails on the first stream error;
- `into_future` resolves with the first element.

## 3. Runs

| run | cfg | result | what it shows |
|---|---|---|---|
| session_policy | MCSession.cfg | pass, 440 states | Checks all 8 option combinations with MaxChunks = 2: `JoinWaitsForBoth` and `NoTransferOutlivesSession`. |
| session_shutdown_ignored | MCSession_CompletedWriterShutDown.cfg | violation | `let _ = w.shutdown()` drops a NotReady, so a finished direction may never close its transport. |
| session_drop_unflushed | MCSession_SelectLoserFlushed.cfg | violation | `SelectLoserFlushed`: with exit_on_eof, one direction reads a chunk, the other reaches EOF, and the `select` drops the first with its chunk unwritten (spec section 5 asks for a best-effort flush). |
| serve_lifecycle | MCServe.cfg | pass, 909 states | Checks both paths, with and without oneshot, both right variants, for up to 3 left elements: `PsOutlivesServeOnceSession` and `ErrorsReportedOnce`. The left error is reported at most once because `for_each` stops at the first one (the behaviour serve_left_error_stops reports); if the stream went on, each left error would be its own `onerror` call. |
| serve_ps_dropped_early | MCServe_PsOutlivesSessions.cfg | violation | In ServeMultipleTimes, the ProgramState dies with the stream while sessions still run. |
| serve_left_error_stops | MCServe_LeftErrorsDoNotStopServer.cfg | violation | One failed accept or handshake ends `for_each` and with it the server. |
| serve_oneshot_first_element | MCServe_OneshotTakesFirstSuccess.cfg | violation | With oneshot, a first element that is an error fails the run, even when a later connection would succeed. |
| serve_empty_stream_panics | MCServe_NoPanic.cfg | violation | `get_only_first_conn` panics with "Nowhere to connect it" on a stream that ends before its first element: on the left under oneshot, and on the right inside any task, where the panic ends the other sessions as well. |
| readdebt_conservation | MCReadDebt.cfg | pass, 1326 states | Streams of up to 2 messages of up to 3 bytes, read with buffers of 1 or 2 bytes: `DebtConservation` (no byte lost, duplicated or reordered at a split). The caller's buffer is never empty (n >= 1), which is what the debt bound of `TypeOK` rests on. |
| readdebt_refinement | MCReadDebt_Refinement.cfg | pass, 1326 states | `ImplementsReadDebtAbs`: on the same instance, `ReadDebt` implements `ReadDebtAbs` under the identity mapping on `input` and `out`; the debt and the undelivered messages are hidden. Unlike `DebtConservation`, this property also bounds each read by the caller's buffer. |
| specinfo_collect | MCSpecInfo.cfg | pass, 10056 states | Every chain of up to 3 layers of the three shapes: `CollectListsLayers`, and `MulticonnectPredictsConstruct` for WsUpgrade chains. `CollectListsLayers` is about the visible depth (the layers `get_info` links before the first leaf), not the depth of the specifier tree of spec 8.2. `MulticonnectPredictsConstruct` takes the innermost layer's constructor variant to be its `is_multiconnect` flag, which is the leaf's own contract and not code under src/. |

Each violation run is a finding in PROJECT.json: the code does something that
spec.md says it does not.

Each property of a passing run has a mutant in PROJECT.json: a plausible bug in
a mapped definition, under which TLC finds that property violated.

**Bounds.**
- MaxChunks = 2 lets a chunk be buffered while the other direction ends.
- Three left elements allow an error between two peers, and two sessions
  running together.
- Messages of 3 bytes read through buffers of 1 or 2 bytes produce debts of
  one and of two bytes, and a debt that takes two reads to drain.
- Three layers allow a proxy over a wrap over a leaf.

All runs check safety only, so no fairness is assumed. Whether a copy ever
ends depends on its peers, and no scheduler in the code guarantees it.

## 4. Proofs

`SessionProofs` proves, for every `MaxChunks \in Nat \ {0}`
(`MaxChunksAssumption`):
- `TypeCorrect`: `Spec => []TypeOK`, which bounds the chunk counters.
- `SessionSafety`: `Spec => [](NoTransferOutlivesSession /\ JoinWaitsForBoth)`,
  and its corollary `JoinSafety`: `Spec => []JoinWaitsForBoth`.

The invariant is strengthened to `IInv`, which adds two conjuncts:
- `DoneFlushed`: a done direction has written all it read;
- `JoinPending`: a pending join session has no dropped or failed direction.

Without `JoinPending`, a join step that resolves with `ok` could leave a
dropped direction behind. Without `DoneFlushed`, `JoinWaitsForBoth` cannot be
carried over the step in which the second direction reaches EOF.

`IInv` was checked with TLC first. The proof has one step per action and, under
`Eof`, one case for `join` waiting and one for resolving. It rests on two
lemmas: `DropPendingFacts` and `OtherFacts`.

`ServeProofs` proves, for every `MaxConns`, set of variants and oneshot values
(`ServeAssumption`):
- `ServeTypeCorrect`: `Spec => []TypeOK`, with the lemmas `LeftYieldsSeq`
  (every left element sequence is in `Seq(Elements)`), `InitType` and `TypeStep`.
- `ServeOnceSafety`: `Spec => []PsOutlivesServeOnceSession`.
  The invariant is strengthened by `Rest`, which adds three conjuncts:
  - `TasksTaken`: a task exists only for an element already taken;
  - `OnceOnlyFirst`: on the ServeOnce path only task 1 exists;
  - `OnceRunnerHoldsPs`: while the ServeOnce runner runs, the ProgramState is
    alive.

  Taking the left peer keeps the ProgramState alive only by
  `OnceRunnerHoldsPs`. Ending a session drops it safely only because
  `OnceOnlyFirst` rules out a second active task. `PathStep` shows that no step
  changes the variant, so the multi-path actions leave the ServeOnce
  conjuncts vacuous. `TypeOK /\ Rest` was checked with TLC on the
  serve_lifecycle instance first.
- `ServeErrorsReportedOnce`: `Spec => []ErrorsReportedOnce`. The invariant
  is strengthened by `LeftErrsStop`: while the runner runs, every left element
  it took was a peer. Without it, the step that appends the left error `0` to
  the log could not be shown to keep the log injective. Lemma `AppendRange`
  gives the range of `Append(s, x)`, and the fact that it stays injective when
  `x` is new. Lemma `EndTaskErrKeeps` covers the end of a task. The invariant
  was also checked with TLC first.
`ReadDebtProofs` proves, for every `Bytes`, `MaxMsgs`, `MaxMsgLen` and
`MaxBuf \in Nat \ {0}` (`ReadDebtAssumption`):
- `ReadDebtTypeCorrect`: `Spec => []TypeOK`, including the bound that a debt
  is empty or shorter than `MaxMsgLen`. The invariant is strengthened by
  `MsgsBounded`: the messages not yet delivered each have at most
  `MaxMsgLen` bytes. The caller's buffer has n >= 1 bytes (`Next` reads
  with `n \in 1..MaxBuf`). Lemma `ProcessMessageFacts` shows that `process_message`
  with a non-empty buffer leaves a debt shorter than its chunk. It rests on
  `RemainderFacts`, `BoundedSeqFacts` and the `SequenceTheorems` facts about
  `SubSeq`, `\o` and `Tail`.
- `ReadDebtConservation`: `Spec => []DebtConservation`, the property that
  no byte of the stream is lost, duplicated or reordered when a message is
  split across reads. The inductive invariant `CInv` is `IInv`, plus the fact
  that the input is a sequence of byte sequences, plus `DebtConservation`
  itself. The typing is needed because concatenation is associative and has
  `<<>>` as unit only on sequences. `CInv` was checked with TLC on the
  readdebt_conservation instance first. The step has two cases:
  - `CheckDebt`: `ProcessMessageConserves` shows that `out \o debt` is
    unchanged, since the bytes copied and the debt kept make up the old debt
    (`SplitIsChunk`).
  - `ReadMessage`: `out \o debt` grows by `Head(msgs)`, and
    `FlattenSeqHeadTail` moves that head out of `FlattenSeq(msgs)`.
- `ReadDebtRefinement`: `Spec => ImplementsReadDebtAbs`. `Init` maps to
  `AInit`, with the same set of inputs. A step with an unchanged state is an
  abstract stutter. Otherwise, a `Read(n)` appends to `out` a sequence `x` of
  at most n bytes (`ReadOut`, from `ProcessMessageOut`). It is the abstract
  `ARead(n)` with `l = Len(x)`, because `CInv` holds in the state after the
  step, and under conservation `out` is a prefix of the stream
  (`OutIsPrefix`, from `PrefixOfConcat`). The instance `RA` has its own copies
  of `FlattenSeq` and `BoundedSeq`, so the proof unfolds both copies to match
  them.

`SpecInfoProofs` proves, for every `MaxDepth` and set of types:
- `CollectCorrect`: `Spec => []CollectListsLayers`. The loop invariant
  `LoopInv` says four things:
  - `r` holds the infos of the first `Len(r)` layers;
  - each of those layers but the last links to the next;
  - `ss` is the subspecifier of the last one.

  When `ss` is None, the last layer listed is the one `VisibleDepth` chooses:
  it is the only layer that is a leaf or the innermost, with no leaf before
  it. `LoopInv` was checked with TLC on the specinfo_collect instance first.
- `TypeCorrect`: `Spec => []TypeOK`, from `LoopInv` (`LoopInvTypeOK`). Each
  entry of `r` is a `OneSpecifierInfo` because `IsMulticonnect(c)` equals
  `McWitness(c)` (`IsMulticonnectValue`), a function into `BOOLEAN`.
  `McWitness(c)[i]` is the flag of the first layer from `i` down that is not
  a proxy, or of the innermost layer.
- `MulticonnectPrediction`: `Spec => []MulticonnectPredictsConstruct`. Two
  facts give it:
  - `ConstructValue`: `construct` returns the innermost layer's variant at
    every layer, because `map` keeps the variant;
  - `McAllProxy`: over a chain of proxies, `McWitness(c)[1]` is the
    innermost layer's flag.

Recursive functions over sequences. `FlattenSeq`, `IsMulticonnect` and
`Construct` are defined by `LET f[i \in D] == ... IN f`, which means
`CHOOSE f : f = [i \in D |-> ...]`. To learn their values, each proof shows
two things:
- a function solving the recursion exists (`FlatStepExists`, `McWitnessEq`,
  `ConWitnessEq`);
- no other function solves it (`FlatStepUnique`, `McEqUnique`,
  `ConEqUnique`).

The CHOOSE then denotes that solution. The uniqueness proofs, and the
existence proof for `FlattenSeq`, are inductions. The library's induction
theorems take an operator parameter, which the installed provers cannot
instantiate. `InductionLemmas` therefore states induction over a set
parameter instead. It proves `NatSetInduction` from the well-foundedness of
`<` on `Nat` (`WFMin`), and derives from it `IntervalInduction` and the
downward `BackwardUnique`.

Only TLC checks the violation runs, which show counterexamples and have
nothing to prove. Every property of a passing run has a theorem. The
project states no liveness property: TLAPS could not prove one, and the
code gives no fairness to rest it on.

## 5. Not modelled

- The peers, the parser, the lints, `my_copy` and `ws_peer`: their sources
  are not under `src/`.
- The `Rc<RefCell>` sink that `ws_upgrade_peer` creates: the code that
  shares it between ping replies and writes is in `ws_peer.rs`.
- Error constructors and logging.
- What a right constructor yields after its first element:
  `get_only_first_conn` keeps only the first element, so a right side is its
  variant and that element (a peer, an error, or none for the panic).

## 6. Plan for the next sittings

1. Compose `Serve` with `Session`, so that a task's session is the `Session`
   state machine.
