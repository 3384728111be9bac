# A TLA+ verification of the dual-GPU runtime

This directory models the control of the runtime in `src/`: the transaction
engine, the dual-stage executor, the CUDA backends of its two stages, the ring
between them, the store of per-layer embeddings, the sampler, the kernels whose
warps meet in shared memory, the RPC service in front and the journal behind. The
modules are checked with TLC on small instances, and what is said of the
transaction engine, the executor, the service, the boundary ring and both stages
of the CUDA backend is, liveness and the findings apart, proved with TLAPS for
every instance.

## 1. The system and its parts

A request travels down this chain:

```
 HTTP sidecar -> control plane -> [Unix socket] -> ExecutorRpcServiceV1
                                                     |          \
                                          DualStageExecutor   SnapshotJournal
                                          /      |      \
                                  worker 0   engine   worker 1
                                 (backend 0)         (backend 1)
                                       \--- boundary ring ---/
```

| Part | State it keeps | Operations | What is hard about it |
|---|---|---|---|
| `SessionTxnEngine` (`src/src/transaction.cc`) | frontiers, the open transaction, acknowledgements | append_known, prepare, prepare_append_known, seed_decode_pending, acknowledge, shorten_speculative, decide, commit, rollback, reset | any order of calls; overflow; epochs that must never be used twice |
| `DualStageExecutor` (`src/src/executor.cc`) | canonical tokens, last sample, poisoned | append, seed_decode, decode_one, speculative_step, reset_session, fail_closed | two worker threads and a cancelling thread; online verification with one row of lookahead; rollback behind queued work; a commit that half fails |
| `CancellationToken` (`src/include/q38/backend.h`) | active, cancelled, deadline or sealed | request_cancel, throw_if_requested, seal | the commit point races the canceller and the clock |
| `StageBackend` (`src/src/mock_backend.cc`, `src/src/ple_backend.cc`, `src/cuda/cuda_backend.cu`) | committed rows and epoch, provisional rows, checkpoint | prefetch, execute, draft, checkpoint, reconcile, commit, rollback, reset | partial commits, lookahead rows, decorators that see only some calls |
| CUDA backend (`src/cuda/cuda_backend.cu`) | `Impl`: provisional transaction, PLE hash, read-ahead, MTP members, decode graphs; the workspace arrays | the same calls | a reader thread that runs ahead, cancellation at any tile, a draft model whose rows must follow the target's, arrays indexed by chunk or by transaction |
| State banks (`src/cuda/q38_gdn.cu`, `q38_ple.cu`, `q38_qsa.cu`) | two copies of a recurrent state and a checkpoint; an append-only key array with pooled blocks | begin, checkpoint, restore, commit, rollback, reset | rows left by a rejected or cancelled transaction are overwritten in place |
| `ExecutorRpcServiceV1` (`src/src/rpc.cc`) | idempotence cache, cancellation registry, published state | handle (writers, readers, cancel) | retries after a lost response, eviction, cancel against registration, restart |
| `SnapshotJournal` (`src/src/snapshot.cc`) | the file, the current snapshot | constructor (load), append | torn records, suffix records, failed writes |
| Boundary ring (`src/cuda/cuda_transport.cu`) | leased slots with events and checksums | copy_from_device, lease release, the consumer's copy | asynchronous copies into a slot that is given back; a waiter that must be woken |
| PLE store and readers (`src/src/ple.cc`) | page cache, io_uring rings, fixed buffers | read_rows, read_extents, read | completions in any order and ones that outlive a failed read; eviction by the batch that loads; short submissions |
| Control plane and sidecar (`src/tools/`) | the session record, the writer lock | create, append, generate, cancel | the record against the executor when a response is lost |
| Sampler (`src/src/sampling.cc`) | penalty counts, generator state | prepare, commit, commit_token(s), reset | must advance exactly with committed transactions |
| Kernels (`src/cuda/q38_*.cu`) | shared memory, workspace scratch, the state arrays of a layer | GDN, block selection, attention, router, route plan, experts, each on several paths | warps that run ahead of each other between barriers; scratch that aliases results; several kernels that must give the same answer |
| Artifact tools, loaders, launcher, metrics | files, immutable weights | offline or sequential | crash between two renames; otherwise none |

What makes the parts correct, in one sentence each: the *engine* never leaves
valid frontiers and behaves as a log of atomic requests; the *executor* gives
each request its whole effect or none and generates what plain greedy decoding
would; the *backends* hold, between requests, exactly the rows the engine calls
evaluated, the state banks of the CUDA stages exactly the state of those rows,
and the draft model's state follows them; the *ring* hands every boundary over
whole and never forgets a waiting producer; the *store* returns the stored bytes
or fails; the *sampler* is a function of the committed session; the *kernels*
compute the same result on every path and under every schedule of their warps;
the *service* runs a request at most once and can repeat its last
answer; the *journal* recovers the last snapshot that was promised.

`PROJECT.json` lists every component with its status, and under `hazards` the
places where this code is hard to test.

## 2. The modules

| Module | Models | Notes |
|---|---|---|
| `SessionLog` | abstract: what the engine promises | appends are atomic, an abort leaves no trace |
| `SessionTxn` | `SessionTxnEngine` | one action per method; a refused call is a stuttering step |
| `SessionTxnProofs` | theorems about `SessionTxn` | TLAPS |
| `StageBackend` | one backend | operators on a backend record; no variables |
| `TokenSession` | abstract: what the executor promises its caller | whole effect in the answering step, greedy tokens, dead for good after a failure |
| `DualStage` | `DualStageExecutor`, its workers and the token | extends `SessionTxn` and `StageBackend`: the engine's actions are conjuncts of the coordinator's |
| `DualStageProofs` | theorems about `DualStage`: the stages agree | TLAPS |
| `DualSessionProofs` | theorems about `DualStage`: it is a token session, and healthy without faults | extends `DualStageProofs` |
| `StateBank` | the device state banks | operators on bank records; no variables |
| `CudaStage0` | stage 0 of the CUDA backend and the thread of its `PleAsyncReader` | shown to implement `StageBackend` |
| `CudaStage0Proofs` | theorems about `CudaStage0`: reader and rows | TLAPS |
| `CudaStage0BankProofs` | theorems about `CudaStage0`: banks, refinement, failures | extends `CudaStage0Proofs` |
| `CudaStage1` | stage 1 of the CUDA backend with the MTP draft model | |
| `CudaStage1Proofs` | theorems about `CudaStage1`: the draft model follows the target | TLAPS |
| `ExecutorRpc` | `ExecutorRpcServiceV1` | the executor is abstracted to what `TokenSession` promises |
| `ExecutorRpcProofs` | theorems about `ExecutorRpc` | TLAPS |
| `SnapshotJournal` | the journal file and its recovery | cell by cell |
| `BoundaryRing` | `CudaBoundaryRing`, its two streams and both of its users | |
| `BoundaryRingProofs` | theorems about `BoundaryRing` | TLAPS |
| `PleStore` | `PleStore`, its page cache and `IoUringProvider` | the kernel's side of io_uring is external |
| `Sampler` | `TransactionalSampler` in sampled mode and the executor's calls of it | |
| `ThreadBlock` | how the warps of a block are scheduled around `__syncthreads()` | operators, used by the kernel modules |
| `GdnKernels` | the gated delta-net kernels of a head | against the recurrence they compute |
| `QsaSelect` | pooling of block keys and selection of the blocks to attend to | decode and prefill path |
| `QsaAttention` | attention over the selected positions | five paths |
| `TopkRouter` | the two router kernels | |
| `MoeExperts` | route plan, grouped, decode and legacy expert paths | |
| `MCStage0Live` | `CudaStage0`, `BoundaryRing` and `PleStore` under one fair specification | a behaviour runs one of them |
| `MCParts` | the engine, the service, the journal, the sampler and the kernels side by side | a behaviour runs one of them |
| other `MC*` | the instances TLC checks | |

**SessionTxn.** `frontiers`, `txn`, `active` and `ack` are the private members.
`MaxU64` stands for the largest `uint64_t`, so that a small value reaches every
overflow branch. `prepare_append_known` undoes its own increment when the inner
`prepare` refuses, so its guard collects the checks of both. The engine's caller
is unconstrained: any method may be called at any time with any argument.

**StageBackend.** A backend's rows are the tokens whose state it holds. Digests,
payloads and checksums are functions of those rows and are replaced by them: the
boundary row stage 0 hands over *is* the sequence stage 0 has seen, and the next
token is `Predict` of that row and of stage 1's own rows. A stage that evaluated
the wrong rows is therefore visible in the tokens that come out. `PleStage0`
adds what the PLE decorator changes: a stricter commit, no checkpoint.

**DualStage.** `pc` names the `future.get()` or check at which the coordinator
stands; what it does between two of them is one step, because nothing it touches
in between is shared. A worker takes a task and completes it in two steps, so a
cancellation can fall between the two looks a backend call takes at the token.
Cancellation and the deadline are actions that may happen at any moment of a
request. `TakeTask`/`CompleteTask` model `StageWorker::run`, `Throw` and
`GetRollback0/1` the catch blocks and `rollback_prepared`. The drafts are any
sequence over the vocabulary, since the draft model is free to propose anything.
With `Faults` a backend call may throw before or after its effect, or return
something malformed that the coordinator has to catch. The sampler is in greedy
mode; the diagnostic logits, statistics and latencies do not influence control
and are left out.

**StateBank.** A recurrent state is the sequence of inputs folded into it, so two
states are equal exactly when the same inputs reached them in the same order. The
GDN and PLE banks are the same program on different buffers and share one set of
operators. The QSA bank is an array that transactions write behind the committed
extent and never clear; a block's pooled key is the block's keys at the time it
was pooled.

**CudaStage0.** The stage worker (`pc`) and the reader (`rpc`) take steps between
their waits on the reader's mutex; cancellation may strike between any two. A PLE
row is the token with the two before it as far as `PleHashState` tells them
apart. Rows, tiles and extents are counted in tokens. The executor is reduced to
the order of its calls, and accepts any prefix of a draft. A device call or a
storage read may fail with `Faults`. `AsReference` reads a backend record of
`StageBackend` off the banks and members, and `ImplementsStageBackend` says that
every step is a call of the reference backend that it accepts, or invisible: what
`DualStage` assumes of its backends is what this one does.

**CudaStage1.** A hidden state (HC) is the sequence of tokens the target has
seen, a row of the draft model a pair of an HC and a token, and a prediction
carries the HC it was computed from; a stale array entry is therefore
recognisable. What an earlier transaction left in the workspace, behind the
committed extent of a bank, or in its working copy is replaced by one marker,
since nothing may depend on it. A call is one step with one outcome per look it
takes at the cancellation token: stage 1 shares nothing else while it runs. The
index arithmetic of `run_tokens`, `run_mtp_prefill` and
`reconcile_retained_draft` is kept (`ResultIndex`, `MtpRow`, `ReconciledBank`). A
write behind the end of an array is undefined; the model takes the mildest
outcome, that nothing modelled changes. Draft widths are below the chunk size.

**ExecutorRpc.** A step is a block under `state_mutex`, or the executor call, or
the journal append. The four writer opcodes that extend the session are one
(`extend`); its content is the sequence of ids that took effect. `Crash` kills
the process at any point; `Restart` follows the constructor, which refuses a
journal that is not empty. The history variables `accepted`, `okTold`, `effects`
and `session` record what callers were told; nothing in the code reads them.

**SnapshotJournal.** A record is two header cells and one cell per token, so that
a write, a death of the process or a power failure can stop inside the header,
between header and suffix, and inside the suffix. The checksum of a record is
represented by what it covers. `ProcessDies` keeps the file as it is; `PowerFails`
leaves one of the states it went through since the last `fdatasync` (`disk`),
writes and truncations reaching the disk in their order, as on an ordered file
system. Only `append` calls `fdatasync`; the load neither syncs what it reads nor
what it truncates. A snapshot whose `append` was killed before its `fdatasync` is
therefore found by the next load and may still be lost to a later power failure,
which the model shows and the properties allow: `RecoveryIsExact` separates what
is `readable` after a death from what is `lasting` through a power failure. No
caller is told of such a snapshot by the service, which refuses to start over a
journal that is not empty (`src/src/rpc.cc:391`).

**BoundaryRing.** `producer` walks through `copy_from_device` and `consumer`
through stage 1's use of the lease, one CUDA call a step; `pstream` and `cstream`
hold the operations issued and not yet executed, and execute them in order, at
any later time. A payload has two halves, so a copy under way is visible. A call
of either side may fail or be cancelled between any two CUDA calls, which drops
the lease with operations still in the stream. `notifies` counts the `notify_one`
calls that come after the unlock.

**PleStore.** A call of `read_extents` is cut where it talks to io_uring: queueing
submissions, entering the kernel (which may take fewer than asked, be
interrupted, or fail), and taking completions, which arrive in any order. What a
page buffer holds names the page and how many of its cells, so bytes from another
page, or from behind a short read, are recognisable. The submission ring, the
reads under way, the completion ring and the fixed buffers survive a call, the
locals do not. The cache keeps its least-recently-used order, its chunks and its
free list. `FailureIsFatal` says whether the owner uses the store again after a
failure.

**Sampler.** An append, a decode or a seed prepares a decision from the logits of
the last token and commits it with the engine or drops it. Logits, penalties and
weights are small integers and the generator is a table of its first numbers; the
selection (penalties, top-k, nucleus, inverse transform) is that of the code.

**ThreadBlock and the kernels.** A kernel is a sequence of steps with a flag for a
barrier before a step. Each warp takes them at its own pace, and a barrier holds
it until the others have come as far. Shared memory, workspace scratch and
registers are fields of the launch. Each kernel module has a reference definition
that knows nothing of warps, tiles or launches. The exponential of `TopkRouter` is monotone but not injective, since that of FP32
rounds and underflows: each kernel selects the best experts in its own order, and
the weights agree rank by rank. `GdnKernels` computes with
residues modulo a prime, where sums are exact. `QsaAttention`, `TopkRouter` and
`MoeExperts` leave sums and products as the sequence of their terms, so a term
that is missing, taken twice, stale or added in another order is visible.
`QsaSelect` works on integer scores whose digits stand for the bytes of a float.
`QsaSelect` also stores and rolls back tokens between selections, so a pooled key
can be one an aborted transaction made. `MoeExperts` runs the route planner with
the report of an invalid expert racing the clearing of the status.

## 3. The runs

| Run | Instance | Properties | What it shows |
|---|---|---|---|
| `dual` | context limit 5, appends of 2 in chunks of 1, drafts of 2, no faults | `TwoBoundariesAtMost`, `HealthyWithoutFaults`, `SealDecides`, `ImplementsTokenSession` | normal operation, cancellation, deadline, rejected drafts, stop tokens |
| `dual_faults` | context limit 3, drafts of 1, faults, fairness | `StagesAgreeWhenIdle`, `ImplementsTokenSession`, `EveryRequestAnswered` | one stage failing at any call, rollbacks and commits included; no hang |
| `dual_ple` | as `dual`, PLE decorator | `HealthyWithoutFaults` (violated) | the first finding below |
| `cuda0` | context limit 3, chunks of 2, tiles of 1, drafts of 2, 2 epochs a session | `BanksHoldSession`, `RowsAreOwn`, `ReaderQuiet`, `FailsOnlyByReadAhead`, `ImplementsStageBackend` | every interleaving of stage, reader and cancellation without faults |
| `stage0_live` | stage 0 with one token value, faults; a ring of 2 slots, 3 boundaries, 2 failures; a store of 3 rows over 2 files, 3 pages, 2 buffers, 1 fault; fairness | `BoundaryIsOwn`, `StoreIsExact`, `CallsReturn`, `WaitingProducerGoesOn`, `ReadsEnd` | nothing stage 0 waits for is forgotten, and what it is handed is right |
| `cuda0_cancel` | as `cuda0` | `CancelIsRecoverable` (violated) | the second finding |
| `cuda0_chunk` | context limit 4, chunks of 3, tiles of 2 | `ReadAheadServesChunks` (violated) | the third finding |
| `cuda1` | context limit 6, chunks of 3, appends of 1 and 5, drafts of 2, 3 epochs a session | `DraftStateFollowsTarget`, `AnswerIsOwn`, `StageOneAccepts` | the draft model follows the target |
| `cuda1_tail` | as `cuda1`, appends of 4 | `DraftStateFollowsTarget` (violated) | the fourth finding |
| `parts`: engine | `MaxU64 = 4`, up to 2 tokens a call | `EngineInv`, `FrontiersStayValid`, `DecidedTxnCommits`, `AckedExtentFrozen`, `EpochsAreFresh`, `ImplementsSessionLog` | all call sequences, with every addition refused somewhere |
| `parts`: service | 2 connections, 3 ids, cache of 2 | `AtMostOnce`, `LastAnswerReplayable`, `NoReplayAcrossReset`, `CancelIsHonest`, `PublishedIsCurrent` | retries, eviction, cancel races, failing journal, crash |
| `parts`: journal | 4 sessions of up to 2 tokens, 2 records, 3 processes | `JournalHolds`, `RecoveryIsExact` | killed processes, power failures and failed writes at any cell |
| `parts`: sampler | 3 tokens, sessions of 4 | `SamplerFollowsSession` | draws and counts follow committed transactions |
| `parts`: kernels | router: 8 experts, top 3; experts: 3 with top 2, up to 3 tokens; GDN: heads of 2, 3 tokens; selection: 6 positions, blocks and budget of 2; attention: 2 heads, 5 positions; 2 warps in every block | `RouterIsTopK`, `PlanFailsClosed`, `ExpertsAreOwn`, `GdnIsRecurrence`, `SelectionIsTop`, `AttentionIsSoftmax` | each kernel against its reference, under every schedule |
| `ple_retry` | the store of `stage0_live`, used again after a failure | `StoreIsExact` (violated) | the fifth finding |
| `router_ties` | 4 experts, top 2, an exponential that underflows | `MatchesReference` (violated) | the sixth finding |

`parts` is one run: its parts share no state, and a behaviour runs one of them
(`focus`). What TLC explores is the union of the parts' state spaces, not their
product.

**Why the bounds are enough to meet the interesting cases.** With `MaxU64 = 4`
and two tokens a call, a session is empty, partly pending, full, and its epoch is
exhausted. In `dual` an append has two chunks or three with a pending token, so
stage 0 runs ahead and one chunk is still in flight when the third is cut; a
draft of two rejects at the first, the second or no row, so the lookahead row is
present and absent, and a stop token falls inside the accepted prefix; the
context limit caps the width to 1 and to 0. The epoch bound equals the context
limit, so a few transactions, rolled back or committed, fit before the engine
refuses. The service has more ids than cache entries, so ids are cached, evicted, and
dropped by a reset; two connections suffice because a third would only wait on
the same mutex. For the journal a snapshot extends, shortens, replaces or equals its
predecessor; three processes allow a death, a load of what it left, and a power
failure that takes it back, before the load that is judged. In `cuda0` an append has one chunk or two of up to two tiles each,
so the reader has three tiles to deliver and its queue of two fills; a block of
two positions is completed inside an append, by a decode and by a rejected row;
two epochs give a transaction after a cancelled or committed one, and a reset
starts the epochs again. In `cuda1` a session of one token grows by an append of
two chunks with a pending HC, one of five tokens starts without, and three epochs
allow a draft after a rejected or cancelled draft; the two tokens are
interchangeable, so the run uses their symmetry. Appends of one and five leave
out the chunk of one token behind another chunk, which `cuda1_tail` has.

In `stage0_live` the ring has two slots, one fewer than a production ring, so
that with two boundaries ahead stage 0 really waits, and two failures let a
dropped lease be followed by another one in the same slot. A row of the store
straddles two pages, a batch may name a row twice, so that two copies wait for one
load, and a batch needs up to four of three pages, so it evicts what it loads; two fixed buffers
make a call submit in rounds. One fault is enough to leave a read behind. In
`parts` the experts have slabs with an expert on several tiles, a partial tile
and an expert with no rows; every assignment of up to 3 tokens to different
experts is met on every path, and for up to 2 tokens one invalid id as well. The router meets every vector of two logit
values over eight experts, so every pattern of ties, and every one of these with
one logit that stands out, next to which the other two exponentials are equal;
`router_ties` has an exponential that vanishes for all but the largest logit. A GDN sequence of three
tokens is cut into launches of one and two in every way and through every kernel.
A selection has from none to three complete blocks and a budget of two, scores
that tie, and blocks filled by slabs, decodes and rolled-back rows. Attention has
full and partial tiles, and a second launch meets the scratch of the first. Two
warps are enough to have one run ahead of another.

Deadlock is checked except where the system really stops: in the `cuda0` runs,
where a poisoned executor takes no further call; in `stage0_live`, `ple_retry`,
`router_ties` and `parts`, where the last boundary, read, session or launch of the
bound ends a behaviour, and a service whose journal is not empty refuses to start
again. `EveryRequestAnswered`, `CallsReturn`, `WaitingProducerGoesOn` and
`ReadsEnd` say there what deadlock checking would.

**Fairness.** `dual_faults` assumes weak fairness of the coordinator and of each
worker, `stage0_live` of the stage worker and of the reader's thread, of the ring's
producer and consumer and of a pending `notify_one`, of each CUDA stream, of the
thread inside a store call and of the kernel's reads. The threads are those of the
process and runnable whenever their
condition holds (`StageWorker::run` waits on a condition variable that `submit`
signals, `PleAsyncReader` on two that `submit`, `take`, `cancel` and its own loop
signal), and a backend call returns or throws; a stream executes what was issued to it in
order, and a read given to io_uring completes, well or not. Callers, the canceller and the
clock owe nothing. Liveness stays with TLC: fairness and `ENABLED` are outside
what the proof system handles.

**Mutants.** Every property of a passing run has an operator in its module,
commented `Mutant`, that changes one definition the way a plausible bug would and
breaks the property.

## 4. What is proved

Eight modules hold theorems. Each one is stated for every value of the constants
that the named assumption of its model admits, for any number of steps and, where
the specification has them, for every placing of faults, crashes, cancellations
and deadlines. The bounds of the TLC instances do not enter.

| Module | Theorem | States |
|---|---|---|
| `SessionTxnProofs` | `EngineAlwaysInv` | `EngineInv` |
| | `EngineTypeCorrect`, `FrontiersAlwaysValid`, `DecidedAlwaysCommits` | `EngineTypeOK`, `FrontiersStayValid`, `DecidedTxnCommits` |
| | `EpochsAlwaysFresh`, `AckedExtentAlwaysFrozen` | the action properties `EpochsAreFresh`, `AckedExtentFrozen` |
| | `EngineRefinesLog` | the refinement `ImplementsSessionLog` |
| `ExecutorRpcProofs` | `RpcInvariant`, `RpcTypeCorrect` | `RpcInv`, `RpcTypeOK` and `CacheInStep` |
| | `RequestsTakeEffectAtMostOnce` | `AtMostOnce` |
| | `LatestAnswerIsReplayable`, `NoAnswerSurvivesReset` | `LastAnswerReplayable`, `NoReplayAcrossReset` |
| | `CancellationIsHonest`, `PublishedStateIsCurrent` | `CancelIsHonest`, `PublishedIsCurrent` |
| `BoundaryRingProofs` | `RingInvariant`, `StageOneReadsItsBoundary` | `RingInv`, `BoundaryIsOwn` |
| `DualStageProofs` | `DualInvariant` | `DualInv` |
| | `SealIsTheCommitPoint` | the action property `SealDecides` |
| | `StagesAgree`, `StageZeroOneChunkAhead` | `StagesAgreeWhenIdle`, `TwoBoundariesAtMost` |
| | `ExecutorDrivesEngine` | `DualSpec => EngineSpec` |
| `DualSessionProofs` | `SessionInvariant` | `SessionInv` |
| | `ExecutorIsASession` | the refinement `ImplementsTokenSession` |
| | `HealthyWithoutBackendFaults` | `HealthyWithoutFaults`, of a stage 0 without the PLE decorator |
| `CudaStage0Proofs` | `ReaderInvariant`, `ReaderIsQuiet` | `ReaderInv`, `ReaderQuiet`, under `TilesFitChunks` |
| | `TilesMeetChunks` | `ReadAheadServesChunks`, under `TilesFitChunks` |
| | `RowsInvariant`, `RowsReachTheirTokens` | `RowsInv`, `RowsAreOwn`, under `TilesFitChunks` |
| `CudaStage0BankProofs` | `StateInvariant`, `BanksHoldCommitted` | `StateInv`, `BanksHoldSession`, under `TilesFitChunks` |
| | `CudaStageIsABackend` | the action property `ImplementsStageBackend`, under `TilesFitChunks` |
| | `HealthInvariant`, `OnlyReadAheadFails` | `HealthInv`, `FailsOnlyByReadAhead`, under `TilesFitChunks` |
| `CudaStage1Proofs` | `StageInvariant`, `StageOneNeverRefuses` | `StageInv`, `StageOneAccepts`, under `NoTail` |
| | `StageOneAnswersItsOwn`, `DraftFollowsTarget` | `AnswerIsOwn`, `DraftStateFollowsTarget`, under `NoTail` |

**The engine** (assuming `SessionTxnAssumption`: `MaxU64 >= 1`, `MaxCount >= 1`).
`FrontiersStayValid` alone is not inductive: a commit keeps the frontiers valid
only if what was decided fits what was prepared, and a rollback only if the
canonical frontier it restores still lies above target and draft. `EngineInv`
therefore adds `OpenTxnFitsFrontiers` (an open transaction is the next epoch over
the present target, and its extent lies inside the pending tokens, or covers the
single one), `DecisionMatchesKind` (commit and publish counts per kind) and the
bound that an ended transaction's epoch keeps. TLC checks `EngineInv` in the run
`parts`. The inductive step (`EngineInvInductive`) has a step per action; the
simulation (`EngineStepSimulates`) maps each engine step to a `SessionLog` step
or a stutter under the mapping `VisibleCanonical`, `OpenRequest`: an open append
is invisible until it commits.

**The service** (`ExecutorRpcAssumption`: at least one id and one cache entry, and
a `None` that is neither a client nor a sequence of ids). At-most-once rests on
the order of ids, not on the cache, which forgets: `OneWriter` says the thread
past admission holds the mutex and handles the highest id, `EffectsAreOld` that
every effect belongs to an id not above it, and `ToldIsDurable` that nobody is
told of an effect before the journal has a record, so that a restarted service,
which counts from zero, refuses to start over it. `CacheIsOld` and
`CacheIsPresent` carry the two claims about replays, `RegistryInStep` and
`AnswersAreHonest` the one about cancellations (what an accepted cancel, the
token's state and the place of the writer say about each other), `JournalInStep`
the one about publication. `RpcInv` is their conjunction; the step lemmas are one
per action.

**The ring** (`BoundaryRingAssumption`: two slots or more). A slot that a failed
copy or a dropped lease has freed may still have operations in the stream, so
"a slot has one holder" does not protect its contents. What does is the order of
the stream: `Place` numbers the operations of all boundaries, `StreamInOrder`
says the stream is sorted by it and each operation reads the rows of its own
boundary, and `Holding` says of a leased slot that each operation issued for it
is still in the stream or has left its result in the slot, and that no operation
of a *later* boundary touches the slot. Operations of earlier ones may, but they
run first. The field `b` of a stream operation, the boundary it was issued for,
exists for this argument only: no step reads it.

**The executor** (`DualStageAssumption` and the engine's). `DualInv` says, from the
coordinator's place alone, which calls each worker may still owe (`PlainCall`,
`ClosingCall`: at most one of the chunk loop and behind it the one that ends the
transaction), that none of them has been answered, which answers exist, and what
each backend holds: the base rows, or the base rows and a prefix of the
transaction's tokens (`Within`), or, once the closing call was accepted, the
result of the commit or the rollback. It needs the engine's invariant (the epoch
of an open transaction is the next one), the agreement of the coordinator's copy
of the transaction with the engine's (`FrameInStep`) and the seal
(`SealedInStep`). `StagesAgreeWhenIdle` is what remains of it at `"idle"`; nothing
weaker is inductive, since an abandoned chunk may still run on one stage while
the other has rolled back. `ExecutorDrivesEngine` has a consequence: all theorems
about the engine hold of the executor. The proof treats `Faults` as free, so the
agreement does not rest on backends that never fail. TLC checked `DualInv` as an
invariant of the instance of `dual_faults` before it was proved.

**The executor as a token session** (the same assumptions). That a request takes
effect in one step, and that speculation publishes the target model's own greedy
choices, needs more than a prefix on each stage. `SessionInv` adds to `DualInv`

- `RowsCounted`: how many rows of the transaction a stage has evaluated at each
  place, before and after the call it is asked for, stage 0 being up to one
  lookahead row in front;
- `AnswersExact`, `TasksExact`: the boundary a task carries is the one of its
  chunk, over exactly the rows behind it, and an answer of stage 1 is the greedy
  choice after the rows it counts, with a prefix of drafts that were all right;
- `FrameExact`: what the coordinator has verified so far, where no stop token may
  be, and which extent, commit count and last token it seals;
- `StatusExact`: how an answered request ended.

The place `"lookahead"` is why the three depend on each other: a rejected draft
shrinks the extent below what stage 0 has evaluated, and the commit count must
name the same row on both stages. The refinement then needs one lemma per step of
the coordinator: `GetCommit1` is the step that takes effect, the two rollbacks
and every other end are refusals, and a poisoned executor is the dead session.
Like `StagesAgreeWhenIdle` it holds with faults.

`HealthyWithoutFaults` rests on `HealthInStep`: no answer the coordinator waits
for is a failure (`NoFailures`; those of a transaction that is given up may be
late, but are not looked at), and stage 0 has the checkpoint that a rejected
draft falls back on (`CheckpointInStep`). With `SessionInv` every call that
somebody waits for meets the conditions of `StageBackend` for accepting it. The
theorem assumes `~PleStage0`, as it must: behind the decorator the property is
false (the first finding). TLC checked `SessionInv` on the instances of `dual` and
`dual_faults`, and `HealthInStep` on that of `dual`, before they were proved.

**Stage 0 of the CUDA backend** (`CudaAssumption`, `BlockAssumption`: a block has
a position or more, and the hypothesis `TilesFitChunks`). The invariant is built
in four layers, each of which uses those before it.

- `ReaderInv`, the two threads. Of a request, the reader's work and a result there
  is one exactly while the backend believes a read to be under way
  (`ReaderInStep`), and the tiles that wait are the next ones of that read, the
  reader going on right behind them (`TilesInStep`). The extent check of
  `PleAsyncReader::take` therefore never fails for a read of the transaction, and
  a drain leaves nothing, which is `ReaderQuiet`. The reader counts tiles from the
  start of the append and `run_prefill` from the start of each chunk, so the
  argument needs `TilesFitChunks`, a chunk size that is a multiple of the tile
  size.
- `RowsInv`, what is read. The hash states are those of the tokens the backend was
  given (`HashesAreOwn`), so the rows of a read are those of its range and a
  staged tile the rows of its tokens; the recurrent banks are the folds of these
  rows, back to the committed session or to the checkpoint (`BanksInStep`).
- `StateInv`, the rest of the stage. The backend's record and its three banks open
  and close a transaction together (`OpenInStep`), and the QSA array begins with
  the keys and pooled blocks of what the stage holds (`KeysInStep`). A store
  overwrites the array in place, so `Stored` needs the argument that blocks below
  the first one touched do not change and all others are pooled again; and it
  holds for every shorter prefix, which is what a rollback falls back on.
- `HealthInv`, what holds without faults: a read delivers all its tiles unless it
  is cancelled, every call of the executor but one after a left-over read-ahead
  is accepted, and the two recurrent banks flip together, so that a decode graph
  meets two pairs of working banks and no third.

`CudaStageIsABackend` follows from `StateInv` alone, hence with faults as well:
what `DualStage` takes for granted about stage 0 is proved of this backend. TLC
checked `HealthInv`, and with it the other layers, on an instance with and on one
without faults before it was proved.

`TilesFitChunks` is a hypothesis of each of these theorems and not an assumption
of the module, because the code does not ensure it: the default chunk (512) is one
tile, but `--chunk` is free. `cuda0` satisfies it. With another chunk size the
third finding says what happens: the check at `src/cuda/cuda_backend.cu:623` fails
(`cuda0_chunk`), which is a failure without a fault or a left-over read-ahead and
leaves the reader busy, so neither `FailsOnlyByReadAhead` nor `ReaderQuiet` is
true there. The other three are not refuted that way: TLC finds no violation of them
on the instance of `cuda0_chunk` with a single token value.

**Stage 1 of the CUDA backend** (`Cuda1Assumption`, `BlockAssumption`, and the
hypothesis `NoTail`). Every draft, rejection and cancellation leaves rows in the
two QSA arrays and entries in the workspace that nobody clears, so the invariant
has to say which part of them is right at each step and to claim nothing of the
rest. `StageInv` says all of it of one sequence, `Full`, the session followed by
the transaction's tokens:

- `Holds(q, r, n)`: the array of a QSA bank, and its pooled blocks, begin with the
  first `n` elements of `r`. The target's array holds `Full` as far as it was
  executed (`TargetRan`); the draft model's holds the rows `MtpRowsOf(Full)` as far
  as they were fed by an append (`AppendRan`) or reconciled (`DraftRan`), and those
  of the session in any case (`SessionHeld`);
- `After(n)`: the HC after `n` tokens of `Full`, which is what the candidate, the
  pending HC and the last answer must be;
- `OpenTogether`, `StepInOrder`: the executor's transaction, the backend and the
  banks are open together, except that a draft runs ahead of the target's begin.

The property itself is not inductive. In the middle of a speculation the draft
model's rows carry its own HCs and are wrong from the second on; what makes the
commit right is that `reconcile_retained_draft` has replaced exactly the rows that
the target confirmed, one row ahead of the next execute, so that the rows a commit
keeps are rows of `Full` (`mtp.reconciled` in `DraftRan`). A block of keys that a
rejected row completed is pooled again when the position is written next, which
is what `HoldsStore` says of any bank, and `HoldsLess` that a shorter prefix is
never lost; a decode feeds the draft model from the workspace at commit
(`DecodeRan`), so its token and HC must still be there.

`NoTail` says that an append is one token, or leaves no chunk of one behind the
others: it excludes what the fourth finding is about, and no more. It is a
hypothesis of the theorems and not an assumption of the module, because the code
does not ensure it; `cuda1` satisfies it with appends of one and five in chunks
of three, and in `cuda1_tail`, with appends of four, the property is false. TLC
checked `StageInv`, without its typing part, on the instance of `cuda1` before it
was proved.

Only model-checked: the page store (`StoreIsExact`), the journal (`JournalHolds`,
`RecoveryIsExact`), the sampler (`SamplerFollowsSession`), the kernels, and
`HealthyWithoutFaults` behind the PLE decorator, where it is violated. Out of the
prover's reach altogether are the liveness properties (`EveryRequestAnswered`, `CallsReturn`,
`WaitingProducerGoesOn`, `ReadsEnd`), and what folds and recursive references
compute for inputs of any length (the journal's recovery, the recurrence of
`GdnKernels`, the router's sorting network, attention over a flattened list).

## 5. Findings

**A rejected draft poisons an executor whose stage 0 is `PleStage0Backend`**
(run `dual_ple`). `PleStage0Backend::commit` (`src/src/ple_backend.cc:90`) throws
unless every row of the prepared extent was evaluated, and the class does not
forward `checkpoint_speculative_prefix`. Online verification stops at the first
rejected draft, with stage 0 one row ahead: with a width of two or more and the
first draft rejected, stage 0 has evaluated two rows of three. The engine commits,
stage 0's commit throws, and the executor fails closed although nothing was
faulty. `src/include/q38/ple_backend.h:12-14` promises that the n-gram history
"commits only through the accepted target prefix". `src/src/main.cc:151` builds
this configuration and the `spec` command drives it.

**A cancelled append can poison the executor** (run `cuda0_cancel`).
`CudaStageBackend::rollback` (`src/cuda/cuda_backend.cu:2993`) undoes the state
banks but does not drain the PLE read-ahead that `prefetch_transaction` started;
only the catch of `execute`, the replay in `commit` and `reset_session` do. When
an append of several chunks is cancelled before its first chunk, between two
chunks, or by the coordinator, the read-ahead survives, and the next request
throws ("PLE read-ahead transaction differs", "invalid PLE transaction
read-ahead"), which is fatal in production. `src/READINESS.md:24`: "Client cancel
and deadline remain recoverable transaction outcomes." `FailsOnlyByReadAhead`
shows that without faults, and with chunks of whole tiles, nothing else fails.

**An append whose chunks are not multiples of the tile fails** (run `cuda0_chunk`).
The reader cuts the rows of an append into tiles of 512 tokens from the start of
the append (`src/cuda/cuda_backend.cu:679-700`), `run_prefill` takes tiles from the
start of each chunk. The executor accepts any chunk size above 0
(`src/src/executor.cc:164`), `src/cuda/cuda_main.cc:46-48` and
`src/tools/q38_launch.py:380-384` pass any positive `--chunk` on, and the backend's
constructor checks no more (`src/cuda/cuda_backend.cu:1130`). With a size that is
not a multiple of 512 an append of several chunks meets a tile that straddles two
of them: `take` throws "PLE async tile extent differs" (623), and in production
(`backend_failure_is_fatal`, 3196) the executor is poisoned. The comment at
`src/cuda/cuda_backend.cu:552-554` promises a reader that serves a complete
transaction while later chunks wait. With a multiple of 512 the check never fails:
`TilesMeetChunks`.

**An append with a last chunk of one token leaves the wrong state** (run
`cuda1_tail`). `run_tokens` (`src/cuda/cuda_backend.cu:2024`) sends a single
token through `run_one`, with a result index counted from the start of the
transaction. For an append of several chunks that index is at least
`max_transaction_tokens`, the extent of `predictions` and `final_hc`: stage 1
writes behind both arrays. `execute` then reads the prediction at index 0 and
`advance_mtp_append` the HC at index 0, so the answered token is stale and the
pending HC belongs to another token. With the default chunk of 512 this happens
for 513, 1025, ... evaluated tokens. The comment at `cuda_backend.cu:2272`
promises "the final target HC kept pending". All other chunk lengths keep the
promise: the run `cuda1` shows it of an instance, `DraftFollowsTarget` of all.

**A failed PLE read spoils the next one** (run `ple_retry`). When a completion of
`IoUringProvider::read` reports an error, or fewer bytes than asked for, the call
throws (`src/src/ple.cc:466-477`) with other reads in flight, submissions perhaps
still in the ring, and the completion head of this round not stored (488). The
next call on the same store believes all buffers free and meets those completions:
it takes one for its own by the number of the buffer, and either fails with "PLE
io_uring completion identity is invalid" although the storage works, or copies a
buffer the kernel has not filled into the cache, where it stays. The comment at
`src/src/ple.cc:877-879` promises that pages are copied "only after all reads
succeed, preserving the previous fail-closed cache behavior". The CUDA executor
stops at the first backend failure (`src/cuda/cuda_backend.cu:3196`), for which
`stage0_live` shows that the promise is kept; the daemon of `src/src/main.cc` with
`--socket`, `--ple-layout` and `--ple-cache-mib` goes on with the same store.

**The two router kernels order close logits differently** (run `router_ties`). The
reference kernel inserts by the FP32 values `expf(logit - maximum)`
(`src/cuda/q38_kernels.cu:377-393`), the 512-expert kernel sorts the logits
(442-447). Different logits have equal exponentials when these round to the same
number, or underflow; the reference then takes the lower id, the 512-expert kernel
the larger logit. The comment at `src/cuda/q38_kernels.cu:428-430` says that the
order matches "the reference insertion order". The divergence is harmless to the
weights, which agree rank by rank (`RouterIsTopK`), but experts of equal weight
change places, one of them perhaps for an expert not selected.

Smaller observations, without a run of their own:

- The route planner clears `plan_status` in thread 0 with no barrier before the
  other threads report into it (`src/cuda/q38_moe_prefill.cu:163-191`). A report
  by another warp can be lost; the total of the counts then differs and the plan
  is refused as an invalid shape instead. `PlanFailsClosed` covers both outcomes.
- `block_sum_128` is called twice in a row on one shared array
  (`src/cuda/q38_gdn.cu:121-122`, `197-198`), so a slow warp may read a partial
  sum of the second call for the first sum. Only thread 0 uses the sums, and only
  its own warp writes the element it reads: `GdnIsRecurrence` holds.
- On an append with a pending token the sampler's penalties count that token
  twice (`src/src/executor.cc:455-459`): it is among the counts already and among
  the tokens to evaluate. `SamplerFollowsSession` states what the code does.

## 6. Plan

1. Done: `SessionLog`, `SessionTxn` and its proofs; `StageBackend`, `DualStage`,
   `TokenSession`; `ExecutorRpc`; `SnapshotJournal`; `StateBank`, `CudaStage0`,
   `CudaStage1`; `BoundaryRing`, `PleStore`, `Sampler` and the kernels.
2. Proofs. Done: `SessionTxn`, `DualStage`, `ExecutorRpc`, `BoundaryRing`,
   `CudaStage0`, `CudaStage1`. Next: the page store, whose cache and rings allow
   an invariant in the manner of `BoundaryRing`; that the sampler follows the
   session.
3. `ControlPlane`: the session record, the writer lock held across a stream, lost
   responses, replacement and reset, composed with what `ExecutorRpc` promises.
4. Publication of artifacts and resumed downloads; supervision by the launcher
   and the ledger's admission; the stage partition and the n-gram hash windows
   against reference definitions.

## 7. What is not modelled, and why

Rounding, but for the order of the router's exponentials: kernels compute with exact or symbolic numbers. Kernels whose threads
share nothing but their inputs, or only a plain reduction (norms,
hyper-connections, PLE, GEMV, argmax), the hashes of a route plan, quantised
weight layouts; wire formats, JSON and HTTP text; statistics and latencies;
argument parsing; the loaders
of immutable weights (sequential validation). Of the CUDA backend, the
replay of a shorter prefix in `commit`, `abandon_retained_draft` and the
ephemeral `draft` are left out: the executor never reaches them. In the store the parsing of the layout is left out, and the
n-gram hash is represented by the tokens it tells apart. The control plane and
the artifact tools are in the plan.
