----------------------------- MODULE DualStage ------------------------------
(***************************************************************************)
(* DualStageExecutor (src/src/executor.cc): one coordinator thread that    *)
(* runs a request at a time as a transaction of SessionTxn, two StageWorker*)
(* threads with FIFO task queues that own the two backends of StageBackend,*)
(* and the request's CancellationToken (src/include/q38/backend.h), which  *)
(* another thread may trip at any moment.                                  *)
(*                                                                         *)
(* The coordinator's program counter `pc' names the future.get() or the    *)
(* check it stands at; everything it does between two of them is one step. *)
(* A worker takes a task in one step and completes it in another, so that  *)
(* a cancellation can fall between the check at the start of a backend call*)
(* and the one at its end.  A task writes its result to `fut' under        *)
(* <<stage, call, argument>>; get() waits until the entry exists.          *)
(*                                                                         *)
(* The sampler is in greedy mode; counters, latencies and the diagnostic   *)
(* logits are left out.                                                    *)
(***************************************************************************)
EXTENDS SessionTxn, StageBackend, FiniteSets

CONSTANTS Vocab, StopTokens,
          ContextLimit,        \* options.context_limit
          ChunkTokens,         \* options.append_chunk_tokens
          MaxWidth,            \* the largest draft width a caller asks for
          FatalFailures,       \* options.backend_failure_is_fatal
          Faults,              \* TRUE: a backend call may fail on its own
          NoToken              \* last_sample when have_last_sample is false

ASSUME DualStageAssumption ==
    /\ StopTokens \subseteq Vocab /\ NoToken \notin Vocab
    /\ ContextLimit \in 1..MaxU64
    /\ ChunkTokens \in Nat \ {0}
    /\ MaxWidth \in 0..MaxCount
    /\ {FatalFailures, Faults, PleStage0} \subseteq BOOLEAN

VARIABLES tokens,      \* canonical tokens
          sample,      \* last_sample / have_last_sample
          poisoned,
          pc, frame,   \* the coordinator: where it stands, its locals
          status,      \* how the last request ended ("ok", "failed", ...)
          cancel,      \* state of the request's CancellationToken
          late,        \* the request's deadline has passed
          backend,     \* [Stages -> backend record]
          queue,       \* [Stages -> Seq(task)]: tasks_ of the two workers
          running,     \* [Stages -> task or Idle]
          fut          \* results of completed tasks, by <<stage, call, argument>>

sessVars == <<tokens, sample, poisoned>>
coordVars == <<pc, frame, status>>
tokenVars == <<cancel, late>>
workVars == <<backend, queue, running, fut>>
vars == <<engineVars, sessVars, coordVars, tokenVars, workVars>>

Idle == [call |-> "idle"]
NoFrame == [op |-> "none", arg |-> <<>>, eval |-> <<>>, off |-> 0,
            extent |-> 0, txn |-> NoTxn, commit |-> 0, next |-> NoToken]

DualInit ==
    /\ EngineInit
    /\ tokens = <<>> /\ sample = NoToken /\ poisoned = FALSE
    /\ pc = "idle" /\ frame = NoFrame /\ status = "none"
    /\ cancel = "active" /\ late = FALSE
    /\ backend = [s \in Stages |-> FreshBackend]
    /\ queue = [s \in Stages |-> <<>>]
    /\ running = [s \in Stages |-> Idle]
    /\ fut = <<>>

-----------------------------------------------------------------------------
(* CancellationToken.  A deadline is noticed by whoever checks next.       *)

\* The state throw_if_requested leaves behind, and whether it throws.
Checked == IF cancel = "active" /\ late THEN "deadline" ELSE cancel
Requested == Checked \in {"cancelled", "deadline"}

\* request_cancel, from the RPC cancel lane, while a request is under way.
RequestCancel ==
    /\ pc # "idle"
    /\ cancel = "active"
    /\ cancel' = "cancelled"
    /\ UNCHANGED <<engineVars, sessVars, coordVars, late, workVars>>

DeadlinePasses ==
    /\ pc # "idle"
    /\ ~late
    /\ late' = TRUE
    /\ UNCHANGED <<engineVars, sessVars, coordVars, cancel, workVars>>

-----------------------------------------------------------------------------
(* StageWorker: submit, run.                                               *)

\* queue after the coordinator submits the tasks of `new' to each stage.
Submitted(new) == [s \in Stages |-> queue[s] \o new[s]]
To(s, task) == [r \in Stages |-> IF r = s THEN <<task>> ELSE <<>>]
ToBoth(task) == [r \in Stages |-> <<task>>]

\* The next chunk of the transaction in frame f, as submit_stage0 cuts it.
ChunkOf(kind) == IF kind = "append" THEN ChunkTokens ELSE 1
ChunkLen(f, off) ==
    LET left == f.txn.evaluated - off IN
    IF ChunkOf(f.txn.kind) < left THEN ChunkOf(f.txn.kind) ELSE left

ExecuteTask(call, f, off, boundary) ==
    [call |-> call, n |-> off, txn |-> f.txn, boundary |-> boundary,
     toks |-> SubSeq(f.eval, off + 1, off + ChunkLen(f, off)),
     final |-> off + ChunkLen(f, off) = f.txn.evaluated]

Stage0Task(f, off) == ExecuteTask("execute0", f, off, NoToken)
Task(call, n) == [call |-> call, n |-> n, txn |-> frame.txn]

\* The calls that look at the cancellation token before they do anything.
ChecksToken == {"execute0", "execute1", "prefetch", "draft"}

Result(st, value) == [st |-> st, value |-> value]

Answer(s, task, result) ==
    LET key == <<s, task.call, task.n>> IN
    [k \in DOMAIN fut \cup {key} |-> IF k = key THEN result ELSE fut[k]]

\* A worker pops its oldest task.  If the token was tripped, a call that
\* checks it on entry throws at once.
TakeTask(s) ==
    /\ running[s] = Idle
    /\ queue[s] # <<>>
    /\ queue' = [queue EXCEPT ![s] = Tail(@)]
    /\ LET task == Head(queue[s])
           throws == task.call \in ChecksToken /\ Requested IN
        /\ cancel' = IF task.call \in ChecksToken THEN Checked ELSE cancel
        /\ running' = IF throws THEN running ELSE [running EXCEPT ![s] = task]
        /\ fut' = IF throws THEN Answer(s, task, Result(Checked, NoToken)) ELSE fut
    /\ UNCHANGED <<engineVars, sessVars, coordVars, late, backend>>

\* What a call without a fault of its own leaves behind: the backend and the
\* result, a set because the draft model's proposals are not determined.
CallOutcomes(s, b, task) ==
    LET Done(b2, value) == {[b |-> b2, res |-> Result("ok", value)]}
        Refused == {[b |-> b, res |-> Result("failed", NoToken)]}
        Effect(accepted, b2) == IF accepted THEN Done(b2, NoToken) ELSE Refused
        epoch == task.txn.epoch
    IN CASE task.call = "execute0" ->
              LET b2 == Executed(b, task.txn, task.toks) IN
              IF ExecuteAccepted(b, task.txn, task.n)
              THEN Done(b2, BoundaryOf(b2, task.txn, task.n, Len(task.toks)))
              ELSE Refused
         [] task.call = "execute1" ->
              LET b2 == Executed(b, task.txn, task.toks) IN
              IF ~ExecuteAccepted(b, task.txn, task.n) THEN Refused
              ELSE IF BoundaryMatches(task.boundary, task.txn, task.n, Len(task.toks))
              THEN Done(b2, StageOneOutput(b2, task.txn, task.boundary, task.final))
              ELSE {[b |-> b2, res |-> Result("failed", NoToken)]}
         [] task.call = "draft" ->
              UNION {Done(b, d) : d \in [1..task.n -> Vocab]}
         [] task.call \in {"prefetch", "reconcile"} -> Done(b, NoToken)
         [] task.call = "checkpoint" ->
              Effect(CheckpointAccepted(b, epoch, task.n), Checkpointed(b, task.n))
         [] task.call = "commit" ->
              Effect(CommitAccepted(b, s, epoch, task.n), Committed(b, task.n))
         [] task.call = "rollback" ->
              Effect(RollbackAccepted(b, epoch), RolledBack(b, epoch))
         [] task.call = "reset" -> Effect(ResetAccepted(b), FreshBackend)

\* What a fault adds: the call throws before or after its effect, or hands
\* back something malformed (a foreign boundary, a token outside the
\* vocabulary, a partial draft) that the coordinator must catch.
FaultOutcomes(intended, b) ==
    IF Faults
    THEN {[b |-> b2, res |-> Result("failed", NoToken)] :
             b2 \in {b} \cup {o.b : o \in intended}}
         \cup {[o EXCEPT !.res.st = "malformed"] :
                  o \in {i \in intended : i.res.st = "ok" /\ i.res.value # NoToken}}
    ELSE {}

\* The calls that look at the token once more before they return.
RechecksToken(s, task) ==
    \/ task.call \in {"execute0", "draft"}
    \/ task.call = "execute1" /\ ~(task.txn.kind = "speculative" /\ ~task.final)

CompleteTask(s) ==
    /\ running[s] # Idle
    /\ LET task == running[s]
           intended == CallOutcomes(s, backend[s], task) IN
       \E o \in intended \cup FaultOutcomes(intended, backend[s]) :
          LET throws == RechecksToken(s, task) /\ o.res.st = "ok" /\ Requested IN
          /\ backend' = [backend EXCEPT ![s] = o.b]
          /\ cancel' = IF throws THEN Checked ELSE cancel
          /\ fut' = Answer(s, task, IF throws THEN Result(Checked, NoToken) ELSE o.res)
    /\ running' = [running EXCEPT ![s] = Idle]
    /\ UNCHANGED <<engineVars, sessVars, coordVars, late, queue>>

-----------------------------------------------------------------------------
(* The coordinator.                                                        *)

Ready(s, call, n) == <<s, call, n>> \in DOMAIN fut
Got(s, call, n) == fut[<<s, call, n>>]

\* The request is over.
End(st) == pc' = "idle" /\ frame' = NoFrame /\ status' = st /\ fut' = <<>>

\* Mutant: only stage 0 is told to roll back.
ThrowStage0Only(st) ==
    /\ pc' = "rollback0"
    /\ status' = IF st = "malformed" THEN "failed" ELSE st
    /\ queue' = Submitted(To(0, Task("rollback", 0)))
    /\ UNCHANGED <<frame, fut>>

\* Any exception inside run_transaction's try block while the engine holds the
\* transaction: rollback_prepared submits a rollback to both workers, behind
\* whatever is still queued there.
Throw(st) ==
    /\ pc' = "rollback0"
    /\ status' = IF st = "malformed" THEN "failed" ELSE st
    /\ queue' = Submitted(ToBoth(Task("rollback", 0)))
    /\ UNCHANGED <<frame, fut>>

\* A caller's request, each with a CancellationToken of its own.
Request(op, arg) ==
    /\ pc = "idle"
    /\ pc' = "enter"
    /\ frame' = [NoFrame EXCEPT !.op = op, !.arg = arg]
    /\ status' = "busy"
    /\ cancel' = "active" /\ late' = FALSE
    /\ UNCHANGED <<engineVars, sessVars, workVars>>

\* speculative_step caps the draft at the room left, and without room or width
\* is a plain decode.
Width(f) ==
    LET room == ContextLimit - frontiers.canonical - 1 IN
    IF f.op # "speculative" THEN 0 ELSE IF f.arg < room THEN f.arg ELSE room

KindOf(f) ==
    CASE f.op = "append" -> "append"
      [] f.op # "append" -> IF Width(f) > 0 THEN "speculative" ELSE "decode"

PendingToken == tokens[frontiers.target + 1]

EvalTokens(f) ==
    IF f.op = "append"
    THEN (IF Pending = 1 THEN <<PendingToken>> ELSE <<>>) \o f.arg
    ELSE <<PendingToken>> \o [i \in 1..Width(f) |-> NoToken]

\* The argument checks of append, decode_one and speculative_step.
Admissible(f) ==
    IF f.op = "append"
    THEN Len(f.arg) <= ContextLimit - frontiers.canonical /\ Pending <= 1
    ELSE Pending = 1 /\ frontiers.canonical < ContextLimit

EnginePrepares(f) ==
    IF f.op = "append" THEN CanPrepareAppendKnown(Len(f.arg))
    ELSE CanPrepare(KindOf(f), 1 + Width(f))

\* Why a request is turned away before a transaction exists; decode_one looks
\* at the token only inside run_transaction.
Refusal(f) ==
    CASE poisoned                            -> "failed"
      [] ~poisoned /\ f.op # "decode" /\ Requested -> Checked
      [] OTHER -> IF ~Admissible(f) THEN "failed"
                  ELSE IF Requested THEN Checked
                  ELSE IF ~EnginePrepares(f) THEN "failed" ELSE "none"

Operations == {"append", "decode", "speculative"}

RefuseRequest ==
    /\ pc = "enter"
    /\ frame.op \in Operations
    /\ Refusal(frame) # "none"
    /\ cancel' = IF poisoned THEN cancel ELSE Checked
    /\ End(Refusal(frame))
    /\ UNCHANGED <<engineVars, sessVars, late, backend, queue, running>>

\* append, decode_one, speculative_step up to the first wait of
\* run_transaction: prepare, then the draft (stage 1), then the prefetch of a
\* multi-chunk append or the first chunk (stage 0).
BeginTransaction ==
    /\ pc = "enter"
    /\ frame.op \in Operations
    /\ Refusal(frame) = "none"
    /\ LET kind == KindOf(frame)
           eval == EvalTokens(frame)
           width == Width(frame)
           f == [frame EXCEPT !.eval = eval, !.extent = Len(eval), !.txn = txn']
           prefetch == kind = "append" /\ Len(eval) > ChunkTokens
           first == IF prefetch THEN [call |-> "prefetch", n |-> 0, txn |-> txn']
                    ELSE Stage0Task(f, 0)
       IN /\ IF kind = "append" THEN PrepareAppendKnown(Len(frame.arg))
             ELSE Prepare(kind, Len(eval))
          /\ frame' = f
          /\ queue' = [Submitted(To(0, first)) EXCEPT ![1] =
                         IF width > 0
                         THEN Append(@, [call |-> "draft", n |-> width, txn |-> txn'])
                         ELSE @]
          /\ pc' = CASE prefetch  -> "prefetch"
                     [] width > 0 -> "draft"
                     [] OTHER     -> "chunk"
    /\ cancel' = Checked
    /\ UNCHANGED <<sessVars, status, late, backend, running, fut>>

\* Mutant: all chunks of an append are submitted to stage 0 at once.
GetPrefetchSubmitsAll ==
    /\ pc = "prefetch"
    /\ Ready(0, "prefetch", 0)
    /\ LET chunks == [i \in 1..Len(frame.eval) |-> Stage0Task(frame, i - 1)] IN
        queue' = [queue EXCEPT ![0] = @ \o chunks]
    /\ pc' = "chunk"
    /\ UNCHANGED <<engineVars, sessVars, frame, status, tokenVars, backend, running, fut>>

GetPrefetch ==
    /\ pc = "prefetch"
    /\ Ready(0, "prefetch", 0)
    /\ LET r == Got(0, "prefetch", 0) IN
        IF r.st = "ok"
        THEN /\ queue' = Submitted(To(0, Stage0Task(frame, 0)))
             /\ pc' = "chunk"
             /\ UNCHANGED <<frame, status, fut>>
        ELSE Throw(r.st)
    /\ UNCHANGED <<engineVars, sessVars, tokenVars, backend, running>>

\* The draft's tokens become rows 1.. of the transaction.
GetDraft ==
    /\ pc = "draft"
    /\ LET width == Len(frame.eval) - 1  r == Got(1, "draft", width) IN
        /\ Ready(1, "draft", width)
        /\ IF r.st = "ok"
           THEN /\ frame' = [frame EXCEPT !.eval = <<@[1]>> \o r.value]
                /\ pc' = "chunk"
                /\ UNCHANGED <<status, queue, fut>>
           ELSE Throw(r.st)
    /\ UNCHANGED <<engineVars, sessVars, tokenVars, backend, running>>

NextOffset == frame.off + ChunkLen(frame, frame.off)
MoreRows == NextOffset < frame.txn.evaluated
Verifying == frame.txn.kind = "speculative"

\* The top of the chunk loop: one look at the token before waiting.
CheckChunk ==
    /\ pc = "chunk"
    /\ cancel' = Checked
    /\ IF Requested THEN Throw(Checked)
       ELSE pc' = "stage0" /\ UNCHANGED <<frame, status, queue, fut>>
    /\ UNCHANGED <<engineVars, sessVars, late, backend, running>>

\* The chunk's boundary arrives: it is validated and handed to stage 1; stage 0
\* goes on with the next chunk, after a checkpoint when rows are being verified.
GetStage0 ==
    /\ pc = "stage0"
    /\ Ready(0, "execute0", frame.off)
    /\ LET r == Got(0, "execute0", frame.off)
           st == IF r.st \notin {"ok", "malformed"} THEN r.st
                 ELSE IF Requested THEN Checked ELSE r.st
           stage1 == ExecuteTask("execute1", frame, frame.off, r.value) IN
        /\ cancel' = IF r.st \in {"ok", "malformed"} THEN Checked ELSE cancel
        /\ IF st = "ok" /\ BoundaryMatches(r.value, frame.txn, frame.off,
                                           ChunkLen(frame, frame.off))
           THEN /\ queue' =
                     [Submitted(To(1, stage1)) EXCEPT ![0] =
                        CASE ~MoreRows -> @
                          [] MoreRows /\ Verifying  -> Append(@, Task("checkpoint", NextOffset))
                          [] MoreRows /\ ~Verifying -> Append(@, Stage0Task(frame, NextOffset))]
                /\ pc' = IF MoreRows /\ Verifying THEN "checkpoint" ELSE "stage1"
                /\ UNCHANGED <<frame, status, fut>>
           ELSE Throw(IF st = "ok" THEN "failed" ELSE st)
    /\ UNCHANGED <<engineVars, sessVars, late, backend, running>>

\* The checkpoint is taken: stage 0 is launched one row ahead.
GetCheckpoint ==
    /\ pc = "checkpoint"
    /\ Ready(0, "checkpoint", NextOffset)
    /\ LET r == Got(0, "checkpoint", NextOffset) IN
        IF r.st = "ok"
        THEN /\ queue' = Submitted(To(0, Stage0Task(frame, NextOffset)))
             /\ pc' = "stage1"
             /\ UNCHANGED <<frame, status, fut>>
        ELSE Throw(r.st)
    /\ UNCHANGED <<engineVars, sessVars, tokenVars, backend, running>>

\* Stage 1 answers.  While rows are being verified its token is compared with
\* the next draft: an accepted one is reconciled and verification goes on, a
\* rejected one (or an accepted stop token) ends it here.
GetStage1 ==
    /\ pc = "stage1"
    /\ Ready(1, "execute1", frame.off)
    /\ LET r == Got(1, "execute1", frame.off)
           st == IF r.st \notin {"ok", "malformed"} THEN r.st
                 ELSE IF Requested THEN Checked ELSE r.st
           accepted == frame.eval[NextOffset + 1] = r.value.next
           stop == r.value.next \in StopTokens
           f == [frame EXCEPT !.commit = r.value.commit, !.next = r.value.next] IN
        /\ cancel' = IF r.st \in {"ok", "malformed"} THEN Checked ELSE cancel
        /\ IF st # "ok" THEN Throw(st)
           ELSE /\ IF MoreRows /\ Verifying
                   THEN IF accepted /\ ~stop
                        THEN /\ pc' = "reconcile"
                             /\ queue' = Submitted(To(1, Task("reconcile", frame.off)))
                             /\ frame' = f
                        ELSE pc' = "lookahead" /\ frame' = f /\ UNCHANGED queue
                   ELSE /\ pc' = IF MoreRows THEN "chunk" ELSE "seal"
                        /\ frame' = [f EXCEPT !.off = IF MoreRows THEN NextOffset ELSE @]
                        /\ UNCHANGED queue
                /\ UNCHANGED <<status, fut>>
    /\ UNCHANGED <<engineVars, sessVars, late, backend, running>>

GetReconcile ==
    /\ pc = "reconcile"
    /\ Ready(1, "reconcile", frame.off)
    /\ LET r == Got(1, "reconcile", frame.off) IN
        IF r.st = "ok"
        THEN /\ frame' = [frame EXCEPT !.off = NextOffset]
             /\ pc' = "chunk"
             /\ UNCHANGED <<status, queue, fut>>
        ELSE Throw(r.st)
    /\ UNCHANGED <<engineVars, sessVars, tokenVars, backend, running>>

\* Mutant: the rejected draft, not the target's token, is published.
GetLookaheadKeepsDraft ==
    /\ pc = "lookahead"
    /\ Ready(0, "execute0", NextOffset)
    /\ LET r == Got(0, "execute0", NextOffset) IN
        IF r.st \in {"ok", "malformed"}
        THEN /\ frame' = [frame EXCEPT !.extent = NextOffset, !.commit = NextOffset,
                                      !.next = frame.eval[NextOffset + 1]]
             /\ pc' = "seal"
             /\ UNCHANGED <<status, queue, fut>>
        ELSE Throw(r.st)
    /\ UNCHANGED <<engineVars, sessVars, tokenVars, backend, running>>

\* Verification stopped early: the row stage 0 is ahead by is waited for, and
\* the extent shrinks to what was verified.
GetLookahead ==
    /\ pc = "lookahead"
    /\ Ready(0, "execute0", NextOffset)
    /\ LET r == Got(0, "execute0", NextOffset) IN
        IF r.st \in {"ok", "malformed"}
        THEN /\ frame' = [frame EXCEPT !.extent = NextOffset, !.commit = NextOffset]
             /\ pc' = "seal"
             /\ UNCHANGED <<status, queue, fut>>
        ELSE Throw(r.st)
    /\ UNCHANGED <<engineVars, sessVars, tokenVars, backend, running>>

\* The first stop token among the accepted drafts truncates the commit and
\* becomes the new pending token.
StopsAt(f) == {i \in 1..(f.commit - 1) : f.eval[i + 1] \in StopTokens}
Truncated(f) ==
    IF f.txn.kind # "speculative" \/ StopsAt(f) = {} THEN f
    ELSE LET i == CHOOSE j \in StopsAt(f) : \A k \in StopsAt(f) : j <= k IN
         [f EXCEPT !.commit = i, !.next = f.eval[i + 1]]

\* Mutant: the token is sealed without a last look at it.
SealUnchecked ==
    /\ pc = "seal"
    /\ IF frame.extent < frame.txn.evaluated THEN ShortenSpeculative(frame.extent)
       ELSE UNCHANGED engineVars
    /\ cancel' = IF cancel = "active" THEN "sealed" ELSE cancel
    /\ frame' = Truncated(frame)
    /\ pc' = "ack0"
    /\ UNCHANGED <<sessVars, status, late, backend, queue, running, fut>>

\* The engine's transaction is shortened to the verified extent and the token
\* is sealed: the commit point.  A cancellation that came first wins.
SealTransaction ==
    /\ pc = "seal"
    /\ IF frame.extent < frame.txn.evaluated THEN ShortenSpeculative(frame.extent)
       ELSE UNCHANGED engineVars
    /\ IF Requested
       THEN cancel' = Checked /\ Throw(Checked)
       ELSE /\ cancel' = "sealed"
            /\ frame' = Truncated(frame)
            /\ pc' = "ack0"
            /\ UNCHANGED <<status, queue, fut>>
    /\ UNCHANGED <<sessVars, late, backend, running>>

AcknowledgeStage(s) ==
    /\ pc = (IF s = 0 THEN "ack0" ELSE "ack1")
    /\ Acknowledge(s, frame.txn.epoch, txn.evaluated)
    /\ pc' = IF s = 0 THEN "ack1" ELSE "decide"
    /\ UNCHANGED <<sessVars, frame, status, tokenVars, workVars>>

StateCommit == IF Verifying THEN frame.commit ELSE frame.txn.evaluated

DecideTransaction ==
    /\ pc = "decide"
    /\ Decide(StateCommit)
    /\ pc' = "commit"
    /\ UNCHANGED <<sessVars, frame, status, tokenVars, workVars>>

\* The engine commits, then both backends are told to.  (The engine cannot
\* refuse here: every request was admitted under the context limit.)
CommitTransaction ==
    /\ pc = "commit"
    /\ Commit
    /\ queue' = Submitted(ToBoth(Task("commit", StateCommit)))
    /\ pc' = "commit0"
    /\ UNCHANGED <<frame, status, fut, sessVars, tokenVars, backend, running>>

\* Mutant: the result of stage 0's commit is not looked at.
GetCommit0Unchecked ==
    /\ pc = "commit0"
    /\ Ready(0, "commit", StateCommit)
    /\ pc' = "commit1"
    /\ UNCHANGED <<engineVars, sessVars, frame, status, tokenVars, workVars>>

\* A backend that fails to commit leaves the two stages apart: fail closed.
GetCommit0 ==
    /\ pc = "commit0"
    /\ Ready(0, "commit", StateCommit)
    /\ IF Got(0, "commit", StateCommit).st = "ok"
       THEN pc' = "commit1" /\ UNCHANGED <<poisoned, frame, status, fut>>
       ELSE poisoned' = TRUE /\ End("failed")
    /\ UNCHANGED <<engineVars, tokens, sample, tokenVars, backend, queue, running>>

\* Both stages have committed; the caller's method records the tokens.
GetCommit1 ==
    /\ pc = "commit1"
    /\ Ready(1, "commit", StateCommit)
    /\ IF Got(1, "commit", StateCommit).st = "ok"
       THEN /\ tokens' = tokens \o
                 (IF frame.op = "append" THEN frame.arg
                  ELSE SubSeq(frame.eval, 2, txn.publish) \o <<frame.next>>)
            /\ sample' = frame.next
            /\ UNCHANGED poisoned
            /\ End("ok")
       ELSE /\ poisoned' = TRUE
            /\ UNCHANGED <<tokens, sample>>
            /\ End("failed")
    /\ UNCHANGED <<engineVars, tokenVars, backend, queue, running>>

\* rollback_prepared waits for stage 0, then for stage 1, then rolls the engine
\* back.  A rollback that throws fails closed with the transaction still open;
\* the other future is dropped.
GetRollback0 ==
    /\ pc = "rollback0"
    /\ Ready(0, "rollback", 0)
    /\ IF Got(0, "rollback", 0).st = "ok"
       THEN pc' = "rollback1" /\ UNCHANGED <<poisoned, frame, status, fut>>
       ELSE poisoned' = TRUE /\ End(status)
    /\ UNCHANGED <<engineVars, tokens, sample, tokenVars, backend, queue, running>>

\* Mutant: a rollback that throws on stage 1 does not fail closed.
GetRollback1Forgiving ==
    /\ pc = "rollback1"
    /\ Ready(1, "rollback", 0)
    /\ IF Got(1, "rollback", 0).st = "ok"
       THEN Rollback /\ poisoned' = (status = "failed" /\ FatalFailures)
       ELSE UNCHANGED <<engineVars, poisoned>>
    /\ End(status)
    /\ UNCHANGED <<tokens, sample, tokenVars, backend, queue, running>>

GetRollback1 ==
    /\ pc = "rollback1"
    /\ Ready(1, "rollback", 0)
    /\ IF Got(1, "rollback", 0).st = "ok"
       THEN Rollback /\ poisoned' = (status = "failed" /\ FatalFailures)
       ELSE poisoned' = TRUE /\ UNCHANGED engineVars
    /\ End(status)
    /\ UNCHANGED <<tokens, sample, tokenVars, backend, queue, running>>

\* The preconditions of seed_decode.
SeedAllowed ==
    /\ sample # NoToken
    /\ frontiers.canonical < ContextLimit
    /\ frontiers.canonical = frontiers.target

\* seed_decode: model-free, and sealed before its own preconditions are tested.
SeedDecode ==
    /\ pc = "enter"
    /\ frame.op = "seed"
    /\ CASE poisoned -> End("failed") /\ UNCHANGED <<engineVars, tokens, cancel>>
         [] ~poisoned /\ Requested ->
              cancel' = Checked /\ End(Checked) /\ UNCHANGED <<engineVars, tokens>>
         [] OTHER ->
              /\ cancel' = "sealed"
              /\ IF SeedAllowed
                 THEN /\ SeedDecodePending
                      /\ tokens' = Append(tokens, sample)
                      /\ End("ok")
                 ELSE End("failed") /\ UNCHANGED <<engineVars, tokens>>
    /\ UNCHANGED <<sample, poisoned, late, backend, queue, running>>

\* reset_session, sealed first by its caller in src/src/rpc.cc.
BeginReset ==
    /\ pc = "enter"
    /\ frame.op = "reset"
    /\ IF poisoned \/ Requested
       THEN /\ cancel' = IF poisoned THEN cancel ELSE Checked
            /\ End(IF poisoned THEN "failed" ELSE Checked)
            /\ UNCHANGED queue
       ELSE /\ cancel' = "sealed"
            /\ queue' = Submitted(ToBoth(Task("reset", 0)))
            /\ pc' = "reset"
            /\ UNCHANGED <<frame, status, fut>>
    /\ UNCHANGED <<engineVars, sessVars, late, backend, running>>

\* Both resets are waited for; a reset cannot be undone, so any failure of one
\* of them fails closed.
GetReset ==
    /\ pc = "reset"
    /\ \A s \in Stages : Ready(s, "reset", 0)
    /\ IF \A s \in Stages : Got(s, "reset", 0).st = "ok"
       THEN /\ Reset
            /\ tokens' = <<>> /\ sample' = NoToken
            /\ UNCHANGED poisoned
            /\ End("ok")
       ELSE /\ poisoned' = TRUE
            /\ UNCHANGED <<engineVars, tokens, sample>>
            /\ End("failed")
    /\ UNCHANGED <<tokenVars, backend, queue, running>>

\* fail_closed, when the owner could not make a committed request durable.
FailClosed ==
    /\ pc = "idle"
    /\ Faults
    /\ status = "ok"
    /\ ~poisoned
    /\ poisoned' = TRUE
    /\ UNCHANGED <<engineVars, tokens, sample, coordVars, tokenVars, workVars>>

-----------------------------------------------------------------------------
Requests ==
    {<<"append", ts>> : ts \in UNION {[1..n -> Vocab] : n \in Counts}}
    \cup {<<"speculative", w>> : w \in 0..MaxWidth}
    \cup {<<op, 0>> : op \in {"decode", "seed", "reset"}}

Coordinator ==
    \/ RefuseRequest \/ BeginTransaction \/ GetPrefetch \/ GetDraft \/ CheckChunk
    \/ GetStage0 \/ GetCheckpoint \/ GetStage1 \/ GetReconcile \/ GetLookahead
    \/ SealTransaction \/ (\E s \in Stages : AcknowledgeStage(s))
    \/ DecideTransaction \/ CommitTransaction \/ GetCommit0 \/ GetCommit1
    \/ GetRollback0 \/ GetRollback1 \/ SeedDecode \/ BeginReset \/ GetReset

Worker(s) == TakeTask(s) \/ CompleteTask(s)

DualNext ==
    \/ Coordinator
    \/ \E s \in Stages : Worker(s)
    \/ \E r \in Requests : Request(r[1], r[2])
    \/ RequestCancel
    \/ DeadlinePasses
    \/ FailClosed

DualSpec == DualInit /\ [][DualNext]_vars

\* The coordinator and the two workers are threads that keep running; callers,
\* cancellations and the clock owe nothing.
DualFairSpec ==
    /\ DualSpec
    /\ WF_vars(Coordinator)
    /\ \A s \in Stages : WF_vars(Worker(s))

-----------------------------------------------------------------------------
(* Properties.                                                             *)

Places == {"idle", "enter", "prefetch", "draft", "chunk", "stage0", "checkpoint",
           "stage1", "reconcile", "lookahead", "seal", "ack0", "ack1", "decide",
           "commit", "commit0", "commit1", "rollback0", "rollback1", "reset"}

\* The executor's state is well typed; in particular no request, speculative
\* or not, takes the session beyond options.context_limit, and only tokens of
\* the vocabulary are ever recorded in it.
DualTypeOK ==
    /\ EngineTypeOK
    /\ tokens \in UNION {[1..n -> Vocab] : n \in 0..ContextLimit}
    /\ sample \in Vocab \cup {NoToken}
    /\ poisoned \in BOOLEAN /\ late \in BOOLEAN
    /\ pc \in Places
    /\ status \in {"none", "busy", "ok", "failed", "cancelled", "deadline"}
    /\ cancel \in {"active", "cancelled", "deadline", "sealed"}

\* Between requests a healthy executor has nothing in flight and both stages
\* hold the state of exactly the tokens the engine calls evaluated, under the
\* engine's epoch: no abandoned chunk, lookahead row or draft survives, whatever
\* the last request met and wherever it was interrupted.
StagesAgreeWhenIdle ==
    pc = "idle" /\ ~poisoned =>
        /\ ~active
        /\ Len(tokens) = frontiers.canonical
        /\ \A s \in Stages :
              /\ backend[s] = AtRest(SubSeq(tokens, 1, frontiers.target), frontiers.epoch)
              /\ queue[s] = <<>>
              /\ running[s] = Idle

\* Stage 0 runs ahead by at most one chunk: no more than two boundaries exist
\* that stage 1 has not consumed, so the three-slot ring of the device transport
\* never makes a stage-0 task wait for a slot that only a later stage-1 task
\* would free.
TwoBoundariesAtMost ==
    LET produced == {k \in DOMAIN fut : k[2] = "execute0" /\ fut[k].st = "ok"}
        consumed == {k \in DOMAIN fut : k[2] = "execute1"} IN
    Cardinality({k \in produced : <<1, "execute1", k[3]>> \notin consumed}) <= 2

\* seal() is the commit point of src/include/q38/backend.h: a request whose
\* cancellation was accepted (or whose deadline was noticed) changes no token
\* and is not answered "ok", and a sealed one is never answered "cancelled".
SealDecides ==
    [][/\ tokens' # tokens \/ (status' = "ok" /\ status = "busy")
            => cancel' = "sealed"
       /\ cancel = "sealed" /\ pc # "idle"
            => status' \notin {"cancelled", "deadline"}]_vars

\* Cancellations, deadlines, rejected drafts and stop tokens are part of normal
\* operation: without a backend fault the executor never fails closed.
HealthyWithoutFaults == ~Faults => ~poisoned

\* The executor implements TokenSession: a request takes effect in the step that
\* answers it, or not at all, and speculation publishes the tokens plain greedy
\* decoding would have.  Until that step the caller sees the pending count the
\* transaction started from.
VisiblePending ==
    IF pc = "idle" \/ frame.txn = NoTxn THEN Pending
    ELSE frame.txn.base_canonical - frame.txn.base_target

Session == INSTANCE TokenSession
    WITH session <- IF poisoned THEN Idle
                    ELSE [tokens |-> tokens, pending |-> VisiblePending, sample |-> sample],
         answer <- IF pc = "idle" THEN status ELSE "busy",
         Dead <- Idle

ImplementsTokenSession == Session!SessionSpec

\* Every request is answered: no wait of the coordinator on a worker, and none
\* of a worker on its queue, lasts for ever.
EveryRequestAnswered == (pc = "enter") ~> (pc = "idle")
-----------------------------------------------------------------------------
(* The inductive invariant.  Its parts take the state they speak of as     *)
(* arguments: where the coordinator stands (at), its frame (f), the        *)
(* recorded tokens (ts), the answers (fu) and a stage's worker (r, q).     *)

\* Where the coordinator stands: inside run_transaction up to the commit point,
\* past it, rolling back; and while the engine's transaction is open.
Opening == {"prefetch", "draft", "chunk", "stage0", "checkpoint", "stage1",
            "reconcile", "lookahead", "seal"}
Sealed == {"ack0", "ack1", "decide", "commit", "commit0", "commit1", "reset"}
RollingBack == {"rollback0", "rollback1"}
Committing == {"commit0", "commit1"}
InTxn == Opening \cup RollingBack \cup {"ack0", "ack1", "decide", "commit"}
Outside == {"idle", "enter"}

\* Past seal() the token is sealed, before it it is not; a request that has not
\* been answered or given up is busy.
SealedInStep ==
    /\ cancel \in {"active", "cancelled", "deadline", "sealed"}
    /\ pc \in Outside \cup Opening \cup Sealed \cup RollingBack
    /\ pc # "idle" => (cancel = "sealed" <=> pc \in Sealed)
    /\ pc \notin {"idle"} \cup RollingBack => status = "busy"

\* A sequence, of whatever elements.
IsSeq(s) == s \in Seq({s[i] : i \in DOMAIN s})

IsFrame(f) == DOMAIN f = DOMAIN NoFrame

\* The request under way is one a caller makes.
RequestInStep ==
    /\ IsFrame(frame)
    /\ pc = "idle" => frame = NoFrame
    /\ pc # "idle" => <<frame.op, frame.arg>> \in Requests
    /\ pc = "enter" => frame.txn = NoTxn /\ frame.off = 0
    /\ pc \in InTxn \cup Committing => frame.op \in Operations
    /\ pc = "reset" => frame.op = "reset"
    /\ poisoned \in BOOLEAN
    /\ poisoned => pc \in Outside

NextOf(f) == f.off + ChunkLen(f, f.off)
CommitOf(f) == IF f.txn.kind = "speculative" THEN f.commit ELSE f.txn.evaluated
AppendedBy(f) == IF f.op = "append" THEN Len(f.arg) ELSE 0

\* The tokens a transaction evaluates: the pending one, then the appended ones or
\* a draft.
EvalInStep(f, ts) ==
    /\ IsSeq(f.eval) /\ Len(f.eval) = f.txn.evaluated
    /\ f.off \in 0..(f.txn.evaluated - 1)
    /\ f.txn.base_target \in 0..Len(ts)
    /\ f.op = "append" =>
        /\ f.txn.kind = "append"
        /\ f.eval = SubSeq(ts, f.txn.base_target + 1, Len(ts)) \o f.arg
    /\ f.op # "append" =>
        /\ f.txn.kind \in {"decode", "speculative"}
        /\ Len(ts) = f.txn.base_target + 1
        /\ f.eval[1] = ts[Len(ts)]

\* The coordinator's copy of the transaction and the engine's.
FrameInStep ==
    /\ IsSeq(tokens)
    /\ pc \in InTxn \cup Committing => EvalInStep(frame, tokens)
    /\ pc \in {"prefetch", "draft"} => frame.off = 0
    /\ pc = "draft" => frame.txn.kind = "speculative"
    /\ pc \in {"checkpoint", "reconcile", "lookahead"} => NextOf(frame) < frame.txn.evaluated
    /\ pc \in InTxn =>
        /\ active
        /\ frame.txn.epoch = txn.epoch /\ frame.txn.base_target = txn.base_target
        /\ frame.txn.kind = txn.kind
        /\ frontiers.canonical = Len(tokens) + AppendedBy(frame)
        /\ txn.evaluated <= frame.txn.evaluated
        /\ txn.base_canonical = Len(tokens)
    /\ pc = "commit" => txn.status = "decided" /\ txn.commit = CommitOf(frame)
    /\ pc \in Committing =>
        /\ ~active
        /\ CommitOf(frame) \in 1..Len(frame.eval)
        /\ frontiers.epoch = frame.txn.epoch
        /\ frontiers.target = frame.txn.base_target + CommitOf(frame)
        /\ frontiers.canonical = Len(tokens) + AppendedBy(frame) + txn.publish
        /\ txn.publish = IF frame.op = "append" THEN 0 ELSE CommitOf(frame)
    /\ pc \in Outside \cup {"reset"} /\ ~poisoned =>
        ~active /\ frontiers.canonical = Len(tokens)

\* The call a stage may still owe, by where the coordinator stands.
PlainCall(at, f, s, call, n) ==
    \/ at = "prefetch" /\ s = 0 /\ call = "prefetch" /\ n = 0
    \/ at = "draft" /\ s = 1 /\ call = "draft" /\ n = Len(f.eval) - 1
    \/ at = "checkpoint" /\ s = 0 /\ call = "checkpoint" /\ n = NextOf(f)
    \/ at = "reconcile" /\ s = 1 /\ call = "reconcile" /\ n = f.off
    \/ at \in {"draft", "chunk", "stage0"} /\ s = 0 /\ call = "execute0" /\ n = f.off
    \/ /\ at \in {"stage1", "reconcile", "lookahead"}
       /\ s = 0 /\ call = "execute0" /\ n = NextOf(f) /\ NextOf(f) < f.txn.evaluated
    \/ at \in {"checkpoint", "stage1"} /\ s = 1 /\ call = "execute1" /\ n = f.off
    \/ /\ at = "rollback0" \/ (at = "rollback1" /\ s = 1)
       /\ IF s = 0 THEN \/ call \in {"prefetch", "checkpoint"}
                        \/ call = "execute0" /\ n \in {f.off, NextOf(f)}
          ELSE call \in {"draft", "execute1", "reconcile"}

\* The call that ends the transaction or the session.
ClosingCall(at, f, s, call, n) ==
    \/ (at = "commit0" \/ (at = "commit1" /\ s = 1)) /\ call = "commit" /\ n = CommitOf(f)
    \/ (at = "rollback0" \/ (at = "rollback1" /\ s = 1)) /\ call = "rollback" /\ n = 0
    \/ at = "reset" /\ call = "reset" /\ n = 0

Plain(at, f, s, t) ==
    /\ PlainCall(at, f, s, t.call, t.n)
    /\ t.txn = f.txn
    /\ t.call \in {"execute0", "execute1"} =>
        /\ t.n \in 0..(f.txn.evaluated - 1)
        /\ t.toks = SubSeq(f.eval, t.n + 1, t.n + ChunkLen(f, t.n))
Closing(at, f, s, t) == ClosingCall(at, f, s, t.call, t.n) /\ t.txn = f.txn

\* A worker's only task: the one that closes, or one of the chunk loop.
Alone(at, f, s, t) == Closing(at, f, s, t) \/ (at \notin RollingBack /\ Plain(at, f, s, t))

\* The tasks a worker has not finished: at most one of the chunk loop and, behind
\* it, the one that ends the transaction.
WorkInOrder(at, f, s, r, q) ==
    \/ r = Idle /\ q = <<>>
    \/ r = Idle /\ Len(q) = 1 /\ q = <<q[1]>> /\ Alone(at, f, s, q[1])
    \/ r # Idle /\ q = <<>> /\ Alone(at, f, s, r)
    \/ r = Idle /\ Len(q) = 2 /\ q = <<q[1], q[2]>> /\ Plain(at, f, s, q[1]) /\ Closing(at, f, s, q[2])
    \/ r # Idle /\ Len(q) = 1 /\ q = <<q[1]>> /\ Plain(at, f, s, r) /\ Closing(at, f, s, q[1])

\* None of them has been answered.
WorkUnanswered(fu, s, r, q) ==
    /\ r # Idle => <<s, r.call, r.n>> \notin DOMAIN fu
    /\ \A i \in 1..Len(q) : <<s, q[i].call, q[i].n>> \notin DOMAIN fu

\* The calls that have been answered were made.
AnswerInStep(at, f, call, n) ==
    /\ call = "rollback" => at \in RollingBack
    /\ call = "commit" => at \in Committing
    /\ call = "reset" => at = "reset"
    /\ at \in Outside => FALSE
    /\ at = "prefetch" => call = "prefetch"
    /\ at \in Opening /\ call \in {"execute0", "execute1", "checkpoint", "reconcile"} =>
        /\ n \in Nat
        /\ call = "execute0" =>
              n <= IF at \in {"draft", "chunk", "stage0", "checkpoint"} THEN f.off ELSE NextOf(f)
        /\ call = "checkpoint" =>
              n <= IF at \in {"draft", "chunk", "stage0"} THEN f.off ELSE NextOf(f)
        /\ call = "execute1" =>
              IF at \in {"draft", "chunk", "stage0"} THEN n < f.off ELSE n <= f.off
        /\ call = "reconcile" =>
              IF at \in {"reconcile", "seal"} THEN n <= f.off ELSE n < f.off

AnswersInStep(at, f, fu) ==
    \A k \in DOMAIN fu :
        /\ k = <<k[1], k[2], k[3]>>
        /\ AnswerInStep(at, f, k[2], k[3])
        /\ k[2] = "draft" /\ fu[k].st = "ok" => fu[k].value \in [1..k[3] -> Vocab]

\* A backend during transaction t over the tokens ts: of the transaction it holds
\* nothing or a prefix.
Within(b, ts, t, eval) ==
    \/ b = AtRest(ts, t.epoch - 1)
    \/ /\ DOMAIN b = DOMAIN FreshBackend
       /\ b.rows = ts /\ b.epoch = t.epoch - 1 /\ b.prov = t.epoch
       /\ IsSeq(b.ptoks) /\ Len(b.ptoks) <= Len(eval)
       /\ b.ptoks = SubSeq(eval, 1, Len(b.ptoks))

Answered(fu, s, call, n) == <<s, call, n>> \in DOMAIN fu

\* What a closing call that was accepted leaves; done: the coordinator knows.
Closed(fu, s, call, n, done, b, final, within) ==
    /\ done \/ (Answered(fu, s, call, n) /\ fu[<<s, call, n>>].st = "ok") => b = final
    /\ ~done /\ ~Answered(fu, s, call, n) => within

BackendInStep(at, f, ts, fu, s, b) ==
    LET base == SubSeq(ts, 1, f.txn.base_target)
        within == Within(b, base, f.txn, f.eval) IN
    /\ at \in InTxn \ RollingBack => within
    /\ at = "draft" => Len(b.ptoks) <= 1
    /\ at \in RollingBack =>
        Closed(fu, s, "rollback", 0, at = "rollback1" /\ s = 0, b, AtRest(base, f.txn.epoch), within)
    /\ at \in Committing =>
        Closed(fu, s, "commit", CommitOf(f), at = "commit1" /\ s = 0, b,
               AtRest(base \o SubSeq(f.eval, 1, CommitOf(f)), f.txn.epoch), within)
    /\ at = "reset" =>
        Closed(fu, s, "reset", 0, FALSE, b, FreshBackend, TRUE)

\* Between requests.
RestsAt(s) ==
    pc \in Outside => backend[s] = AtRest(SubSeq(tokens, 1, frontiers.target), frontiers.epoch)

StageInStep(s) ==
    /\ WorkInOrder(pc, frame, s, running[s], queue[s])
    /\ WorkUnanswered(fut, s, running[s], queue[s])
    /\ BackendInStep(pc, frame, tokens, fut, s, backend[s])
    /\ RestsAt(s)

\* No boundary of an earlier chunk is left for stage 1, and stage 1 makes none.
BoundariesInStep ==
    /\ \A k \in DOMAIN fut : k[2] = "execute0" =>
        /\ k = <<0, "execute0", k[3]>>
        /\ pc \notin Outside
        /\ k[3] \in {frame.off, NextOf(frame)} \/ <<1, "execute1", k[3]>> \in DOMAIN fut
    /\ \A s \in Stages : s = 1 \/ pc \in Outside =>
        /\ running[s].call # "execute0"
        /\ \A i \in 1..Len(queue[s]) : queue[s][i].call # "execute0"
    /\ pc = "reconcile" => Answered(fut, 1, "execute1", frame.off)

WorkersTypeOK ==
    /\ DOMAIN queue = Stages /\ DOMAIN running = Stages /\ DOMAIN backend = Stages
    /\ \A s \in Stages : IsSeq(queue[s])

DualInv ==
    /\ EngineInv
    /\ SealedInStep /\ RequestInStep /\ FrameInStep /\ BoundariesInStep /\ WorkersTypeOK
    /\ ~poisoned => /\ AnswersInStep(pc, frame, fut)
                    /\ \A s \in Stages : StageInStep(s)
=============================================================================
