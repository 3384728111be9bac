----------------------------- MODULE CudaStage1 -----------------------------
(***************************************************************************)
(* Stage 1 of the CUDA runtime with its MTP draft model                    *)
(* (src/cuda/cuda_backend.cu).  The target model keeps a GDN and a QSA bank*)
(* as stage 0 does; the draft model keeps a QSA bank of its own, whose row *)
(* for the token at position i + 1 is made of that token and of the        *)
(* target's hidden state (HC) after position i.  The HC after the last     *)
(* committed token has no successor yet and waits in the workspace as the  *)
(* pending HC.                                                             *)
(*                                                                         *)
(* An HC is the sequence of tokens the target has seen.  What the target   *)
(* and the draft model predict is any token.  A call is one step: only the *)
(* cancellation token is shared while it runs, so a call either completes  *)
(* or is cancelled at one of its looks at the token.  The executor is      *)
(* reduced to the order of its calls on this stage.                        *)
(***************************************************************************)
EXTENDS StateBank, FiniteSetsExt

CONSTANTS Tokens,
          ContextLimit,
          ChunkTokens,       \* max_transaction_tokens, the workspace's extent
          TileTokens,        \* kPrefillTile
          AppendSizes,       \* numbers of tokens the caller appends at once
          MaxWidth,          \* the largest draft width
          MaxEpoch           \* bound on the epochs of one session

ASSUME Cuda1Assumption ==
    /\ {ContextLimit, ChunkTokens, TileTokens, MaxEpoch} \subseteq Nat \ {0}
    /\ AppendSizes \subseteq Nat \ {0}
    /\ MaxWidth \in Nat /\ MaxWidth < ChunkTokens

VARIABLES session,     \* the tokens the executor has committed
          txn,         \* the executor's transaction, or NoTxn
          off,         \* rows of it that execute has answered
          step,        \* the call the executor makes next
          answer,      \* what the last execute returned
          fail,        \* TRUE: a call was refused and the executor poisoned
          be,          \* CudaStageBackend::Impl, the target's part
          mtp,         \* the members mtp_*
          ws,          \* Workspace: final_hc, predictions, tokens, the two HCs
          gdn, qsa,
          mqsa         \* mtp_qsa_state

driver1Vars == <<session, txn, off, step, answer, fail>>
cuda1Vars == <<driver1Vars, be, mtp, ws, gdn, qsa, mqsa>>

NoTxn == [kind |-> "none", toks |-> <<>>, epoch |-> 0]
NoAnswer == [rows |-> 0, next |-> [hc |-> <<>>, tok |-> 0]]

FreshBe1 ==
    [frontier |-> 0, epoch |-> 0, prov |-> 0, base |-> 0, expected |-> 0,
     processed |-> 0, kind |-> "invalid", active |-> FALSE, toks |-> <<>>]

FreshMtp ==
    [pending |-> FALSE, candidate |-> FALSE, active |-> FALSE, epoch |-> 0,
     rows |-> 0, reconciled |-> 0]

\* What an earlier transaction left in the workspace is not told apart.
StaleHc == <<"stale">>
StalePrediction == [hc |-> StaleHc, tok |-> 0]
Slots == 0..(ChunkTokens - 1)

\* Nor is what it left in a QSA bank beyond the committed rows.
LeftBank(q) ==
    [q EXCEPT !.keys = [i \in DOMAIN @ |-> IF i <= q.committed THEN @[i] ELSE StaleHc],
              !.pooled = [i \in DOMAIN @ |-> IF i <= q.committed \div BlockTokens
                                             THEN @[i] ELSE StaleHc]]

LeftCopy(b) == [b EXCEPT !.copy[1 - b.at] = <<>>]

LeftWorkspace(pend) ==
    [hc |-> [i \in Slots |-> StaleHc], pred |-> [i \in Slots |-> StalePrediction],
     toks |-> [i \in Slots |-> 0], cand |-> StaleHc, pend |-> pend]

Cuda1Init ==
    /\ session = <<>> /\ txn = NoTxn /\ off = 0 /\ step = "none"
    /\ answer = NoAnswer /\ fail = FALSE
    /\ be = FreshBe1 /\ mtp = FreshMtp
    /\ ws = LeftWorkspace(StaleHc)
    /\ gdn = FreshBank /\ qsa = FreshQsa /\ mqsa = FreshQsa

\* The array f with s copied to it from index first on.  What falls behind the
\* end of the allocation is lost to it, the mildest thing that can happen there.
Written(f, first, s) ==
    [j \in DOMAIN f |-> IF j \in first..(first + Len(s) - 1) THEN s[j - first + 1] ELSE f[j]]

One(b) == IF b THEN 1 ELSE 0

Refused ==
    /\ fail' = TRUE /\ step' = "dead"
    /\ UNCHANGED <<session, txn, off, answer, be, mtp, ws, gdn, qsa, mqsa>>

Cancelled == step' = "rollback" /\ UNCHANGED <<session, txn, off, answer, fail>>

\* The executor opens a transaction.  The drafts of a speculative one are not
\* known yet; it has the pending token and room for them.
Begin(kind, toks, next) ==
    /\ step = "none"
    /\ be.epoch < MaxEpoch
    /\ Len(session) + Len(toks) <= ContextLimit
    /\ txn' = [kind |-> kind, toks |-> toks, epoch |-> be.epoch + 1]
    /\ off' = 0 /\ step' = next /\ answer' = NoAnswer
    /\ UNCHANGED <<session, fail, be, mtp, ws, gdn, qsa, mqsa>>

-----------------------------------------------------------------------------
(* draft_retained: run_mtp_draft.                                          *)

Width == Len(txn.toks) - 1

DraftReady ==
    /\ Len(session) = be.frontier /\ be.prov = 0
    /\ mtp.pending /\ ~mtp.active
    /\ mqsa.committed + 1 = Len(session)

\* Row 0 is made of the pending HC and the pending token.  Every later row is
\* made of the draft model's own hidden state and its own prediction.
DraftRows(d) ==
    [i \in 1..Len(d) |-> IF i = 1 THEN <<ws.pend, txn.toks[1]>> ELSE <<<<"draft">>, d[i - 1]>>]

DraftRun(d) == QsaStore(QsaBegin(mqsa, txn.epoch), mqsa.committed, DraftRows(d))

Drafted(d) ==
    [ws EXCEPT !.toks = Written(@, 0, <<txn.toks[1]>>),
               !.pred = Written(@, 0, [i \in 1..Len(d) |-> [hc |-> <<"draft">>, tok |-> d[i]]]),
               !.cand = <<"draft">>]

Draft(d) ==
    /\ step = "draft"
    /\ Len(d) = Width
    /\ IF DraftReady
       THEN /\ mqsa' = QsaMark(DraftRun(d), Width)
            /\ ws' = Drafted(d)
            /\ mtp' = [mtp EXCEPT !.active = TRUE, !.epoch = txn.epoch, !.rows = Width,
                                  !.reconciled = 1]
            /\ txn' = [txn EXCEPT !.toks = <<txn.toks[1]>> \o d]
            /\ step' = "execute"
            /\ UNCHANGED <<session, off, answer, fail, be, gdn, qsa>>
       ELSE Refused

\* Cancelled before the first row or after some: the bank is rolled back here.
CancelDraft(d) ==
    /\ step = "draft"
    /\ Len(d) <= Width
    /\ d # <<>> => DraftReady
    /\ IF d = <<>> THEN UNCHANGED <<ws, mqsa>>
       ELSE ws' = Drafted(d) /\ mqsa' = LeftBank(QsaRollback(DraftRun(d)))
    /\ Cancelled
    /\ UNCHANGED <<be, mtp, gdn, qsa>>

-----------------------------------------------------------------------------
(* execute.  Its state is passed along as a record.                        *)

ChunkLen ==
    LET size == IF txn.kind = "append" THEN ChunkTokens ELSE 1
        left == Len(txn.toks) - off IN
    IF size < left THEN size ELSE left

Chunk == SubSeq(txn.toks, off + 1, off + ChunkLen)

RetainedDraft ==
    /\ txn.kind = "speculative" /\ mtp.active /\ mtp.epoch = txn.epoch
    /\ mtp.rows # 0 /\ mtp.rows + 1 = Len(txn.toks)

ExecuteAccepted ==
    IF be.prov = 0
    THEN /\ txn.epoch > be.epoch /\ off = 0
         /\ Len(session) = be.frontier /\ qsa.committed = be.frontier
         /\ ~gdn.active /\ ~qsa.active
         /\ mtp.active => RetainedDraft
    ELSE /\ txn.epoch = be.prov /\ Len(session) = be.base
         /\ Len(txn.toks) = be.expected /\ txn.kind = be.kind
         /\ off = be.processed /\ be.active

\* The first chunk opens the transaction; an append starts from the pending HC.
OpenedMtp ==
    LET m == IF RetainedDraft THEN mtp ELSE [FreshMtp EXCEPT !.pending = mtp.pending] IN
    [m EXCEPT !.candidate = (txn.kind = "append" /\ mtp.pending)]

Entered ==
    LET first == be.prov = 0
        opened == [be EXCEPT !.prov = txn.epoch, !.base = Len(session),
                             !.expected = Len(txn.toks), !.processed = 0,
                             !.kind = txn.kind, !.active = TRUE, !.toks = <<>>]
        seeded == IF first /\ OpenedMtp.candidate THEN [ws EXCEPT !.cand = ws.pend] ELSE ws
        at == IF txn.kind = "speculative" THEN off ELSE 0 IN
    [be |-> [(IF first THEN opened ELSE be) EXCEPT !.toks = @ \o Chunk],
     mtp |-> IF first THEN OpenedMtp ELSE mtp,
     ws |-> [seeded EXCEPT !.toks = Written(@, at, Chunk)],
     gdn |-> IF first THEN BankBegin(gdn, txn.epoch) ELSE gdn,
     qsa |-> IF first THEN QsaBegin(qsa, txn.epoch) ELSE qsa,
     mqsa |-> mqsa]

\* run_tokens: a chunk of several tokens goes through run_prefill, which counts
\* its results from the chunk's first row; a single token goes through run_one,
\* which counts them from the transaction's first row.
ResultIndexInChunk == 0     \* Mutant: every chunk counts from its first row.
ResultIndex == IF txn.kind = "append" /\ ChunkLen > 1 THEN 0 ELSE off

\* After k rows of the chunk.
TargetRun(st, k) ==
    LET rows == SubSeq(Chunk, 1, k)
        hcs == [i \in 1..k |-> Working(st.gdn) \o SubSeq(rows, 1, i)] IN
    [st EXCEPT !.gdn = BankFold(@, rows),
               !.qsa = QsaStore(@, st.be.base + off, rows),
               !.ws.hc = Written(@, ResultIndex, hcs)]

\* The prediction t of the last row.
Predicted(st, t) ==
    [st EXCEPT !.qsa = QsaMark(@, off + ChunkLen),
               !.ws.pred = Written(@, ResultIndex + ChunkLen - 1,
                                   <<[hc |-> Working(st.gdn), tok |-> t]>>)]

\* run_mtp_prefill: its row i (counted from 0) in tiles, from the candidate HC
\* and the target's HCs; without a candidate the first token has no row.
MtpRow(w, had, i) ==
    LET first == (i \div TileTokens) * TileTokens
        target == (IF had THEN first - 1 ELSE first) + (i - first)
        token == first + One(~had) + (i - first) IN
    <<IF had /\ i = 0 THEN w.cand ELSE w.hc[target], w.toks[token]>>

MtpRun(q, w, had, position, k) ==
    QsaStore(q, position, [i \in 1..k |-> MtpRow(w, had, i - 1)])

\* advance_mtp_append
AppendEvaluated(st) == ChunkLen - One(~st.mtp.candidate)

AdvanceAccepted(st) ==
    /\ mqsa.committed + One(st.mtp.pending) = st.be.base
    /\ mqsa.committed + st.mtp.rows + One(st.mtp.candidate) = st.be.base + off

\* After k rows of the draft model.
Advancing(st, k) ==
    LET begun == IF st.mtp.active THEN st.mqsa ELSE QsaBegin(st.mqsa, txn.epoch) IN
    [st EXCEPT !.mtp.active = TRUE, !.mtp.epoch = txn.epoch,
               !.mqsa = MtpRun(begun, st.ws, st.mtp.candidate,
                               st.mqsa.committed + st.mtp.rows, k)]

AdvancedMtp(st) ==
    LET m == AppendEvaluated(st)
        ran == IF m = 0 THEN st
               ELSE [Advancing(st, m) EXCEPT !.mtp.rows = @ + m,
                                             !.mqsa = QsaMark(@, st.mtp.rows + m)] IN
    [ran EXCEPT !.ws.cand = st.ws.hc[ChunkLen - 1], !.mtp.candidate = TRUE]

Becomes(st) ==
    /\ be' = st.be /\ mtp' = st.mtp /\ ws' = st.ws
    /\ gdn' = st.gdn /\ qsa' = st.qsa /\ mqsa' = st.mqsa

\* How many rows of a speculative transaction the last row's answer accepts.
AcceptedRows(st) ==
    Max({n \in 1..st.be.processed :
            \A i \in 1..(n - 1) : st.be.toks[i + 1] = st.ws.pred[i - 1].tok})

AnswerOf(st) ==
    LET spec == txn.kind = "speculative"
        final == off + ChunkLen = Len(txn.toks)
        rows == IF spec /\ final THEN AcceptedRows(st) ELSE st.be.processed IN
    [rows |-> rows, next |-> st.ws.pred[IF spec THEN rows - 1 ELSE ChunkLen - 1]]

\* The chunk, with t predicted from its last row.
Execute(t) ==
    /\ step = "execute"
    /\ LET ran == Predicted(TargetRun(Entered, ChunkLen), t)
           fed == IF txn.kind = "append" THEN AdvancedMtp(ran) ELSE ran
           st == [fed EXCEPT !.be.processed = @ + ChunkLen] IN
       IF ~ExecuteAccepted \/ (txn.kind = "append" /\ ~AdvanceAccepted(ran)) THEN Refused
       ELSE /\ Becomes(st)
            /\ answer' = AnswerOf(st)
            /\ off' = off + ChunkLen
            /\ step' = CASE off' = Len(txn.toks) -> "commit"
                         [] off' < Len(txn.toks) /\ txn.kind = "append" -> "execute"
                         [] OTHER -> "verify"
            /\ UNCHANGED <<session, txn, fail>>

\* Tiles after which a prefill of n rows may find itself cancelled.
Stops(n) == {k \in 0..n : k % TileTokens = 0 \/ k = n}

\* Cancelled on entry, in the target's layers, or in the draft model's, where
\* the prediction that was made before is never looked at.
CancelExecute ==
    /\ step = "execute"
    /\ Cancelled
    /\ \/ UNCHANGED <<be, mtp, ws, gdn, qsa, mqsa>>
       \/ /\ ExecuteAccepted
          /\ \E k \in Stops(ChunkLen) : Becomes(TargetRun(Entered, k))
       \/ /\ ExecuteAccepted /\ txn.kind = "append"
          /\ LET ran == TargetRun(Entered, ChunkLen) IN
               /\ AdvanceAccepted(ran) /\ AppendEvaluated(ran) > 0
               /\ \E k \in Stops(AppendEvaluated(ran)) : Becomes(Advancing(ran, k))

-----------------------------------------------------------------------------
(* reconcile_retained_draft, commit, rollback, reset_session.              *)

\* The target confirmed the draft behind row off: its row is made again, of the
\* target's HC and of the token the target predicted.
ReconcileAccepted ==
    /\ mtp.active /\ mtp.epoch = txn.epoch /\ be.prov = txn.epoch
    /\ be.kind = "speculative"
    /\ off - 1 < mtp.rows /\ be.processed = off /\ mtp.reconciled = off

\* Mutant: the draft model's own hidden state is kept.
ReconciledBankDraftHc ==
    QsaMark(QsaStore(mqsa, mqsa.committed + off,
                     <<<<<<"draft">>, ws.pred[off - 1].tok>>>>), off + 1)

ReconciledBank ==
    QsaMark(QsaStore(mqsa, mqsa.committed + off,
                     <<<<ws.hc[off - 1], ws.pred[off - 1].tok>>>>), off + 1)

Reconcile ==
    /\ step = "verify"
    /\ answer.next.tok = txn.toks[off + 1]
    /\ IF ReconcileAccepted
       THEN /\ mqsa' = ReconciledBank
            /\ mtp' = [mtp EXCEPT !.reconciled = off + 1]
            /\ step' = "execute"
            /\ UNCHANGED <<session, txn, off, answer, fail, be, ws, gdn, qsa>>
       ELSE Refused

\* prepare_mtp_commit: the rows of a draft were reconciled as they were
\* verified; a plain decode feeds its row to the draft model now.
PreparedRows(n) == n - One(~mtp.pending)

PrepareAccepted(n) ==
    /\ mqsa.committed + One(mtp.pending) = be.base
    /\ mtp.active =>
         /\ mtp.epoch = txn.epoch /\ mtp.rows # 0 /\ mtp.pending
         /\ be.kind = "speculative" /\ be.expected = mtp.rows + 1
         /\ PreparedRows(n) \in 1..mtp.reconciled

Prepared(n) ==
    LET m == PreparedRows(n)
        w == IF mtp.pending THEN [ws EXCEPT !.cand = ws.pend] ELSE ws
        fed == MtpRun(QsaBegin(mqsa, txn.epoch), w, mtp.pending, mqsa.committed, m) IN
    [mtp |-> [mtp EXCEPT !.active = @ \/ m # 0, !.epoch = IF m # 0 THEN txn.epoch ELSE @,
                         !.rows = m, !.candidate = TRUE],
     mqsa |-> IF mtp.active \/ m = 0 THEN mqsa ELSE QsaMark(fed, m),
     cand |-> ws.hc[n - 1]]

\* commit.  Stage 1 is never ahead of what the executor commits.
CommitAccepted(n) ==
    /\ txn.epoch = be.prov /\ be.active
    /\ n = be.processed
    /\ be.processed = be.expected \/ be.kind = "speculative"
    /\ IF be.kind = "append" THEN n = be.expected /\ mtp.candidate
       ELSE PrepareAccepted(n)
    /\ BankHolds(gdn, be.prov) /\ QsaCanCommit(qsa, be.prov, n)

MtpCommitted(p) == IF p.mtp.active THEN QsaCommit(p.mqsa, p.mtp.rows) ELSE p.mqsa

Closed1(e) ==
    [be EXCEPT !.epoch = e, !.prov = 0, !.expected = 0, !.processed = 0,
               !.kind = "invalid", !.active = FALSE, !.toks = <<>>]

End(s) ==
    /\ session' = s
    /\ txn' = NoTxn /\ off' = 0 /\ step' = "none" /\ answer' = NoAnswer
    /\ UNCHANGED fail

\* A draft is cut where the target's prediction differs from it, or at an
\* accepted token that stops the generation.
Commit(n) ==
    /\ \/ step = "commit" /\ n = answer.rows
       \/ step = "verify" /\ n = off
    /\ IF CommitAccepted(n)
       THEN LET p == IF be.kind = "append"
                     THEN [mtp |-> mtp, mqsa |-> mqsa, cand |-> ws.cand]
                     ELSE Prepared(n) IN
            /\ gdn' = LeftCopy(BankCommit(gdn))
            /\ qsa' = LeftBank(QsaCommit(qsa, n))
            /\ mqsa' = LeftBank(MtpCommitted(p))
            /\ mtp' = [FreshMtp EXCEPT !.pending = p.mtp.candidate]
            /\ ws' = LeftWorkspace(p.cand)
            /\ be' = [Closed1(be.prov) EXCEPT !.frontier = be.base + n]
            /\ End(session \o SubSeq(txn.toks, 1, n))
       ELSE Refused

\* Mutant: a draft that no execute followed is forgotten.
RollbackKeepsDraft ==
    /\ txn # NoTxn /\ step # "dead"
    /\ LET undo == be.prov # 0 /\ be.active IN
        /\ gdn' = IF undo THEN LeftCopy(BankRollback(gdn)) ELSE gdn
        /\ qsa' = IF undo THEN LeftBank(QsaRollback(qsa)) ELSE qsa
    /\ mqsa' = IF mtp.active /\ be.prov # 0 THEN LeftBank(QsaRollback(mqsa)) ELSE mqsa
    /\ mtp' = IF be.prov # 0 THEN [mtp EXCEPT !.active = FALSE, !.epoch = 0, !.rows = 0,
                          !.candidate = FALSE] ELSE mtp
    /\ ws' = LeftWorkspace(ws.pend)
    /\ be' = Closed1(txn.epoch)
    /\ End(session)

\* rollback, at the executor's choice: whatever stage saw the cancellation.
Rollback ==
    /\ txn # NoTxn /\ step # "dead"
    /\ LET undo == be.prov # 0 /\ be.active IN
        /\ gdn' = IF undo THEN LeftCopy(BankRollback(gdn)) ELSE gdn
        /\ qsa' = IF undo THEN LeftBank(QsaRollback(qsa)) ELSE qsa
    /\ mqsa' = IF mtp.active THEN LeftBank(QsaRollback(mqsa)) ELSE mqsa
    /\ mtp' = [mtp EXCEPT !.active = FALSE, !.epoch = 0, !.rows = 0, !.candidate = FALSE]
    /\ ws' = LeftWorkspace(ws.pend)
    /\ be' = Closed1(txn.epoch)
    /\ End(session)

Reset ==
    /\ step = "none"
    /\ IF be.prov = 0 /\ ~be.active /\ ~mtp.active
       THEN /\ gdn' = FreshBank /\ qsa' = LeftBank(QsaReset(qsa))
            /\ mqsa' = LeftBank(QsaReset(mqsa))
            /\ be' = FreshBe1 /\ mtp' = FreshMtp
            /\ End(<<>>)
            /\ UNCHANGED ws
       ELSE Refused

-----------------------------------------------------------------------------
Strings(n) == [1..n -> Tokens]

Cuda1Next ==
    \/ \E n \in AppendSizes : \E s \in Strings(n) : Begin("append", s, "execute")
    \/ \E t \in Tokens : session # <<>> /\ Begin("decode", <<t>>, "execute")
    \/ \E t \in Tokens, w \in 1..MaxWidth :
         session # <<>> /\ Begin("speculative", [i \in 1..(w + 1) |-> t], "draft")
    \/ \E w \in 1..MaxWidth : \E d \in Strings(w) : Draft(d)
    \/ \E w \in 0..MaxWidth : \E d \in Strings(w) : CancelDraft(d)
    \/ \E t \in Tokens : Execute(t)
    \/ CancelExecute \/ Reconcile
    \/ \E n \in 1..ContextLimit : Commit(n)
    \/ Rollback \/ Reset

Cuda1Spec == Cuda1Init /\ [][Cuda1Next]_cuda1Vars

-----------------------------------------------------------------------------
(* Properties.                                                             *)

\* The comment on prepare_mtp_commit: a prefix of N target tokens owns N - 1
\* committed MTP rows plus the final target HC kept pending, and a rejected
\* suffix is invisible to future drafts.  Between transactions the target's
\* banks hold the session, the draft model's row i is made of the HC after i
\* tokens and of token i + 1, its complete blocks are pooled from those rows,
\* and the pending HC is the one after the last token.
MtpRowsOf(s) == [i \in 1..(Len(s) - 1) |-> <<SubSeq(s, 1, i), s[i + 1]>>]

DraftStateFollowsTarget ==
    step = "none" =>
        /\ CommittedCopy(gdn) = session
        /\ qsa.committed = Len(session)
        /\ SubSeq(qsa.keys, 1, qsa.committed) = session
        /\ mtp.pending <=> session # <<>>
        /\ session # <<>> =>
             /\ ws.pend = session
             /\ mqsa.committed = Len(session) - 1
             /\ SubSeq(mqsa.keys, 1, mqsa.committed) = MtpRowsOf(session)
             /\ SubSeq(mqsa.pooled, 1, mqsa.committed \div BlockTokens)
                  = Blocks(MtpRowsOf(session))

\* The token that execute answers is the one the target predicted after the last
\* row it was given: never one that another row, a draft or an earlier
\* transaction left in the workspace.
AnswerIsOwn ==
    step \in {"verify", "commit"} =>
        /\ answer.next.hc = session \o SubSeq(txn.toks, 1, off)
        /\ answer.rows = off

\* In the order in which the executor makes them, and whatever was cancelled
\* before, no call finds a frontier, an epoch or a draft that differs from what
\* it expects: a healthy executor is not poisoned.
StageOneAccepts == ~fail
=============================================================================
