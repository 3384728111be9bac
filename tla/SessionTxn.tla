----------------------------- MODULE SessionTxn -----------------------------
(***************************************************************************)
(* SessionTxnEngine (src/src/transaction.cc): the frontiers of one session *)
(* and the single transaction that may be open on them.  Every public      *)
(* operation is an action whose guard is the conjunction of the checks     *)
(* that make the C++ method return true; a call the engine refuses returns *)
(* false and leaves the engine as it was, so a refusal is a stuttering     *)
(* step.  (prepare_append_known undoes its own increment when the inner    *)
(* prepare refuses, which is again a stuttering step.)                     *)
(*                                                                         *)
(* MaxU64 stands for numeric_limits<uint64_t>::max(); with a small value   *)
(* the overflow and epoch-exhaustion branches are reached.                 *)
(***************************************************************************)
EXTENDS Integers

CONSTANTS MaxU64,     \* the largest frontier or epoch a uint64_t holds
          MaxCount    \* the largest row count a caller passes (uint32_t)

ASSUME SessionTxnAssumption ==
    /\ MaxU64 \in Nat \ {0}
    /\ MaxCount \in Nat \ {0}

VARIABLES frontiers,  \* frontiers_: SessionFrontiersV1
          txn,        \* txn_: SessionTxnV1, kept after the transaction ends
          active,     \* active_
          ack         \* <<stage0_ack_, stage1_ack_>>

engineVars == <<frontiers, txn, active, ack>>

Stages == {0, 1}
Counts == 1..MaxCount          \* appended tokens
Rows == 1..(MaxCount + 1)      \* evaluated rows: one may be pending already
U64 == 0..MaxU64
Kinds == {"append", "decode", "speculative"}

ZeroFrontiers ==
    [canonical |-> 0, target |-> 0, stage0 |-> 0, stage1 |-> 0,
     draft |-> 0, epoch |-> 0]

NoTxn ==
    [epoch |-> 0, base_target |-> 0, base_canonical |-> 0, evaluated |-> 0,
     commit |-> 0, publish |-> 0, kind |-> "invalid", status |-> "invalid"]

NoAck == [s \in Stages |-> FALSE]

\* validate_frontiers
ValidFrontiers(f) ==
    /\ f.stage0 = f.target
    /\ f.stage1 = f.target
    /\ f.target <= f.canonical
    /\ f.draft <= f.canonical

\* The test of add_checked: value + n is representable.
Fits(value, n) == value <= MaxU64 - n

Pending == frontiers.canonical - frontiers.target

EngineInit ==
    /\ frontiers = ZeroFrontiers
    /\ txn = NoTxn
    /\ active = FALSE
    /\ ack = NoAck

-----------------------------------------------------------------------------
\* append_known
AppendKnown(n) ==
    /\ ~active
    /\ Fits(frontiers.canonical, n)
    /\ frontiers' = [frontiers EXCEPT !.canonical = @ + n]
    /\ UNCHANGED <<txn, active, ack>>

\* seed_decode_pending
SeedDecodePending ==
    /\ ~active
    /\ frontiers.canonical = frontiers.target
    /\ Fits(frontiers.canonical, 1)
    /\ frontiers' = [frontiers EXCEPT !.canonical = @ + 1]
    /\ UNCHANGED <<txn, active, ack>>

\* The per-kind extent check of prepare.
ExtentOK(kind, n, pending) ==
    CASE kind = "append"      -> n <= pending
      [] kind = "decode"      -> pending = 1 /\ n = 1
      [] kind = "speculative" -> pending = 1

\* The transaction prepare opens over frontiers f; base is the canonical
\* frontier that a rollback restores.
Opened(f, kind, n, base) ==
    [epoch |-> f.epoch + 1, base_target |-> f.target, base_canonical |-> base,
     evaluated |-> n, commit |-> 0, publish |-> 0,
     kind |-> kind, status |-> "prepared"]

CanPrepare(kind, n) ==
    /\ ~active
    /\ ValidFrontiers(frontiers)
    /\ ExtentOK(kind, n, Pending)
    /\ frontiers.epoch # MaxU64

\* prepare
Prepare(kind, n) ==
    /\ CanPrepare(kind, n)
    /\ txn' = Opened(frontiers, kind, n, frontiers.canonical)
    /\ active' = TRUE
    /\ ack' = NoAck
    /\ UNCHANGED frontiers

\* Mutant: appends over any number of pending tokens.
CanPrepareAppendKnownAnyPending(n) ==
    /\ ~active
    /\ ValidFrontiers(frontiers)
    /\ Fits(frontiers.canonical, n)
    /\ frontiers.epoch # MaxU64

CanPrepareAppendKnown(n) ==
    /\ ~active
    /\ ValidFrontiers(frontiers)
    /\ Pending <= 1
    /\ Fits(frontiers.canonical, n)
    /\ frontiers.epoch # MaxU64

\* prepare_append_known: n appended tokens, n + pending evaluated ones.
PrepareAppendKnown(n) ==
    /\ CanPrepareAppendKnown(n)
    /\ frontiers' = [frontiers EXCEPT !.canonical = @ + n]
    /\ txn' = Opened(frontiers', "append", n + Pending, frontiers.canonical)
    /\ active' = TRUE
    /\ ack' = NoAck

\* acknowledge; n and epoch are what the stage claims to have evaluated.
Acknowledge(s, epoch, n) ==
    /\ active
    /\ txn.status \in {"prepared", "decided"}
    /\ epoch = txn.epoch
    /\ n = txn.evaluated
    /\ ~ack[s]
    /\ ack' = [ack EXCEPT ![s] = TRUE]
    /\ UNCHANGED <<frontiers, txn, active>>

\* Mutant: shortens although a stage may have acknowledged.
ShortenAfterAck(n) ==
    /\ active
    /\ txn.status = "prepared"
    /\ txn.kind = "speculative"
    /\ n \in 1..(txn.evaluated - 1)
    /\ txn' = [txn EXCEPT !.evaluated = n]
    /\ UNCHANGED <<frontiers, active, ack>>

\* shorten_speculative
ShortenSpeculative(n) ==
    /\ active
    /\ txn.status = "prepared"
    /\ txn.kind = "speculative"
    /\ ack = NoAck
    /\ n \in 1..(txn.evaluated - 1)
    /\ txn' = [txn EXCEPT !.evaluated = n]
    /\ UNCHANGED <<frontiers, active, ack>>

\* Mutant: the accepted drafts of a speculative step are not published.
DecideWithoutDrafts(n) ==
    /\ active
    /\ txn.status = "prepared"
    /\ CASE txn.kind = "append"      -> n = txn.evaluated
         [] txn.kind = "decode"      -> n = 1
         [] txn.kind = "speculative" -> n \in 1..txn.evaluated
    /\ txn' = [txn EXCEPT !.commit = n, !.status = "decided",
                          !.publish = IF txn.kind = "decode" THEN n ELSE 0]
    /\ UNCHANGED <<frontiers, active, ack>>

\* decide; n is the number of rows whose state is committed.
Decide(n) ==
    /\ active
    /\ txn.status = "prepared"
    /\ CASE txn.kind = "append"      -> n = txn.evaluated
         [] txn.kind = "decode"      -> n = 1
         [] txn.kind = "speculative" -> n \in 1..txn.evaluated
    /\ txn' = [txn EXCEPT !.commit = n, !.status = "decided",
                          !.publish = IF txn.kind = "append" THEN 0 ELSE n]
    /\ UNCHANGED <<frontiers, active, ack>>

\* The frontiers commit computes before it validates them.
CommittedFrontiers ==
    LET t == frontiers.target + txn.commit IN
    [canonical |-> frontiers.canonical + txn.publish,
     target |-> t, stage0 |-> t, stage1 |-> t,
     draft |-> IF txn.kind # "append" \/ frontiers.draft > t
               THEN t ELSE frontiers.draft,
     epoch |-> txn.epoch]

CommitFits ==
    /\ Fits(frontiers.target, txn.commit)
    /\ Fits(frontiers.canonical, txn.publish)

\* commit; the acknowledgements are left set, as in the code.
Commit ==
    /\ active
    /\ txn.status = "decided"
    /\ \A s \in Stages : ack[s]
    /\ CommitFits
    /\ ValidFrontiers(CommittedFrontiers)
    /\ frontiers' = CommittedFrontiers
    /\ txn' = [txn EXCEPT !.status = "committed"]
    /\ active' = FALSE
    /\ UNCHANGED ack

\* Mutant: the epoch of an aborted transaction is used again.
RollbackKeepsEpoch ==
    /\ active
    /\ txn' = [txn EXCEPT !.status = "rolled_back"]
    /\ frontiers' = [frontiers EXCEPT
                        !.canonical = IF txn.kind = "append"
                                      THEN txn.base_canonical ELSE @]
    /\ active' = FALSE
    /\ ack' = NoAck

\* Mutant: an aborted append leaves its tokens in the session.
RollbackKeepsAppend ==
    /\ active
    /\ txn' = [txn EXCEPT !.status = "rolled_back"]
    /\ frontiers' = [frontiers EXCEPT !.epoch = txn.epoch]
    /\ active' = FALSE
    /\ ack' = NoAck

\* rollback: an appended suffix is taken back; the epoch stays consumed.
Rollback ==
    /\ active
    /\ txn' = [txn EXCEPT !.status = "rolled_back"]
    /\ frontiers' = [frontiers EXCEPT
                        !.canonical = IF txn.kind = "append"
                                      THEN txn.base_canonical ELSE @,
                        !.epoch = txn.epoch]
    /\ active' = FALSE
    /\ ack' = NoAck

\* Mutant: the draft frontier survives a reset.
ResetKeepsDraft ==
    /\ ~active
    /\ frontiers' = [ZeroFrontiers EXCEPT !.draft = frontiers.draft]
    /\ txn' = NoTxn
    /\ ack' = NoAck
    /\ UNCHANGED active

\* reset
Reset ==
    /\ ~active
    /\ frontiers' = ZeroFrontiers
    /\ txn' = NoTxn
    /\ ack' = NoAck
    /\ UNCHANGED active

EngineNext ==
    \/ \E n \in Counts : AppendKnown(n) \/ PrepareAppendKnown(n)
    \/ \E n \in Rows :
        \/ ShortenSpeculative(n)
        \/ Decide(n)
        \/ \E kind \in Kinds : Prepare(kind, n)
        \/ \E s \in Stages, epoch \in U64 : Acknowledge(s, epoch, n)
    \/ SeedDecodePending
    \/ Commit
    \/ Rollback
    \/ Reset

EngineSpec == EngineInit /\ [][EngineNext]_engineVars

-----------------------------------------------------------------------------
\* Frontiers, epochs and row counts stay inside their widths: no checked
\* addition of the engine ever wraps.
EngineTypeOK ==
    /\ frontiers \in [canonical : U64, target : U64, stage0 : U64, stage1 : U64,
                      draft : U64, epoch : U64]
    /\ txn \in [epoch : U64, base_target : U64, base_canonical : U64,
                evaluated : 0..(MaxCount + 1), commit : 0..(MaxCount + 1),
                publish : 0..(MaxCount + 1), kind : Kinds \cup {"invalid"},
                status : {"invalid", "prepared", "decided", "committed",
                          "rolled_back"}]
    /\ active \in BOOLEAN
    /\ ack \in [Stages -> BOOLEAN]

\* Whatever sequence of calls is made, the frontiers always pass
\* validate_frontiers, and the draft model never runs ahead of the target: so
\* the result of rollback's final validation, which rollback_prepared in
\* src/src/executor.cc ignores, is always true.
FrontiersStayValid ==
    /\ ValidFrontiers(frontiers)
    /\ frontiers.draft <= frontiers.target

\* An open transaction is the next epoch over the present target frontier,
\* and its extent lies inside what the session holds (append) or covers the
\* single pending token (decode, speculative).
OpenTxnFitsFrontiers ==
    active =>
        /\ txn.status \in {"prepared", "decided"}
        /\ txn.epoch = frontiers.epoch + 1
        /\ txn.base_target = frontiers.target
        /\ txn.evaluated > 0
        /\ CASE txn.kind = "append" ->
                  /\ frontiers.target <= txn.base_canonical
                  /\ frontiers.draft <= txn.base_canonical
                  /\ \/ /\ txn.base_canonical = frontiers.canonical
                        /\ frontiers.target + txn.evaluated <= frontiers.canonical
                     \/ /\ txn.base_canonical < frontiers.canonical
                        /\ txn.base_canonical - frontiers.target \in {0, 1}
                        /\ frontiers.target + txn.evaluated = frontiers.canonical
             [] txn.kind \in {"decode", "speculative"} ->
                  /\ txn.base_canonical = frontiers.canonical
                  /\ frontiers.canonical = frontiers.target + 1
             [] OTHER -> FALSE

\* What a decision may hold: append commits all of its rows and publishes
\* nothing, decode commits one, and both other kinds publish what they commit.
DecisionMatchesKind ==
    active /\ txn.status = "decided" =>
        /\ txn.commit \in 1..txn.evaluated
        /\ txn.publish = (IF txn.kind = "append" THEN 0 ELSE txn.commit)
        /\ txn.kind = "append" => txn.commit = txn.evaluated
        /\ txn.kind = "decode" => txn.commit = 1

\* The validation inside commit is never the reason a decided transaction is
\* refused: only the overflow checks are.  (An append whose commit was refused
\* after both stages acknowledged would have to be rolled back on the devices
\* although the decision is already taken.)
DecidedTxnCommits ==
    active /\ txn.status = "decided" /\ CommitFits
        => ValidFrontiers(CommittedFrontiers)

\* Once a stage has acknowledged, the extent it acknowledged is frozen until
\* the transaction ends: the two stages and the decision speak of the same rows.
AckedExtentFrozen ==
    [][active /\ active' /\ (\E s \in Stages : ack[s])
          => txn'.evaluated = txn.evaluated]_engineVars

\* A transaction opens with an epoch that no earlier transaction of the session
\* had, whether that one committed or was rolled back; txn_ keeps the last one.
\* A stage can therefore tell a late task of an aborted transaction from the
\* next transaction's.
EpochsAreFresh ==
    [][~active /\ active' => txn'.epoch > txn.epoch]_engineVars

\* The engine implements SessionLog: an open append is invisible until it
\* commits, and a rollback of any kind leaves both frontiers where they were.
VisibleCanonical ==
    IF active /\ txn.kind = "append" THEN txn.base_canonical
    ELSE frontiers.canonical

OpenRequest == IF active THEN txn.kind ELSE "none"

Log == INSTANCE SessionLog
       WITH canonical <- VisibleCanonical, target <- frontiers.target,
            open <- OpenRequest

ImplementsSessionLog == Log!LogSpec

\* The invariant of the proofs (SessionTxnProofs): the parts above and the
\* bound the last transaction's epoch keeps once it has ended.
EngineInv ==
    /\ EngineTypeOK
    /\ FrontiersStayValid
    /\ OpenTxnFitsFrontiers
    /\ DecisionMatchesKind
    /\ ~active => txn.epoch <= frontiers.epoch
=============================================================================
