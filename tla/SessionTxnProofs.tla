-------------------------- MODULE SessionTxnProofs --------------------------
(***************************************************************************)
(* Proofs about SessionTxn, for every MaxU64 and MaxCount.                 *)
(***************************************************************************)
EXTENDS SessionTxn, TLAPS

\* Each operation of the engine preserves the inductive invariant.
LEMMA EngineInvInductive ==
    EngineInv /\ [EngineNext]_engineVars => EngineInv'
<1> SUFFICES ASSUME EngineInv, [EngineNext]_engineVars
             PROVE  EngineInv'
    OBVIOUS
<1> USE SessionTxnAssumption DEF EngineInv, EngineTypeOK, FrontiersStayValid,
        OpenTxnFitsFrontiers, DecisionMatchesKind, ValidFrontiers, Fits, U64,
        Counts, Rows, Kinds, Stages
<1>1. CASE UNCHANGED engineVars
    BY <1>1 DEF engineVars
<1>2. ASSUME NEW n \in Counts, AppendKnown(n)
      PROVE  EngineInv'
    BY <1>2 DEF AppendKnown
<1>3. ASSUME NEW n \in Counts, PrepareAppendKnown(n)
      PROVE  EngineInv'
    BY <1>3 DEF PrepareAppendKnown, CanPrepareAppendKnown, Opened, Pending, NoAck
<1>4. ASSUME NEW n \in Rows, ShortenSpeculative(n)
      PROVE  EngineInv'
    BY <1>4 DEF ShortenSpeculative
<1>5. ASSUME NEW n \in Rows, Decide(n)
      PROVE  EngineInv'
    <2>0. /\ n \in 1..txn.evaluated
          /\ txn.kind = "append" => n = txn.evaluated
          /\ txn.kind = "decode" => n = 1
        <3>0. txn.kind \in Kinds /\ txn.evaluated \in Rows
            BY <1>5 DEF Decide
        <3>1. CASE txn.kind = "append"
            BY <1>5, <3>0, <3>1 DEF Decide
        <3>2. CASE txn.kind = "decode"
            BY <1>5, <3>0, <3>2 DEF Decide
        <3>3. CASE txn.kind = "speculative"
            BY <1>5, <3>0, <3>3 DEF Decide
        <3>4. QED
            BY <3>0, <3>1, <3>2, <3>3
    <2>d. /\ txn' = [txn EXCEPT !.commit = n, !.status = "decided",
                               !.publish = IF txn.kind = "append" THEN 0 ELSE n]
          /\ UNCHANGED <<frontiers, active, ack>>
        BY <1>5 DEF Decide
    <2>1. EngineTypeOK'
        <3> DEFINE p == IF txn.kind = "append" THEN 0 ELSE n
        <3>1. txn' = [txn EXCEPT !.commit = n, !.status = "decided", !.publish = p]
            BY <2>d
        <3>2. n \in 0..(MaxCount + 1) /\ p \in 0..(MaxCount + 1)
            BY <1>5
        <3> HIDE DEF p
        <3>3. txn' \in [epoch : U64, base_target : U64, base_canonical : U64,
                        evaluated : 0..(MaxCount + 1), commit : 0..(MaxCount + 1),
                        publish : 0..(MaxCount + 1), kind : Kinds \cup {"invalid"},
                        status : {"invalid", "prepared", "decided", "committed",
                                  "rolled_back"}]
            BY ONLY <3>1, <3>2, EngineTypeOK DEF EngineTypeOK
        <3>4. QED
            BY <2>d, <3>3
    <2>2. FrontiersStayValid'
        BY <1>5 DEF Decide
    <2>3. OpenTxnFitsFrontiers'
        BY <1>5 DEF Decide
    <2>4. DecisionMatchesKind'
        BY <2>0, <2>d
    <2>5. QED
        BY <1>5, <2>1, <2>2, <2>3, <2>4 DEF Decide
<1>6. ASSUME NEW n \in Rows, NEW kind \in Kinds, Prepare(kind, n)
      PROVE  EngineInv'
    <2> USE DEF Prepare, CanPrepare, Opened, Pending
    <2>1. EngineTypeOK'
        BY <1>6 DEF NoAck
    <2>2. FrontiersStayValid'
        BY <1>6
    <2>3. OpenTxnFitsFrontiers'
        <3>1. CASE kind = "append"
            BY <1>6, <3>1 DEF ExtentOK
        <3>2. CASE kind = "decode"
            BY <1>6, <3>2 DEF ExtentOK
        <3>3. CASE kind = "speculative"
            BY <1>6, <3>3 DEF ExtentOK
        <3>4. QED
            BY <3>1, <3>2, <3>3
    <2>4. DecisionMatchesKind'
        BY <1>6
    <2>5. QED
        BY <1>6, <2>1, <2>2, <2>3, <2>4
<1>7. ASSUME NEW n \in Rows, NEW s \in Stages, NEW epoch \in U64,
             Acknowledge(s, epoch, n)
      PROVE  EngineInv'
    BY <1>7 DEF Acknowledge
<1>8. CASE SeedDecodePending
    BY <1>8 DEF SeedDecodePending
<1>9. CASE Commit
    <2>0. /\ frontiers.target + txn.commit \in U64
          /\ frontiers.canonical + txn.publish \in U64
        BY <1>9 DEF Commit, CommitFits
    <2>1. EngineTypeOK'
        BY <1>9, <2>0 DEF Commit, CommittedFrontiers
    <2>2. FrontiersStayValid'
        BY <1>9 DEF Commit, CommittedFrontiers
    <2>3. OpenTxnFitsFrontiers' /\ DecisionMatchesKind'
        BY <1>9 DEF Commit
    <2>4. QED
        BY <1>9, <2>1, <2>2, <2>3 DEF Commit, CommittedFrontiers
<1>10. CASE Rollback
    <2>1. EngineTypeOK'
        BY <1>10 DEF Rollback, NoAck
    <2>2. FrontiersStayValid'
        BY <1>10 DEF Rollback
    <2>3. OpenTxnFitsFrontiers' /\ DecisionMatchesKind'
        BY <1>10 DEF Rollback
    <2>4. QED
        BY <1>10, <2>1, <2>2, <2>3 DEF Rollback
<1>11. CASE Reset
    <2>1. EngineTypeOK'
        BY <1>11 DEF Reset, ZeroFrontiers, NoTxn, NoAck
    <2>2. FrontiersStayValid'
        BY <1>11 DEF Reset, ZeroFrontiers
    <2>3. OpenTxnFitsFrontiers' /\ DecisionMatchesKind'
        BY <1>11 DEF Reset
    <2>4. QED
        BY <1>11, <2>1, <2>2, <2>3 DEF Reset, ZeroFrontiers, NoTxn
<1>12. QED
    BY <1>1, <1>2, <1>3, <1>4, <1>5, <1>6, <1>7, <1>8, <1>9, <1>10, <1>11
       DEF EngineNext

\* The engine starts in the invariant: everything is zero and nothing is open.
LEMMA EngineInitInv == EngineInit => EngineInv
<1> SUFFICES ASSUME EngineInit
             PROVE  EngineInv
    OBVIOUS
<1>1. EngineTypeOK
    <2>1. active \in BOOLEAN /\ ack \in [Stages -> BOOLEAN]
        BY Zenon DEF EngineInit, NoAck
    <2>2. /\ ZeroFrontiers \in [canonical : U64, target : U64, stage0 : U64,
                                stage1 : U64, draft : U64, epoch : U64]
          /\ NoTxn \in [epoch : U64, base_target : U64, base_canonical : U64,
                        evaluated : 0..(MaxCount + 1), commit : 0..(MaxCount + 1),
                        publish : 0..(MaxCount + 1), kind : Kinds \cup {"invalid"},
                        status : {"invalid", "prepared", "decided", "committed",
                                  "rolled_back"}]
        BY SessionTxnAssumption DEF ZeroFrontiers, NoTxn, U64
    <2>3. QED
        BY <2>1, <2>2 DEF EngineInit, EngineTypeOK
<1>2. FrontiersStayValid
    BY DEF EngineInit, FrontiersStayValid, ValidFrontiers, ZeroFrontiers
<1>3. OpenTxnFitsFrontiers /\ DecisionMatchesKind
    BY DEF EngineInit, OpenTxnFitsFrontiers, DecisionMatchesKind
<1>4. QED
    BY <1>1, <1>2, <1>3 DEF EngineInit, EngineInv, NoTxn, ZeroFrontiers

\* For every width of the counters and every bound on a request, all reachable
\* states of the engine of src/src/transaction.cc satisfy the invariant.
THEOREM EngineAlwaysInv == EngineSpec => []EngineInv
<1>1. EngineInit => EngineInv
    BY EngineInitInv
<1>2. EngineInv /\ [EngineNext]_engineVars => EngineInv'
    BY EngineInvInductive
<1>3. QED
    BY <1>1, <1>2, PTL DEF EngineSpec

\* The engine is well typed: no checked addition ever leaves the width of a
\* frontier, an epoch or a row count.
THEOREM EngineTypeCorrect == EngineSpec => []EngineTypeOK
<1>1. EngineInv => EngineTypeOK
    BY DEF EngineInv
<1>2. QED
    BY <1>1, EngineAlwaysInv, PTL

\* validate_frontiers holds in every reachable state, so the discarded result
\* of SessionTxnEngine::rollback is always true.
THEOREM FrontiersAlwaysValid == EngineSpec => []FrontiersStayValid
<1>1. EngineInv => FrontiersStayValid
    BY DEF EngineInv
<1>2. QED
    BY <1>1, EngineAlwaysInv, PTL

\* A decided transaction that fits the counters always passes the validation
\* inside SessionTxnEngine::commit.
THEOREM DecidedAlwaysCommits == EngineSpec => []DecidedTxnCommits
<1>1. EngineInv => DecidedTxnCommits
    <2> SUFFICES ASSUME EngineInv, active, txn.status = "decided"
                 PROVE  ValidFrontiers(CommittedFrontiers)
        BY DEF DecidedTxnCommits
    <2> USE DEF EngineInv, EngineTypeOK, FrontiersStayValid, ValidFrontiers,
            OpenTxnFitsFrontiers, DecisionMatchesKind, U64, CommittedFrontiers
    <2>1. CASE txn.kind = "append"
        BY <2>1
    <2>2. CASE txn.kind \in {"decode", "speculative"}
        BY <2>2
    <2>3. QED
        BY <2>1, <2>2
<1>2. QED
    BY <1>1, EngineAlwaysInv, PTL

\* prepare never hands out an epoch twice between two resets, although
\* rolled-back transactions consume epochs without moving any frontier.
THEOREM EpochsAlwaysFresh == EngineSpec => EpochsAreFresh
<1>1. EngineInv /\ [EngineNext]_engineVars
        => [~active /\ active' => txn'.epoch > txn.epoch]_engineVars
    <2> SUFFICES ASSUME EngineInv, EngineNext, ~active, active'
                 PROVE  txn'.epoch > txn.epoch
        OBVIOUS
    <2> USE DEF EngineInv, EngineTypeOK, U64
    <2>1. ASSUME NEW n \in Counts, PrepareAppendKnown(n)
          PROVE  txn'.epoch > txn.epoch
        BY <2>1 DEF PrepareAppendKnown, Opened
    <2>2. ASSUME NEW n \in Rows, NEW kind \in Kinds, Prepare(kind, n)
          PROVE  txn'.epoch > txn.epoch
        BY <2>2 DEF Prepare, Opened
    <2>3. \/ \E n \in Counts : PrepareAppendKnown(n)
          \/ \E n \in Rows, kind \in Kinds : Prepare(kind, n)
        BY DEF EngineNext, AppendKnown, ShortenSpeculative, Decide, Acknowledge,
               SeedDecodePending, Commit, Rollback, Reset
    <2>4. QED
        BY <2>1, <2>2, <2>3
<1>2. QED
    BY <1>1, EngineAlwaysInv, PTL DEF EngineSpec, EpochsAreFresh

\* shorten_speculative refuses an acknowledged transaction, and no other
\* operation touches the extent of an open one.
THEOREM AckedExtentAlwaysFrozen == EngineSpec => AckedExtentFrozen
<1>1. EngineInv /\ [EngineNext]_engineVars
        => [active /\ active' /\ (\E s \in Stages : ack[s])
              => txn'.evaluated = txn.evaluated]_engineVars
    <2> SUFFICES ASSUME EngineInv, EngineNext, active, active',
                        NEW s \in Stages, ack[s]
                 PROVE  txn'.evaluated = txn.evaluated
        OBVIOUS
    <2> USE DEF EngineInv, EngineTypeOK
    <2>1. ASSUME NEW n \in Rows, ShortenSpeculative(n)
          PROVE  FALSE
        BY <2>1 DEF ShortenSpeculative, NoAck
    <2>2. ASSUME NEW n \in Rows, Decide(n)
          PROVE  txn'.evaluated = txn.evaluated
        BY <2>2 DEF Decide
    <2>3. ASSUME NEW n \in Rows, NEW t \in Stages, NEW epoch \in U64,
                 Acknowledge(t, epoch, n)
          PROVE  txn'.evaluated = txn.evaluated
        BY <2>3 DEF Acknowledge
    <2>4. QED
        BY <2>1, <2>2, <2>3
           DEF EngineNext, AppendKnown, PrepareAppendKnown, CanPrepareAppendKnown,
               Prepare, CanPrepare, SeedDecodePending, Commit, Rollback, Reset
<1>2. QED
    BY <1>1, EngineAlwaysInv, PTL DEF EngineSpec, AckedExtentFrozen

\* Every step of the engine is a step of SessionLog or leaves what it shows
\* unchanged: an append becomes visible at commit, all of it at once, and a
\* rolled-back transaction never was.
LEMMA EngineStepSimulates ==
    EngineInv /\ [EngineNext]_engineVars => [Log!LogNext]_(Log!logVars)
<1> SUFFICES ASSUME EngineInv, [EngineNext]_engineVars
             PROVE  [Log!LogNext]_(Log!logVars)
    OBVIOUS
<1> USE SessionTxnAssumption DEF EngineInv, EngineTypeOK, U64, VisibleCanonical,
        OpenRequest, Log!LogNext, Log!logVars
<1>1. CASE UNCHANGED engineVars
    BY <1>1 DEF engineVars
<1>2. ASSUME NEW n \in Counts, AppendKnown(n)
      PROVE  Log!LogKnow
    BY <1>2 DEF AppendKnown, Log!LogKnow, Counts
<1>3. ASSUME NEW n \in Counts, PrepareAppendKnown(n)
      PROVE  Log!LogOpen
    BY <1>3 DEF PrepareAppendKnown, CanPrepareAppendKnown, Opened, Log!LogOpen
<1>4. ASSUME NEW n \in Rows, ShortenSpeculative(n)
      PROVE  UNCHANGED Log!logVars
    BY <1>4 DEF ShortenSpeculative
<1>5. ASSUME NEW n \in Rows, Decide(n)
      PROVE  UNCHANGED Log!logVars
    BY <1>5 DEF Decide
<1>6. ASSUME NEW n \in Rows, NEW kind \in Kinds, Prepare(kind, n)
      PROVE  Log!LogOpen
    BY <1>6 DEF Prepare, CanPrepare, Opened, Kinds, Log!LogOpen
<1>7. ASSUME NEW n \in Rows, NEW s \in Stages, NEW epoch \in U64,
             Acknowledge(s, epoch, n)
      PROVE  UNCHANGED Log!logVars
    BY <1>7 DEF Acknowledge
<1>8. CASE SeedDecodePending
    BY <1>8 DEF SeedDecodePending, Log!LogKnow
<1>9. CASE Commit
    <2> USE DEF OpenTxnFitsFrontiers, DecisionMatchesKind, Commit,
            CommittedFrontiers
    <2>1. CASE txn.kind = "append" /\ txn.base_canonical = frontiers.canonical
        BY <1>9, <2>1 DEF Log!LogEvaluate
    <2>2. CASE txn.kind = "append" /\ txn.base_canonical # frontiers.canonical
        BY <1>9, <2>2 DEF Log!LogAppend
    <2>3. CASE txn.kind \in {"decode", "speculative"}
        BY <1>9, <2>3 DEF Log!LogDecode
    <2>4. QED
        BY <1>9, <2>1, <2>2, <2>3
<1>10. CASE Rollback
    BY <1>10 DEF Rollback, OpenTxnFitsFrontiers, Log!LogAbort
<1>11. CASE Reset
    BY <1>11 DEF Reset, ZeroFrontiers, Log!LogReset
<1>12. QED
    BY <1>1, <1>2, <1>3, <1>4, <1>5, <1>6, <1>7, <1>8, <1>9, <1>10, <1>11
       DEF EngineNext

\* The engine of src/src/transaction.cc implements the request-atomic session.
THEOREM EngineRefinesLog == EngineSpec => ImplementsSessionLog
<1>1. EngineInit => Log!LogInit
    BY DEF EngineInit, Log!LogInit, VisibleCanonical, OpenRequest, ZeroFrontiers
<1>2. EngineInv /\ [EngineNext]_engineVars => [Log!LogNext]_(Log!logVars)
    BY EngineStepSimulates
<1>3. QED
    BY <1>1, <1>2, EngineAlwaysInv, PTL
       DEF EngineSpec, ImplementsSessionLog, Log!LogSpec
=============================================================================
