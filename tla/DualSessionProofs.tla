------------------------- MODULE DualSessionProofs --------------------------
(***************************************************************************)
(* More theorems about DualStage: the executor is a token session          *)
(* (TokenSession), and without a backend fault it never fails closed.      *)
(*                                                                         *)
(* DualInv says that a backend holds some prefix of the rows of its        *)
(* transaction; SessionInv adds how long it is at every place of the       *)
(* coordinator (RowsCounted), what the answers under way say of the target *)
(* model (AnswersExact, TasksExact) and which tokens have been verified    *)
(* (FrameExact).  HealthInStep adds that no answer the coordinator waits *)
(* for is a failure.  The sections follow the worker's steps, the          *)
(* coordinator's, the refinement and the executor's health.                *)
(***************************************************************************)
EXTENDS DualStageProofs, WellFoundedInduction

-----------------------------------------------------------------------------
(* The invariants.  Their parts take the state they speak of as arguments, *)
(* as those of DualInv do.                                                 *)

\* The chunk loop; and what lies between it and the commit of the stages.
Working == Opening \ {"seal"}
Deciding == {"seal", "ack0", "ack1", "decide", "commit"}

\* The rows a stage holds after n rows of the transaction.
Given(f, ts, n) == SubSeq(ts, 1, f.txn.base_target) \o SubSeq(f.eval, 1, n)

\* The boundary of the chunk at n.
Boundary(f, ts, n) ==
    [epoch |-> f.txn.epoch, start |-> f.txn.base_target + n, count |-> ChunkLen(f, n),
     row |-> Given(f, ts, n + ChunkLen(f, n))]

\* The first n rows behind the pending token are what the target model says.
Verified(f, ts, n) == \A i \in 1..n : f.eval[i + 1] = Greedy(Given(f, ts, i))
NoStops(f, n) == \A i \in 1..n : f.eval[i + 1] \notin StopTokens

\* Stage 1's answer to the chunk at n.
IsAnswer(f, ts, n, v) ==
    LET all == n + ChunkLen(f, n) IN
    /\ v.next = Greedy(Given(f, ts, v.commit))
    /\ IF f.txn.kind = "speculative" /\ all = f.txn.evaluated
       THEN v.commit \in 1..all /\ Verified(f, ts, v.commit - 1)
       ELSE v.commit = all

\* The backend has evaluated exactly the first n rows of the transaction.
Holds(b, f, n) ==
    IF n = 0 THEN b.prov = 0
    ELSE /\ b.prov = f.txn.epoch /\ b.base = f.txn.base_target
         /\ b.expected = f.txn.evaluated /\ b.kind = f.txn.kind
         /\ Len(b.ptoks) = n

\* The call that gives a stage its rows, the offset it is at, and the rows that
\* are there in the end.
ExecuteOf(s) == IF s = 0 THEN "execute0" ELSE "execute1"
NextRun(at, f, s) ==
    IF s = 0 /\ at \in {"stage1", "reconcile", "lookahead"} THEN NextOf(f) ELSE f.off
Extent(f, s) == IF s = 0 /\ f.extent < f.txn.evaluated THEN f.extent + 1 ELSE f.extent

\* An answer that gives a value, be it a malformed one.
Values == {"ok", "malformed"}
Arrived(fu, s, call, n) == Answered(fu, s, call, n) /\ fu[<<s, call, n>>].st \in Values

\* How many rows each stage has.
RowsCounted(at, f, fu, s, b) ==
    /\ at \in Working =>
        LET n == NextRun(at, f, s) IN
        /\ ~Answered(fu, s, ExecuteOf(s), n) => Holds(b, f, n)
        /\ Arrived(fu, s, ExecuteOf(s), n) => Holds(b, f, n + ChunkLen(f, n))
    /\ \/ at = "checkpoint" /\ s = 0
       \/ at \in {"reconcile", "lookahead"} /\ s = 1
       => Holds(b, f, NextOf(f))
    /\ \/ at \in Deciding
       \/ /\ at = "commit0" \/ (at = "commit1" /\ s = 1)
          /\ ~Answered(fu, s, "commit", CommitOf(f))
       => Holds(b, f, Extent(f, s))
    /\ at = "reset" /\ ~Answered(fu, s, "reset", 0) => b.prov = 0

\* What a task of stage 1 carries from stage 0.
TaskExact(f, ts, t) ==
    t.call = "execute1" =>
        /\ t.boundary = Boundary(f, ts, t.n)
        /\ t.final <=> t.n + ChunkLen(f, t.n) = f.txn.evaluated
TasksExact(at, f, ts, r, q) ==
    at \in Opening => TaskExact(f, ts, r) /\ \A i \in 1..Len(q) : TaskExact(f, ts, q[i])

\* An answer: how it ended and, of an execute, its value.
AnswerExact(at, f, ts, call, n, a) ==
    /\ a.st \in Values \cup {"failed", "cancelled", "deadline"}
    /\ call \notin ChecksToken => a.st \notin {"cancelled", "deadline"}
    /\ at \in Opening =>
        /\ call = "execute0" => n < f.txn.evaluated
        /\ call = "execute0" /\ a.st \in Values => a.value = Boundary(f, ts, n)
        /\ call = "execute1" /\ a.st \in Values => IsAnswer(f, ts, n, a.value)
AnswersExact(at, f, ts, fu) == \A k \in DOMAIN fu : AnswerExact(at, f, ts, k[2], k[3], fu[k])

\* What has been verified, and what is to be published.
FrameExact(at, f, ts) ==
    /\ at \in InTxn \cup Committing =>
        /\ f.txn.base_canonical = Len(ts)
        /\ f.txn.kind = "decode" => f.txn.evaluated = 1
    /\ at = "reset" => f.txn = NoTxn
    /\ at \in {"checkpoint", "reconcile", "lookahead"} => f.txn.kind = "speculative"
    /\ at \in Working =>
        /\ f.extent = f.txn.evaluated
        /\ f.txn.kind = "speculative" =>
            LET n == IF at = "reconcile" THEN NextOf(f) ELSE f.off IN
            Verified(f, ts, n) /\ NoStops(f, n)
    /\ at = "lookahead" =>
        f.commit = NextOf(f) /\ f.next = Greedy(Given(f, ts, NextOf(f)))
    /\ at \in Deciding \cup Committing =>
        /\ f.next = Greedy(Given(f, ts, CommitOf(f)))
        /\ f.extent \in 1..f.txn.evaluated
        /\ IF f.txn.kind = "speculative"
           THEN /\ f.commit \in 1..f.extent /\ Verified(f, ts, f.commit - 1)
                /\ f.extent < f.txn.evaluated => f.commit = f.extent
                /\ at # "seal" \/ f.extent < f.txn.evaluated => NoStops(f, f.commit - 1)
           ELSE f.extent = f.txn.evaluated

\* How the last request ended, or is about to.
Endings == {"failed", "cancelled", "deadline"}
StatusExact ==
    /\ pc = "idle" => status \in Endings \cup {"none", "ok"}
    /\ pc \in RollingBack => status \in Endings

StageExact(s) ==
    /\ RowsCounted(pc, frame, fut, s, backend[s])
    /\ TasksExact(pc, frame, tokens, running[s], queue[s])

ExactInStep ==
    ~poisoned =>
        /\ FrameExact(pc, frame, tokens) /\ AnswersExact(pc, frame, tokens, fut)
        /\ \A s \in Stages : StageExact(s)

SessionInv == DualInv /\ StatusExact /\ ExactInStep

-----------------------------------------------------------------------------
(* How a call ends.                                                        *)

\* A call is accepted.
Accepts(s, b, t) ==
    /\ t.call \in {"execute0", "execute1"} => ExecuteAccepted(b, t.txn, t.n)
    /\ t.call = "execute1" => BoundaryMatches(t.boundary, t.txn, t.n, Len(t.toks))
    /\ t.call = "checkpoint" => CheckpointAccepted(b, t.txn.epoch, t.n)
    /\ t.call = "commit" => CommitAccepted(b, s, t.txn.epoch, t.n)
    /\ t.call = "rollback" => RollbackAccepted(b, t.txn.epoch)
    /\ t.call = "reset" => ResetAccepted(b)

\* The value an execute returns.
ReturnOf(b, t) ==
    IF t.call = "execute0"
    THEN BoundaryOf(Executed(b, t.txn, t.toks), t.txn, t.n, Len(t.toks))
    ELSE StageOneOutput(Executed(b, t.txn, t.toks), t.txn, t.boundary, t.final)

Executes == {"execute0", "execute1"}

\* One without a fault is answered "ok" if it is accepted and "failed" if not.
LEMMA CallEnds ==
    ASSUME NEW s, NEW b, NEW t, t.call \in LoopCalls \cup ClosingCalls,
           NEW o \in CallOutcomes(s, b, t)
    PROVE  /\ o.res.st = IF Accepts(s, b, t) THEN "ok" ELSE "failed"
           /\ t.call \in Executes /\ o.res.st = "ok" => o.res.value = ReturnOf(b, t)
<1> DEFINE Goal(p) == /\ p.res.st = IF Accepts(s, b, t) THEN "ok" ELSE "failed"
                      /\ t.call \in Executes /\ p.res.st = "ok" => p.res.value = ReturnOf(b, t)
<1>1. ASSUME NEW b2, NEW v, NEW p \in {[b |-> b2, res |-> Result("ok", v)]}, Accepts(s, b, t),
             t.call \in Executes => v = ReturnOf(b, t)
      PROVE  Goal(p)
    BY <1>1 DEF Result
<1>2. ASSUME NEW b2, NEW v, NEW p \in {[b |-> b2, res |-> Result("failed", v)]}, ~Accepts(s, b, t)
      PROVE  Goal(p)
    BY <1>2 DEF Result
<1> SUFFICES Goal(o)
    OBVIOUS
<1> HIDE DEF Goal
<1>4. CASE t.call = "execute0"
    <2> DEFINE b2 == Executed(b, t.txn, t.toks)
               c == ExecuteAccepted(b, t.txn, t.n)
               v == BoundaryOf(b2, t.txn, t.n, Len(t.toks))
    <2>1. CallOutcomes(s, b, t) = IF c THEN {[b |-> b2, res |-> Result("ok", v)]}
                                  ELSE {[b |-> b, res |-> Result("failed", NoToken)]}
        BY <1>4 DEF CallOutcomes
    <2>2. c <=> Accepts(s, b, t)
        BY <1>4 DEF Accepts
    <2>3. v = ReturnOf(b, t)
        BY <1>4 DEF ReturnOf
    <2> HIDE DEF b2, c, v
    <2>4. CASE c
        BY <2>1, <2>2, <2>3, <2>4, <1>1
    <2>5. CASE ~c
        BY <2>1, <2>2, <2>5, <1>2
    <2>6. QED
        BY <2>4, <2>5
<1>5. CASE t.call = "execute1"
    <2> DEFINE b2 == Executed(b, t.txn, t.toks)
               c == ExecuteAccepted(b, t.txn, t.n)
               v == StageOneOutput(b2, t.txn, t.boundary, t.final)
               m == BoundaryMatches(t.boundary, t.txn, t.n, Len(t.toks))
    <2>1. CallOutcomes(s, b, t) =
            IF ~c THEN {[b |-> b, res |-> Result("failed", NoToken)]}
            ELSE IF m THEN {[b |-> b2, res |-> Result("ok", v)]}
            ELSE {[b |-> b2, res |-> Result("failed", NoToken)]}
        BY <1>5 DEF CallOutcomes
    <2>2. c /\ m <=> Accepts(s, b, t)
        BY <1>5 DEF Accepts
    <2>3. v = ReturnOf(b, t)
        BY <1>5 DEF ReturnOf
    <2> HIDE DEF b2, c, v, m
    <2>4. CASE c /\ m
        BY <2>1, <2>2, <2>3, <2>4, <1>1
    <2>5. CASE ~c
        BY <2>1, <2>2, <2>5, <1>2
    <2>6. CASE c /\ ~m
        BY <2>1, <2>2, <2>6, <1>2
    <2>7. QED
        BY <2>4, <2>5, <2>6
<1>6. CASE t.call = "draft"
    <2>1. CallOutcomes(s, b, t) = UNION {{[b |-> b, res |-> Result("ok", d)]} : d \in [1..t.n -> Vocab]}
        BY <1>6 DEF CallOutcomes
    <2>2. PICK d \in [1..t.n -> Vocab] : o \in {[b |-> b, res |-> Result("ok", d)]}
        BY <2>1
    <2>3. Accepts(s, b, t) /\ t.call \notin Executes
        BY <1>6 DEF Accepts, Executes
    <2>4. QED
        BY <2>2, <2>3, <1>1
<1>7. CASE t.call \in {"prefetch", "reconcile"}
    <2>1. CallOutcomes(s, b, t) = {[b |-> b, res |-> Result("ok", NoToken)]}
        BY <1>7 DEF CallOutcomes
    <2>2. Accepts(s, b, t) /\ t.call \notin Executes
        BY <1>7 DEF Accepts, Executes
    <2>3. QED
        BY <2>1, <2>2, <1>1
<1>8. ASSUME NEW c, NEW b2, c <=> Accepts(s, b, t), t.call \notin Executes,
             CallOutcomes(s, b, t) = IF c THEN {[b |-> b2, res |-> Result("ok", NoToken)]}
                                     ELSE {[b |-> b, res |-> Result("failed", NoToken)]}
      PROVE  Goal(o)
    <2>1. CASE c
        BY <1>8, <2>1, <1>1
    <2>2. CASE ~c
        BY <1>8, <2>2, <1>2
    <2>3. QED
        BY <2>1, <2>2
<1>9. CASE t.call = "checkpoint"
    <2> DEFINE c == CheckpointAccepted(b, t.txn.epoch, t.n)
               b2 == Checkpointed(b, t.n)
    <2>1. CallOutcomes(s, b, t) = IF c THEN {[b |-> b2, res |-> Result("ok", NoToken)]}
                                  ELSE {[b |-> b, res |-> Result("failed", NoToken)]}
        BY <1>9 DEF CallOutcomes
    <2>2. (c <=> Accepts(s, b, t)) /\ t.call \notin Executes
        BY <1>9 DEF Accepts, Executes, CheckpointAccepted
    <2> HIDE DEF b2, c
    <2>3. QED
        BY <2>1, <2>2, <1>8
<1>10. CASE t.call = "commit"
    <2> DEFINE c == CommitAccepted(b, s, t.txn.epoch, t.n)
               b2 == Committed(b, t.n)
    <2>1. CallOutcomes(s, b, t) = IF c THEN {[b |-> b2, res |-> Result("ok", NoToken)]}
                                  ELSE {[b |-> b, res |-> Result("failed", NoToken)]}
        BY <1>10 DEF CallOutcomes
    <2>2. (c <=> Accepts(s, b, t)) /\ t.call \notin Executes
        BY <1>10 DEF Accepts, Executes, CommitAccepted
    <2> HIDE DEF b2, c
    <2>3. QED
        BY <2>1, <2>2, <1>8
<1>11. CASE t.call = "rollback"
    <2> DEFINE c == RollbackAccepted(b, t.txn.epoch)
               b2 == RolledBack(b, t.txn.epoch)
    <2>1. CallOutcomes(s, b, t) = IF c THEN {[b |-> b2, res |-> Result("ok", NoToken)]}
                                  ELSE {[b |-> b, res |-> Result("failed", NoToken)]}
        BY <1>11 DEF CallOutcomes
    <2>2. (c <=> Accepts(s, b, t)) /\ t.call \notin Executes
        BY <1>11 DEF Accepts, Executes, RollbackAccepted
    <2> HIDE DEF b2, c
    <2>3. QED
        BY <2>1, <2>2, <1>8
<1>12. CASE t.call = "reset"
    <2> DEFINE c == ResetAccepted(b)
               b2 == FreshBackend
    <2>1. CallOutcomes(s, b, t) = IF c THEN {[b |-> b2, res |-> Result("ok", NoToken)]}
                                  ELSE {[b |-> b, res |-> Result("failed", NoToken)]}
        BY <1>12 DEF CallOutcomes
    <2>2. (c <=> Accepts(s, b, t)) /\ t.call \notin Executes
        BY <1>12 DEF Accepts, Executes, ResetAccepted
    <2> HIDE DEF b2, c
    <2>3. QED
        BY <2>1, <2>2, <1>8
<1>13. QED
    BY <1>4, <1>5, <1>6, <1>7, <1>9, <1>10, <1>11, <1>12 DEF LoopCalls, ClosingCalls

\* With a fault of its own, a call that answers a value at all has had its effect,
\* and the value is the one the call computed; without faults, one that is accepted
\* is answered "ok".
LEMMA OutcomeEnds ==
    ASSUME NEW s, NEW b, NEW t, t.call \in LoopCalls \cup ClosingCalls, NEW all,
           all = CallOutcomes(s, b, t), NEW o \in all \cup FaultOutcomes(all, b)
    PROVE  /\ o.res.st \in Values \cup {"failed"}
           /\ o.res.st \in Values =>
                /\ Accepts(s, b, t) /\ AfterCall(s, b, t, o.b)
                /\ t.call \in Executes => o.res.value = ReturnOf(b, t)
           /\ ~Faults /\ Accepts(s, b, t) => o.res.st = "ok"
<1>0. \A p \in all : /\ DOMAIN p = {"b", "res"} /\ DOMAIN p.res = {"st", "value"}
                     /\ p.res.st = "ok" => AfterCall(s, b, t, p.b)
                     /\ p.res.st = IF Accepts(s, b, t) THEN "ok" ELSE "failed"
                     /\ t.call \in Executes /\ p.res.st = "ok" => p.res.value = ReturnOf(b, t)
    BY CallFacts, CallEnds
<1>1. CASE o \in all
    BY <1>0, <1>1 DEF Values
<1>2. CASE o \in FaultOutcomes(all, b)
    <2>0. Faults
        BY <1>2 DEF FaultOutcomes
    <2>1. CASE \E b2 \in {b} \cup {p.b : p \in all} : o = [b |-> b2, res |-> Result("failed", NoToken)]
        <3>1. PICK b2 \in {b} \cup {p.b : p \in all} : o = [b |-> b2, res |-> Result("failed", NoToken)]
            BY <2>1
        <3>2. o.res.st = "failed"
            BY <3>1 DEF Result
        <3>3. QED
            BY <2>0, <3>2 DEF Values
    <2>2. CASE \E p \in all : p.res.st = "ok" /\ o = [p EXCEPT !.res.st = "malformed"]
        <3>1. PICK p \in all : p.res.st = "ok" /\ o = [p EXCEPT !.res.st = "malformed"]
            BY <2>2
        <3>2. o.b = p.b /\ o.res.st = "malformed" /\ o.res.value = p.res.value
            BY <1>0, <3>1
        <3>3. Accepts(s, b, t) /\ AfterCall(s, b, t, p.b)
              /\ (t.call \in Executes => p.res.value = ReturnOf(b, t))
            BY <1>0, <3>1
        <3>4. QED
            BY <2>0, <3>2, <3>3 DEF Values
    <2>3. QED
        BY <1>2, <2>1, <2>2 DEF FaultOutcomes
<1>3. QED
    BY <1>1, <1>2

-----------------------------------------------------------------------------
(* The operators of the invariants.                                        *)

\* A nonempty set of numbers has a least one.
LEMMA LeastExists ==
    ASSUME NEW T, T \subseteq Nat, T # {}
    PROVE  \E x \in T : \A y \in T : x <= y
<1>1. PICK x \in T : \A y \in T : <<y, x>> \notin OpToRel(<, Nat)
    BY NatLessThanWellFounded, WFMin
<1>2. ASSUME NEW y \in T PROVE x <= y
    <2>1. x \in Nat /\ y \in Nat
        OBVIOUS
    <2>2. ~(y < x)
        <3>1. <<y, x>> \in Nat \X Nat /\ <<y, x>>[1] = y /\ <<y, x>>[2] = x
            BY <2>1
        <3>2. <<y, x>> \notin OpToRel(<, Nat)
            BY <1>1
        <3>3. QED
            BY <3>1, <3>2 DEF OpToRel
    <2>3. QED
        BY <2>1, <2>2
<1>3. QED
    BY <1>2

\* The invariants speak of a frame's transaction and its rows alone.
LEMMA SameRows ==
    ASSUME NEW f, NEW g, g.txn = f.txn, g.eval = f.eval
    PROVE  /\ \A n : ChunkLen(g, n) = ChunkLen(f, n)
           /\ \A ts, n : Given(g, ts, n) = Given(f, ts, n)
           /\ \A ts, n : Boundary(g, ts, n) = Boundary(f, ts, n)
           /\ \A ts, n : Verified(g, ts, n) <=> Verified(f, ts, n)
           /\ \A n : NoStops(g, n) <=> NoStops(f, n)
           /\ \A ts, n, v : IsAnswer(g, ts, n, v) <=> IsAnswer(f, ts, n, v)
           /\ \A b, n : Holds(b, g, n) <=> Holds(b, f, n)
           /\ \A ts, t : TaskExact(g, ts, t) <=> TaskExact(f, ts, t)
<1>1. \A n : ChunkLen(g, n) = ChunkLen(f, n)
    BY DEF ChunkLen
<1>2. \A ts, n : Given(g, ts, n) = Given(f, ts, n)
    BY DEF Given
<1>3. \A ts, n : Boundary(g, ts, n) = Boundary(f, ts, n)
    BY <1>1, <1>2 DEF Boundary
<1>4. \A ts, n : Verified(g, ts, n) <=> Verified(f, ts, n)
    BY <1>2 DEF Verified
<1>5. \A n : NoStops(g, n) <=> NoStops(f, n)
    BY DEF NoStops
<1>6. \A ts, n, v : IsAnswer(g, ts, n, v) <=> IsAnswer(f, ts, n, v)
    BY <1>1, <1>2, <1>4 DEF IsAnswer
<1>7. \A b, n : Holds(b, g, n) <=> Holds(b, f, n)
    BY DEF Holds
<1>8. \A ts, t : TaskExact(g, ts, t) <=> TaskExact(f, ts, t)
    BY <1>1, <1>3 DEF TaskExact
<1>9. QED
    BY <1>1, <1>2, <1>3, <1>4, <1>5, <1>6, <1>7, <1>8

\* So the answers and the tasks remain exact.
LEMMA AnswersKept ==
    ASSUME NEW at, NEW at2, NEW f, NEW g, NEW ts, NEW fu, g.txn = f.txn, g.eval = f.eval,
           at2 \in Opening => at \in Opening, AnswersExact(at, f, ts, fu)
    PROVE  AnswersExact(at2, g, ts, fu)
<1>1. ASSUME NEW k \in DOMAIN fu PROVE AnswerExact(at2, g, ts, k[2], k[3], fu[k])
    <2>1. AnswerExact(at, f, ts, k[2], k[3], fu[k])
        BY DEF AnswersExact
    <2>2. QED
        BY <2>1, SameRows DEF AnswerExact
<1>2. QED
    BY <1>1 DEF AnswersExact

\* A backend at rest holds no row of the transaction.
LEMMA RestHolds ==
    ASSUME NEW f, NEW ts, NEW e
    PROVE  Holds(AtRest(ts, e), f, 0)
    BY RestFacts DEF Holds

\* Two sequences after one another.
LEMMA LenConcatOf ==
    ASSUME NEW a, NEW b, IsSeq(a), IsSeq(b)
    PROVE  /\ Len(a \o b) = Len(a) + Len(b) /\ Len(a) \in Nat /\ Len(b) \in Nat /\ IsSeq(a \o b)
           /\ \A i \in 1..Len(a) : (a \o b)[i] = a[i]
           /\ \A i \in 1..Len(b) : (a \o b)[Len(a) + i] = b[i]
<1>1. PICK S : a \in Seq(S)
    BY IsSeqFacts
<1>2. PICK T : b \in Seq(T)
    BY IsSeqFacts
<1>3. a \in Seq(S \cup T) /\ b \in Seq(S \cup T)
    <2>1. S \subseteq S \cup T /\ T \subseteq S \cup T
        OBVIOUS
    <2>2. QED
        BY <1>1, <1>2, <2>1
<1> DEFINE U == S \cup T
<1> HIDE DEF U
<1>4. a \in Seq(U) /\ b \in Seq(U)
    BY <1>3 DEF U
<1>5. /\ a \o b \in Seq(U) /\ Len(a \o b) = Len(a) + Len(b) /\ Len(a) \in Nat /\ Len(b) \in Nat
      /\ \A i \in 1..(Len(a) + Len(b)) : (a \o b)[i] = IF i <= Len(a) THEN a[i] ELSE b[i - Len(a)]
    BY <1>4, ConcatProperties
<1>6. ASSUME NEW i \in 1..Len(b) PROVE (a \o b)[Len(a) + i] = b[i]
    <2>1. Len(a) + i \in 1..(Len(a) + Len(b)) /\ ~(Len(a) + i <= Len(a)) /\ (Len(a) + i) - Len(a) = i
        BY <1>5
    <2>2. QED
        BY <1>5, <2>1
<1>7. \A i \in 1..Len(a) : (a \o b)[i] = a[i]
    BY <1>5
<1>8. QED
    BY <1>5, <1>6, <1>7, SeqIsSeq

\* execute leaves exactly the rows up to the end of its chunk.
EvalFormed(f) == IsSeq(f.eval) /\ Len(f.eval) = f.txn.evaluated /\ f.txn.epoch \in Nat \ {0}
ChunkAt(f, n, toks) ==
    n \in 0..(f.txn.evaluated - 1) /\ toks = SubSeq(f.eval, n + 1, n + ChunkLen(f, n))
RowsUpTo(c, f, base, m) ==
    /\ Holds(c, f, m) /\ c.rows = base /\ c.ptoks = SubSeq(f.eval, 1, m) /\ Len(c.ptoks) = m
    /\ m \in 1..f.txn.evaluated
ExecutedAs(b, f, ts, n, toks) ==
    /\ RowsUpTo(Executed(b, f.txn, toks), f, ts, n + ChunkLen(f, n))
    /\ Len(toks) = ChunkLen(f, n)
    /\ Executed(b, f.txn, toks).ckpt = b.ckpt

\* What a stage holds after one more chunk of its transaction.
LEMMA ExecutedExact ==
    ASSUME NEW f, EvalFormed(f), NEW ts, NEW b, Within(b, ts, f.txn, f.eval),
           NEW n, NEW toks, ExecuteAccepted(b, f.txn, n), ChunkAt(f, n, toks)
    PROVE  ExecutedAs(b, f, ts, n, toks)
<1> DEFINE c == Executed(b, f.txn, toks)
           m == n + ChunkLen(f, n)
<1>0. n \in 0..(f.txn.evaluated - 1) /\ toks = SubSeq(f.eval, n + 1, n + ChunkLen(f, n))
    BY DEF ChunkAt
<1>a. IsSeq(f.eval) /\ Len(f.eval) = f.txn.evaluated /\ f.txn.epoch \in Nat \ {0}
    BY DEF EvalFormed
<1> USE <1>a
<1>1. Len(f.eval) \in Nat /\ f.txn.evaluated \in Nat
    BY LenProperties DEF IsSeq
<1> USE <1>0
<1>2. ChunkLen(f, n) \in 1..(f.txn.evaluated - n) /\ m \in (n + 1)..f.txn.evaluated /\ m \in 1..f.txn.evaluated
    BY <1>0, <1>1, ChunkFacts
<1>3. Within(c, ts, f.txn, f.eval)
    <2> DEFINE k == n
               u == toks
    <2>0. /\ IsSeq(f.eval) /\ Len(f.eval) = f.txn.evaluated /\ f.txn.epoch \in Nat \ {0}
          /\ Within(b, ts, f.txn, f.eval)
        OBVIOUS
    <2>1. /\ k \in 0..(f.txn.evaluated - 1) /\ ExecuteAccepted(b, f.txn, k)
          /\ u = SubSeq(f.eval, k + 1, k + ChunkLen(f, k))
        OBVIOUS
    <2> HIDE DEF k, u
    <2>2. Within(Executed(b, f.txn, u), ts, f.txn, f.eval)
        BY <2>0, <2>1, WithinExecuted
    <2>3. QED
        BY <2>2 DEF k, u
<1>4. /\ c.prov = f.txn.epoch /\ c.base = f.txn.base_target /\ c.expected = f.txn.evaluated
      /\ c.kind = f.txn.kind /\ c.ckpt = b.ckpt
    <2>0. DOMAIN b = DOMAIN FreshBackend
        BY RestFacts DEF Within
    <2>1. CASE b.prov = 0
        <3>1. c = [b EXCEPT !.prov = f.txn.epoch, !.base = f.txn.base_target,
                            !.expected = f.txn.evaluated, !.kind = f.txn.kind, !.ptoks = toks]
            BY <2>1 DEF Executed
        <3>2. QED
            BY <2>0, <3>1, BackendFields
    <2>2. CASE b.prov # 0
        <3>1. c = [b EXCEPT !.ptoks = b.ptoks \o toks]
            BY <2>2 DEF Executed
        <3>2. /\ c.prov = b.prov /\ c.base = b.base /\ c.expected = b.expected /\ c.kind = b.kind
              /\ c.ckpt = b.ckpt
            BY <2>0, <3>1, BackendFields
        <3>3. QED
            BY <2>2, <3>2 DEF ExecuteAccepted
    <2>3. QED
        BY <2>1, <2>2
<1>5. Len(toks) = ChunkLen(f, n) /\ IsSeq(toks)
    <2>1. PICK S : f.eval \in Seq(S)
        BY IsSeqFacts
    <2>2. \A i \in (n + 1)..m : f.eval[i] \in S
        <3>1. \A i \in 1..Len(f.eval) : f.eval[i] \in S
            BY <2>1, ElementOfSeq
        <3>2. QED
            BY <1>1, <1>2, <3>1
    <2>3. /\ SubSeq(f.eval, n + 1, m) \in Seq(S)
          /\ Len(SubSeq(f.eval, n + 1, m)) = IF n + 1 <= m THEN m - (n + 1) + 1 ELSE 0
        BY <1>1, <1>2, <2>1, <2>2, SubSeqProperties
    <2>4. toks = SubSeq(f.eval, n + 1, m)
        OBVIOUS
    <2>5. m - (n + 1) + 1 = ChunkLen(f, n) /\ n + 1 <= m
        BY <1>1, <1>2
    <2> HIDE DEF m
    <2>6. QED
        BY <2>3, <2>4, <2>5, SeqIsSeq
<1>6. c.rows = ts /\ c.ptoks = SubSeq(f.eval, 1, m) /\ Len(c.ptoks) = m
    <2>1. c # AtRest(ts, f.txn.epoch - 1)
        BY <1>4, RestFacts
    <2>2. c.rows = ts /\ c.ptoks = SubSeq(f.eval, 1, Len(c.ptoks))
        BY <1>3, <2>1 DEF Within
    <2>3. DOMAIN b = DOMAIN FreshBackend
        BY RestFacts DEF Within
    <2>4. CASE b.prov = 0
        <3>1. c.ptoks = toks /\ n = 0
            BY <2>3, <2>4, BackendFields DEF Executed, ExecuteAccepted
        <3>2. QED
            BY <1>2, <1>5, <2>2, <3>1
    <2>5. CASE b.prov # 0
        <3> DEFINE p == b.ptoks
        <3>0. b # AtRest(ts, f.txn.epoch - 1)
            BY <2>5, RestFacts
        <3>1. c.ptoks = p \o toks /\ Len(p) = n /\ IsSeq(p)
            <4>1. c = [b EXCEPT !.ptoks = b.ptoks \o toks]
                BY <2>5 DEF Executed
            <4>2. c.ptoks = p \o toks
                BY <2>3, <4>1, BackendFields
            <4>3. Len(p) = n
                BY <2>5 DEF ExecuteAccepted
            <4>4. IsSeq(p)
                BY <3>0 DEF Within
            <4>5. QED
                BY <4>2, <4>3, <4>4
        <3>2. Len(p \o toks) = n + ChunkLen(f, n)
            <4> DEFINE u == toks
            <4>1. Len(u) = ChunkLen(f, n) /\ IsSeq(u) /\ IsSeq(p) /\ Len(p) = n
                BY <1>5, <3>1
            <4> HIDE DEF u, p
            <4>2. Len(p \o u) = Len(p) + Len(u)
                BY <4>1, LenConcatOf
            <4>3. QED
                BY <4>1, <4>2 DEF u
        <3>3. QED
            BY <2>2, <3>1, <3>2
    <2>6. QED
        BY <2>4, <2>5
<1>7. Holds(c, f, m)
    BY <1>2, <1>4, <1>6 DEF Holds
<1>8. QED
    BY <1>2, <1>4, <1>5, <1>6, <1>7 DEF RowsUpTo, ExecutedAs

-----------------------------------------------------------------------------
(* What the executes return.                                               *)

\* Prefixes of the rows a backend was given.
LEMMA PrefixOfPrefix ==
    ASSUME NEW d, IsSeq(d), NEW m \in 0..Len(d), NEW p, p = SubSeq(d, 1, m)
    PROVE  /\ Len(p) = m /\ \A i \in 1..m : p[i] = d[i]
           /\ \A i \in 0..m : SubSeq(p, 1, i) = SubSeq(d, 1, i)
<1>1. PICK S : d \in Seq(S)
    BY IsSeqFacts
<1>2. Len(d) \in Nat /\ \A i \in 1..Len(d) : d[i] \in S
    BY <1>1, ElementOfSeq
<1>3. ASSUME NEW e \in Seq(S), NEW i \in 0..Len(e)
      PROVE  /\ SubSeq(e, 1, i) \in Seq(S) /\ Len(SubSeq(e, 1, i)) = i
             /\ \A j \in 1..i : SubSeq(e, 1, i)[j] = e[j]
    <2>1. Len(e) \in Nat /\ \A j \in 1..Len(e) : e[j] \in S
        BY ElementOfSeq
    <2>2. /\ SubSeq(e, 1, i) \in Seq(S)
          /\ Len(SubSeq(e, 1, i)) = IF 1 <= i THEN i - 1 + 1 ELSE 0
          /\ \A j \in 1..(i - 1 + 1) : SubSeq(e, 1, i)[j] = e[1 + j - 1]
        BY <2>1, SubSeqProperties
    <2>3. QED
        BY <2>1, <2>2
<1>4. p \in Seq(S) /\ Len(p) = m /\ \A i \in 1..m : p[i] = d[i]
    BY <1>1, <1>3
<1>5. ASSUME NEW i \in 0..m PROVE SubSeq(p, 1, i) = SubSeq(d, 1, i)
    <2>1. i \in 0..Len(p) /\ i \in 0..Len(d) /\ \A j \in 1..i : j \in 1..m
        BY <1>2, <1>4
    <2>2. /\ SubSeq(p, 1, i) \in Seq(S) /\ Len(SubSeq(p, 1, i)) = i
          /\ \A j \in 1..i : SubSeq(p, 1, i)[j] = p[j]
        BY <1>3, <1>4, <2>1
    <2>3. /\ SubSeq(d, 1, i) \in Seq(S) /\ Len(SubSeq(d, 1, i)) = i
          /\ \A j \in 1..i : SubSeq(d, 1, i)[j] = d[j]
        BY <1>1, <1>3, <2>1
    <2>4. \A j \in 1..i : SubSeq(p, 1, i)[j] = SubSeq(d, 1, i)[j]
        BY <1>4, <2>1, <2>2, <2>3
    <2>5. QED
        BY <2>2, <2>3, <2>4, SeqEqual
<1>6. QED
    BY <1>4, <1>5

\* Stage 0 returns the boundary of its chunk.
LEMMA BoundaryExact ==
    ASSUME NEW f, NEW ts, NEW n, NEW c, c.rows = SubSeq(ts, 1, f.txn.base_target),
           c.ptoks = SubSeq(f.eval, 1, n + ChunkLen(f, n))
    PROVE  BoundaryOf(c, f.txn, n, ChunkLen(f, n)) = Boundary(f, ts, n)
    BY DEF BoundaryOf, Boundary, Given

\* The recount of the accepted prefix ends at its first rejected row.
LEMMA AcceptedFacts ==
    ASSUME NEW c, Len(c.ptoks) \in Nat \ {0}
    PROVE  /\ AcceptedPrefix(c) \in 1..Len(c.ptoks)
           /\ \A i \in 1..(AcceptedPrefix(c) - 1) :
                 c.ptoks[i + 1] = Greedy(c.rows \o SubSeq(c.ptoks, 1, i))
<1> DEFINE all == Len(c.ptoks)
           Agrees(i) == c.ptoks[i + 1] = Greedy(c.rows \o SubSeq(c.ptoks, 1, i))
           T == {i \in 1..all : i = all \/ ~Agrees(i)}
           Cut(m) == (\A i \in 1..(m - 1) : Agrees(i)) /\ (m = all \/ ~Agrees(m))
<1>1. T \subseteq Nat /\ T # {}
    <2>1. all \in T
        OBVIOUS
    <2>2. QED
        BY <2>1
<1>2. PICK m \in T : \A y \in T : m <= y
    <2> HIDE DEF T
    <2>1. QED
        BY <1>1, LeastExists
<1>3. m \in 1..all /\ Cut(m)
    <2>1. m \in 1..all /\ (m = all \/ ~Agrees(m))
        OBVIOUS
    <2>2. ASSUME NEW i \in 1..(m - 1) PROVE Agrees(i)
        <3>1. i \in 1..all /\ i # all /\ ~(m <= i)
            BY <2>1
        <3>2. i \notin T
            BY <1>2, <3>1
        <3>3. QED
            BY <3>1, <3>2
    <2>3. QED
        BY <2>1, <2>2
<1>4. AcceptedPrefix(c) = CHOOSE k \in 1..all : Cut(k)
    BY DEF AcceptedPrefix
<1> HIDE DEF Cut
<1>5. AcceptedPrefix(c) \in 1..all /\ Cut(AcceptedPrefix(c))
    BY <1>3, <1>4
<1>6. QED
    BY <1>5 DEF Cut

\* Stage 1 returns an answer about the rows it was given.
LEMMA OutputExact ==
    ASSUME NEW f, IsSeq(f.eval), Len(f.eval) = f.txn.evaluated, NEW ts, NEW n, NEW c,
           n + ChunkLen(f, n) \in 1..f.txn.evaluated,
           c.rows = SubSeq(ts, 1, f.txn.base_target),
           c.ptoks = SubSeq(f.eval, 1, n + ChunkLen(f, n)),
           NEW final, final <=> n + ChunkLen(f, n) = f.txn.evaluated
    PROVE  IsAnswer(f, ts, n, StageOneOutput(c, f.txn, Boundary(f, ts, n), final))
<1> DEFINE m == n + ChunkLen(f, n)
           p == c.ptoks
           spec == f.txn.kind = "speculative" /\ final
           k == IF spec THEN AcceptedPrefix(c) ELSE m
           out == StageOneOutput(c, f.txn, Boundary(f, ts, n), final)
<1>1. Len(f.eval) \in Nat
    BY LenProperties DEF IsSeq
<1>2. m \in 0..Len(f.eval) /\ m \in 1..Len(f.eval) /\ m \in Nat \ {0} /\ p = SubSeq(f.eval, 1, m)
    BY <1>1
<1>b. Boundary(f, ts, n).row = Given(f, ts, m)
    BY DEF Boundary
<1>m. m = n + ChunkLen(f, n)
    OBVIOUS
<1> HIDE DEF m, p
<1>3. /\ Len(p) = m /\ \A i \in 1..m : p[i] = f.eval[i]
      /\ \A i \in 0..m : SubSeq(p, 1, i) = SubSeq(f.eval, 1, i)
    BY <1>2, PrefixOfPrefix
<1>4. \A i \in 0..m : c.rows \o SubSeq(c.ptoks, 1, i) = Given(f, ts, i)
    BY <1>3 DEF Given, p
<1>5. k \in 1..m /\ (spec => Verified(f, ts, k - 1))
    <2>1. CASE ~spec
        BY <1>2, <2>1
    <2>2. CASE spec
        <3>1. /\ AcceptedPrefix(c) \in 1..m
              /\ \A i \in 1..(AcceptedPrefix(c) - 1) :
                    p[i + 1] = Greedy(c.rows \o SubSeq(c.ptoks, 1, i))
            BY <1>2, <1>3, AcceptedFacts DEF p
        <3>2. ASSUME NEW i \in 1..(AcceptedPrefix(c) - 1)
              PROVE  f.eval[i + 1] = Greedy(Given(f, ts, i))
            <4>1. i \in 0..m /\ i + 1 \in 1..m
                BY <1>2, <3>1
            <4>2. QED
                BY <1>3, <1>4, <3>1, <4>1
        <3>3. QED
            BY <2>2, <3>1, <3>2 DEF Verified
    <2>3. QED
        BY <2>1, <2>2
<1>6. out.commit = k /\ out.next = Greedy(Given(f, ts, k))
    <2>1. out = [commit |-> k,
                 next |-> IF k = m THEN Predict(Given(f, ts, m), c.rows \o SubSeq(c.ptoks, 1, m))
                          ELSE Greedy(c.rows \o SubSeq(c.ptoks, 1, k))]
        BY <1>3, <1>b DEF StageOneOutput, p
    <2>2. k \in 0..m /\ m \in 0..m
        BY <1>2, <1>5
    <2>3. /\ c.rows \o SubSeq(c.ptoks, 1, m) = Given(f, ts, m)
          /\ c.rows \o SubSeq(c.ptoks, 1, k) = Given(f, ts, k)
        BY <1>4, <2>2
    <2>4. Predict(Given(f, ts, m), Given(f, ts, m)) = Greedy(Given(f, ts, m))
        BY DEF Greedy
    <2> HIDE DEF k, out
    <2>5. out.commit = k
        BY <2>1
    <2>6. CASE k = m
        <3>1. out.next = Predict(Given(f, ts, m), Given(f, ts, m))
            BY <2>1, <2>3, <2>6
        <3>2. QED
            BY <2>4, <2>5, <2>6, <3>1
    <2>7. CASE k # m
        BY <2>1, <2>3, <2>5, <2>7
    <2>8. QED
        BY <2>6, <2>7
<1>7. QED
    <2>1. spec <=> f.txn.kind = "speculative" /\ m = f.txn.evaluated
        BY <1>m
    <2>2. ~spec => k = m
        OBVIOUS
    <2> HIDE DEF k, spec, out
    <2>3. IsAnswer(f, ts, n, out)
        BY <1>5, <1>6, <1>m, <2>1, <2>2 DEF IsAnswer
    <2>4. QED
        BY <2>3 DEF out

-----------------------------------------------------------------------------
(* A worker's step.                                                        *)

\* What a stage's call finds: the transaction's rows and its own.
CallContext(at, f, ts, s, b, t) ==
    /\ Plain(at, f, s, t) \/ Closing(at, f, s, t)
    /\ at \in Opening =>
        /\ IsSeq(f.eval) /\ Len(f.eval) = f.txn.evaluated /\ f.txn.epoch \in Nat \ {0}
        /\ Within(b, SubSeq(ts, 1, f.txn.base_target), f.txn, f.eval)
        /\ TaskExact(f, ts, t)

\* How a call may end, for what it does to the backend.
CallEnded(s, b, t, b2, res) ==
    /\ res.st \in Values \cup {"failed", "cancelled", "deadline"}
    /\ t.call \notin ChecksToken => res.st \notin {"cancelled", "deadline"}
    /\ b2 = b \/ AfterCall(s, b, t, b2)
    /\ res.st \in Values =>
        AfterCall(s, b, t, b2) /\ (t.call \in Executes => res.value = ReturnOf(b, t))

\* What an execute that is accepted leaves in the backend.
LEMMA ExecuteLeaves ==
    ASSUME NEW at \in Opening, NEW f, NEW ts, NEW s, NEW b, NEW b2, NEW t,
           CallContext(at, f, ts, s, b, t), t.call \in Executes, AfterCall(s, b, t, b2)
    PROVE  LET m == t.n + ChunkLen(f, t.n) IN
           /\ Holds(b2, f, m) /\ b2.rows = SubSeq(ts, 1, f.txn.base_target)
           /\ b2.ptoks = SubSeq(f.eval, 1, m) /\ b2.ckpt = b.ckpt
           /\ m \in 1..f.txn.evaluated /\ Len(t.toks) = ChunkLen(f, t.n)
           /\ b2 = Executed(b, t.txn, t.toks) /\ t.txn = f.txn
           /\ t.n \in 0..(f.txn.evaluated - 1)
<1>1. ~Closing(at, f, s, t)
    BY DEF Opening, Closing, ClosingCall
<1>2. /\ Plain(at, f, s, t) /\ t.txn = f.txn
      /\ t.n \in 0..(f.txn.evaluated - 1) /\ t.toks = SubSeq(f.eval, t.n + 1, t.n + ChunkLen(f, t.n))
    BY <1>1 DEF CallContext, Plain, Executes
<1>3. ExecuteAccepted(b, f.txn, t.n) /\ b2 = Executed(b, t.txn, t.toks)
    BY <1>2 DEF AfterCall, Executes
<1> DEFINE n == t.n
           toks == t.toks
           base == SubSeq(ts, 1, f.txn.base_target)
<1>4. /\ IsSeq(f.eval) /\ Len(f.eval) = f.txn.evaluated /\ f.txn.epoch \in Nat \ {0}
      /\ Within(b, base, f.txn, f.eval)
    BY DEF CallContext
<1>5. /\ n \in 0..(f.txn.evaluated - 1) /\ toks = SubSeq(f.eval, n + 1, n + ChunkLen(f, n))
      /\ ExecuteAccepted(b, f.txn, n) /\ b2 = Executed(b, f.txn, toks)
    BY <1>2, <1>3
<1>a. ChunkAt(f, n, toks) /\ EvalFormed(f)
    BY <1>4, <1>5 DEF ChunkAt, EvalFormed
<1> HIDE DEF n, toks, base
<1>6. ExecutedAs(b, f, base, n, toks)
    BY <1>4, <1>5, <1>a, ExecutedExact
<1>7. /\ RowsUpTo(b2, f, SubSeq(ts, 1, f.txn.base_target), t.n + ChunkLen(f, t.n))
      /\ Len(t.toks) = ChunkLen(f, t.n) /\ b2.ckpt = b.ckpt
    BY <1>5, <1>6 DEF n, toks, base, ExecutedAs
<1>8. QED
    BY <1>2, <1>3, <1>7 DEF RowsUpTo

\* Its answer is exact.
LEMMA NewAnswer ==
    ASSUME NEW at, NEW f, NEW ts, NEW s, NEW b, NEW b2, NEW t, NEW res,
           CallContext(at, f, ts, s, b, t), CallEnded(s, b, t, b2, res)
    PROVE  AnswerExact(at, f, ts, t.call, t.n, res)
<1>1. /\ res.st \in Values \cup {"failed", "cancelled", "deadline"}
      /\ t.call \notin ChecksToken => res.st \notin {"cancelled", "deadline"}
    BY DEF CallEnded
<1>2. ASSUME at \in Opening, t.call \in Executes PROVE t.n < f.txn.evaluated
    <2>1. ~Closing(at, f, s, t)
        BY <1>2 DEF Opening, Closing, ClosingCall
    <2>2. t.n \in 0..(f.txn.evaluated - 1)
        BY <1>2, <2>1 DEF CallContext, Plain, Executes
    <2>3. f.txn.evaluated \in Nat
        <3>1. IsSeq(f.eval) /\ Len(f.eval) = f.txn.evaluated
            BY <1>2 DEF CallContext
        <3>2. QED
            BY <3>1, LenProperties DEF IsSeq
    <2>4. QED
        BY <2>2, <2>3
<1>3. ASSUME at \in Opening, t.call \in Executes, res.st \in Values
      PROVE  IF t.call = "execute0" THEN res.value = Boundary(f, ts, t.n)
             ELSE IsAnswer(f, ts, t.n, res.value)
    <2> DEFINE m == t.n + ChunkLen(f, t.n)
    <2>1. AfterCall(s, b, t, b2) /\ res.value = ReturnOf(b, t)
        BY <1>3 DEF CallEnded
    <2>2. /\ Holds(b2, f, m) /\ b2.rows = SubSeq(ts, 1, f.txn.base_target)
          /\ b2.ptoks = SubSeq(f.eval, 1, m)
          /\ m \in 1..f.txn.evaluated /\ Len(t.toks) = ChunkLen(f, t.n)
          /\ b2 = Executed(b, t.txn, t.toks) /\ t.txn = f.txn
        BY <1>3, <2>1, ExecuteLeaves
    <2>3. CASE t.call = "execute0"
        <3>1. res.value = BoundaryOf(b2, f.txn, t.n, ChunkLen(f, t.n))
            BY <2>1, <2>2, <2>3 DEF ReturnOf
        <3> DEFINE n == t.n
        <3>2. b2.ptoks = SubSeq(f.eval, 1, n + ChunkLen(f, n))
            BY <2>2
        <3> HIDE DEF n
        <3>3. BoundaryOf(b2, f.txn, n, ChunkLen(f, n)) = Boundary(f, ts, n)
            BY <2>2, <3>2, BoundaryExact
        <3>4. QED
            BY <2>3, <3>1, <3>3 DEF n
    <2>4. CASE t.call = "execute1"
        <3>1. t.boundary = Boundary(f, ts, t.n) /\ (t.final <=> m = f.txn.evaluated)
            BY <1>3, <2>4 DEF CallContext, TaskExact
        <3>2. res.value = StageOneOutput(b2, f.txn, Boundary(f, ts, t.n), t.final)
            BY <2>1, <2>2, <2>4, <3>1 DEF ReturnOf
        <3>3. IsSeq(f.eval) /\ Len(f.eval) = f.txn.evaluated
            BY <1>3 DEF CallContext
        <3> DEFINE n == t.n
                   final == t.final
        <3>4. /\ n + ChunkLen(f, n) \in 1..f.txn.evaluated
              /\ b2.ptoks = SubSeq(f.eval, 1, n + ChunkLen(f, n))
              /\ final <=> n + ChunkLen(f, n) = f.txn.evaluated
            BY <2>2, <3>1
        <3> HIDE DEF n, final
        <3>5. IsAnswer(f, ts, n, StageOneOutput(b2, f.txn, Boundary(f, ts, n), final))
            BY <2>2, <3>3, <3>4, OutputExact
        <3>6. QED
            BY <2>4, <3>2, <3>5 DEF n, final
    <2>5. QED
        BY <1>3, <2>3, <2>4 DEF Executes
<1>4. QED
    BY <1>1, <1>2, <1>3 DEF AnswerExact, Executes

\* A call that is not an execute leaves the rows of the transaction alone.
LEMMA PlainRows ==
    ASSUME NEW f, NEW ts, NEW b, Within(b, ts, f.txn, f.eval), NEW s, NEW t, NEW b2, NEW n,
           t.call \in LoopCalls \ Executes, b2 = b \/ AfterCall(s, b, t, b2)
    PROVE  Holds(b2, f, n) <=> Holds(b, f, n)
<1>1. b2 = b \/ b2 = Checkpointed(b, t.n)
    BY DEF AfterCall, LoopCalls, Executes
<1>2. DOMAIN b = DOMAIN FreshBackend
    BY RestFacts DEF Within
<1>3. CASE b2 = [b EXCEPT !.ckpt = t.n]
    <2>1. /\ b2.prov = b.prov /\ b2.base = b.base /\ b2.expected = b.expected /\ b2.kind = b.kind
          /\ b2.ptoks = b.ptoks
        BY <1>2, <1>3, BackendFields
    <2>2. QED
        BY <2>1 DEF Holds
<1>4. QED
    BY <1>1, <1>3 DEF Checkpointed

\* The answer joins the others.
Added(fu, s, t, res, fu2) ==
    /\ DOMAIN fu2 = DOMAIN fu \cup {<<s, t.call, t.n>>} /\ fu2[<<s, t.call, t.n>>] = res
    /\ \A k \in DOMAIN fu : k # <<s, t.call, t.n>> => fu2[k] = fu[k]

\* The rows of the stage that answers.
LEMMA OwnRows ==
    ASSUME NEW at, NEW f, NEW ts, NEW s \in Stages, NEW b, NEW b2, NEW t, NEW res, NEW fu, NEW fu2,
           CallContext(at, f, ts, s, b, t), CallEnded(s, b, t, b2, res),
           RowsCounted(at, f, fu, s, b), Added(fu, s, t, res, fu2)
    PROVE  RowsCounted(at, f, fu2, s, b2)
<1>0. /\ DOMAIN fu2 = DOMAIN fu \cup {<<s, t.call, t.n>>} /\ fu2[<<s, t.call, t.n>>] = res
      /\ \A k \in DOMAIN fu : k # <<s, t.call, t.n>> => fu2[k] = fu[k]
    BY DEF Added
<1> USE <1>0
<1> DEFINE call == ExecuteOf(s)
           n == NextRun(at, f, s)
<1>a. Answered(fu2, s, t.call, t.n)
    BY DEF Answered
<1>1. CASE at \in Working
    <2>0. /\ at \in Opening /\ Within(b, SubSeq(ts, 1, f.txn.base_target), f.txn, f.eval)
          /\ at \notin Deciding \cup {"commit0", "commit1", "reset"}
        BY <1>1 DEF CallContext, Working, Deciding, Opening
    <2>1. Plain(at, f, s, t) /\ PlainCall(at, f, s, t.call, t.n)
        BY <2>0 DEF CallContext, Closing, ClosingCall, Opening, Plain
    <2>2. CASE t.call = call
        <3>1. t.n = n
            BY <1>1, <2>1, <2>2 DEF PlainCall, ExecuteOf, NextRun, Stages, Working, Opening
        <3>2. ~(at = "checkpoint" /\ s = 0) /\ ~(at \in {"reconcile", "lookahead"} /\ s = 1)
            BY <2>1, <2>2 DEF PlainCall, ExecuteOf
        <3>3. ASSUME Arrived(fu2, s, call, n) PROVE Holds(b2, f, n + ChunkLen(f, n))
            <4>1. res.st \in Values
                BY <2>2, <3>1, <3>3 DEF Arrived
            <4>2. AfterCall(s, b, t, b2) /\ t.call \in Executes
                BY <2>2, <4>1 DEF CallEnded, Executes, ExecuteOf
            <4>3. Holds(b2, f, t.n + ChunkLen(f, t.n))
                BY <2>0, <4>2, ExecuteLeaves
            <4>4. QED
                BY <3>1, <4>3
        <3>4. Answered(fu2, s, call, n)
            BY <1>a, <2>2, <3>1
        <3>5. QED
            BY <2>0, <3>2, <3>3, <3>4 DEF RowsCounted
    <2>3. CASE t.call # call
        <3>1. t.call \in LoopCalls \ Executes
            BY <1>1, <2>1, <2>3 DEF PlainCall, ExecuteOf, LoopCalls, Executes, Stages, Working, Opening
        <3>2. \A m : Holds(b2, f, m) <=> Holds(b, f, m)
            BY <2>0, <3>1, PlainRows DEF CallEnded
        <3>3. <<s, call, n>> # <<s, t.call, t.n>>
            BY <2>3
        <3>4. /\ Answered(fu2, s, call, n) <=> Answered(fu, s, call, n)
              /\ Arrived(fu2, s, call, n) <=> Arrived(fu, s, call, n)
            BY <3>3 DEF Answered, Arrived
        <3>5. QED
            BY <1>1, <2>0, <3>2, <3>4 DEF RowsCounted
    <2>4. QED
        BY <2>2, <2>3
<1>2. CASE at \in Deciding
    BY <1>2 DEF CallContext, Plain, PlainCall, Closing, ClosingCall, Deciding
<1>3. CASE at \in Committing
    <2>1. t.call = "commit" /\ t.n = CommitOf(f) /\ (at = "commit1" => s = 1)
        BY <1>3 DEF CallContext, Plain, PlainCall, Closing, ClosingCall, Committing
    <2>2. at \notin Working \cup Deciding \cup {"checkpoint", "reconcile", "lookahead", "reset"}
        BY <1>3 DEF Committing, Working, Opening, Deciding
    <2>3. QED
        BY <1>a, <2>1, <2>2 DEF RowsCounted
<1>4. CASE at = "reset"
    <2>1. t.call = "reset" /\ t.n = 0
        BY <1>4 DEF CallContext, Plain, PlainCall, Closing, ClosingCall
    <2>2. at \notin Working \cup Deciding \cup Committing \cup {"checkpoint", "reconcile", "lookahead"}
        BY <1>4 DEF Committing, Working, Opening, Deciding
    <2>3. QED
        BY <1>a, <2>1, <2>2 DEF RowsCounted, Committing
<1>5. CASE at \notin Working \cup Deciding \cup Committing \cup {"reset"}
    BY <1>5 DEF RowsCounted, Working, Opening, Committing
<1>6. QED
    BY <1>1, <1>2, <1>3, <1>4, <1>5

\* The rows of the other one.
LEMMA OtherRows ==
    ASSUME NEW at, NEW f, NEW s, NEW r, r # s, NEW b, NEW t, NEW res, NEW fu, NEW fu2,
           RowsCounted(at, f, fu, r, b), Added(fu, s, t, res, fu2)
    PROVE  RowsCounted(at, f, fu2, r, b)
<1>1. \A c, n : <<r, c, n>> # <<s, t.call, t.n>>
    OBVIOUS
<1>2. \A c, n : /\ Answered(fu2, r, c, n) <=> Answered(fu, r, c, n)
                /\ Arrived(fu2, r, c, n) <=> Arrived(fu, r, c, n)
    BY <1>1 DEF Answered, Arrived, Added
<1>3. QED
    BY <1>2 DEF RowsCounted

\* What a call finds, whenever it runs.
LEMMA ContextHolds ==
    ASSUME InStep, ExactInStep, ~poisoned, NEW s \in Stages, NEW t,
           t = running[s] \/ \E i \in 1..Len(queue[s]) : t = queue[s][i],
           Plain(pc, frame, s, t) \/ Closing(pc, frame, s, t)
    PROVE  CallContext(pc, frame, tokens, s, backend[s], t)
<1>1. ASSUME pc \in Opening
      PROVE  /\ IsSeq(frame.eval) /\ Len(frame.eval) = frame.txn.evaluated
             /\ frame.txn.epoch \in Nat \ {0}
             /\ Within(backend[s], SubSeq(tokens, 1, frame.txn.base_target), frame.txn, frame.eval)
             /\ TaskExact(frame, tokens, t)
    <2>1. EngineInv /\ FrameInStep /\ pc \in InTxn \ RollingBack /\ pc \notin Outside
        BY <1>1, OpeningFacts
    <2>2. BackendInStep(pc, frame, tokens, fut, s, backend[s])
        BY <2>1, Healthy
    <2>3. TasksExact(pc, frame, tokens, running[s], queue[s])
        BY DEF ExactInStep, StageExact
    <2>4. TaskExact(frame, tokens, t)
        BY <1>1, <2>3 DEF TasksExact
    <2>5. QED
        BY <2>1, <2>2, <2>4, FrameFacts DEF BackendInStep
<1>2. QED
    BY <1>1 DEF CallContext

\* The tasks of stage r after a step are ones it had.
TasksFrom(r) ==
    /\ \/ running'[r] \in {Idle, running[r]}
       \/ \E j \in 1..Len(queue[r]) : running'[r] = queue[r][j]
    /\ \A i \in 1..Len(queue'[r]) : \E j \in 1..Len(queue[r]) : queue'[r][i] = queue[r][j]

\* A worker that takes a task leaves the others as they are.
LEMMA TasksKept ==
    ASSUME NEW r, TasksExact(pc, frame, tokens, running[r], queue[r]), TasksFrom(r),
           UNCHANGED <<pc, frame, tokens>>
    PROVE  TasksExact(pc', frame', tokens', running'[r], queue'[r])
<1>1. TaskExact(frame, tokens, Idle)
    BY DEF TaskExact, Idle
<1>2. ASSUME pc \in Opening
      PROVE  /\ TaskExact(frame, tokens, running'[r])
             /\ \A i \in 1..Len(queue'[r]) : TaskExact(frame, tokens, queue'[r][i])
    <2>1. TaskExact(frame, tokens, running[r]) /\ \A i \in 1..Len(queue[r]) : TaskExact(frame, tokens, queue[r][i])
        BY <1>2 DEF TasksExact
    <2> HIDE DEF TaskExact
    <2>2. QED
        BY <1>1, <2>1 DEF TasksFrom
<1> HIDE DEF TaskExact
<1>3. /\ TaskExact(frame', tokens', running'[r]) <=> TaskExact(frame, tokens, running'[r])
      /\ \A i : TaskExact(frame', tokens', queue'[r][i]) <=> TaskExact(frame, tokens, queue'[r][i])
    <2>1. frame' = frame /\ tokens' = tokens
        OBVIOUS
    <2>2. QED
        BY <2>1
<1>4. QED
    BY <1>2, <1>3 DEF TasksExact

\* A stage's answer keeps the rows and the answers exact.
LEMMA AnswerKeepsExact ==
    ASSUME InStep, ExactInStep, ~poisoned, NEW s \in Stages, NEW t, NEW res, NEW b2,
           CallContext(pc, frame, tokens, s, backend[s], t),
           CallEnded(s, backend[s], t, b2, res),
           UNCHANGED <<pc, frame, tokens, poisoned>>,
           fut' = Answer(s, t, res), backend'[s] = b2,
           \A r \in Stages : r # s => backend'[r] = backend[r],
           \A r \in Stages : TasksFrom(r)
    PROVE  ExactInStep'
<1> DEFINE k == <<s, t.call, t.n>>
           fu == fut'
<1>1. DOMAIN fu = DOMAIN fut \cup {k} /\ fu[k] = res /\ \A m \in DOMAIN fut : m # k => fu[m] = fut[m]
    BY AnswerFacts
<1>2. /\ FrameExact(pc, frame, tokens) /\ AnswersExact(pc, frame, tokens, fut)
      /\ \A r \in Stages : StageExact(r)
    BY DEF ExactInStep
<1>3. AnswersExact(pc, frame, tokens, fu)
    <2>1. AnswerExact(pc, frame, tokens, t.call, t.n, res)
        BY NewAnswer
    <2>2. ASSUME NEW m \in DOMAIN fu PROVE AnswerExact(pc, frame, tokens, m[2], m[3], fu[m])
        <3>1. CASE m = k
            BY <1>1, <2>1, <3>1
        <3>2. CASE m # k
            BY <1>1, <1>2, <2>2, <3>2 DEF AnswersExact
        <3>3. QED
            BY <3>1, <3>2
    <2>3. QED
        BY <2>2 DEF AnswersExact
<1>a. Added(fut, s, t, res, fu)
    BY <1>1 DEF Added
<1> HIDE DEF fu
<1>4. ASSUME NEW r \in Stages PROVE RowsCounted(pc, frame, fu, r, backend'[r])
    <2> DEFINE b == backend[r]
    <2>1. RowsCounted(pc, frame, fut, r, b)
        BY <1>2 DEF StageExact
    <2>2. CASE r = s
        <3>1. CallContext(pc, frame, tokens, s, b, t) /\ CallEnded(s, b, t, b2, res)
            BY <2>2
        <3> HIDE DEF b
        <3>2. RowsCounted(pc, frame, fu, s, b2)
            BY <1>a, <2>1, <2>2, <3>1, OwnRows
        <3>3. QED
            BY <2>2, <3>2
    <2>3. CASE r # s
        <3>1. RowsCounted(pc, frame, fu, r, b)
            BY <1>a, <2>1, <2>3, OtherRows
        <3>2. QED
            BY <2>3, <3>1
    <2>4. QED
        BY <2>2, <2>3
<1>5. ASSUME NEW r \in Stages PROVE StageExact(r)'
    <2>1. TasksExact(pc', frame', tokens', running'[r], queue'[r])
        BY <1>2, TasksKept DEF StageExact
    <2>2. RowsCounted(pc', frame', fut', r, backend'[r])
        BY <1>4 DEF fu
    <2>3. QED
        BY <2>1, <2>2 DEF StageExact
<1>6. FrameExact(pc, frame, tokens)' /\ AnswersExact(pc, frame, tokens, fut)'
    BY <1>2, <1>3 DEF fu
<1>7. QED
    BY <1>5, <1>6 DEF ExactInStep

\* A worker takes a task: it runs it, or answers it without.
LEMMA TakeEffect ==
    ASSUME InStep, ~poisoned, NEW s \in Stages, TakeTask(s)
    PROVE  /\ UNCHANGED <<pc, frame, tokens, poisoned, backend, status>>
           /\ \A r \in Stages : TasksFrom(r)
           /\ \/ fut' = fut
              \/ \E t, res :
                    /\ fut' = Answer(s, t, res) /\ res.st \in {"cancelled", "deadline"}
                    /\ t.call \in ChecksToken
                    /\ \E i \in 1..Len(queue[s]) : t = queue[s][i]
                    /\ Plain(pc, frame, s, t) \/ Closing(pc, frame, s, t)
<1> DEFINE q == queue[s]
           t == Head(q)
           l == Tail(q)
           throws == t.call \in ChecksToken /\ Requested
<1>1. /\ running[s] = Idle /\ q # <<>> /\ queue' = [queue EXCEPT ![s] = l]
      /\ running' = IF throws THEN running ELSE [running EXCEPT ![s] = t]
      /\ fut' = IF throws THEN Answer(s, t, Result(Checked, NoToken)) ELSE fut
      /\ UNCHANGED <<pc, frame, tokens, poisoned, backend, status>>
    BY DEF TakeTask, engineVars, sessVars, coordVars
<1>2. /\ IsSeq(q) /\ DOMAIN queue = Stages /\ DOMAIN running = Stages
    BY DEF WorkersTypeOK, InStep, WorkInStep
<1>3. /\ t = q[1] /\ 1 \in 1..Len(q)
      /\ \A i \in 1..Len(l) : l[i] = q[i + 1] /\ i + 1 \in 1..Len(q)
    BY <1>1, <1>2, TailFacts
<1>4. /\ queue'[s] = l
      /\ \A r \in Stages : r # s => queue'[r] = queue[r] /\ running'[r] = running[r]
      /\ running'[s] \in {t, Idle}
    BY <1>1, <1>2
<1>5. Plain(pc, frame, s, t) \/ Closing(pc, frame, s, t)
    <2>1. WorkInOrder(pc, frame, s, Idle, q)
        BY <1>1, Healthy
    <2>2. QED
        BY <1>1, <2>1, WorkTake
<1> HIDE DEF q, t, l, throws
<1>6. ASSUME NEW r \in Stages PROVE TasksFrom(r)
    <2>1. CASE r = s
        BY <1>3, <1>4, <2>1 DEF TasksFrom, q
    <2>2. CASE r # s
        BY <1>4, <2>2 DEF TasksFrom
    <2>3. QED
        BY <2>1, <2>2
<1>7. throws => /\ Result(Checked, NoToken).st \in {"cancelled", "deadline"}
                /\ t.call \in ChecksToken
    BY DEF throws, Requested, Result
<1>8. QED
    BY <1>1, <1>3, <1>5, <1>6, <1>7 DEF q

\* A worker finishes its task.
LEMMA CompleteEffect ==
    ASSUME InStep, ~poisoned, NEW s \in Stages, CompleteTask(s)
    PROVE  /\ UNCHANGED <<pc, frame, tokens, poisoned, status>>
           /\ \A r \in Stages : TasksFrom(r)
           /\ \A r \in Stages : r # s => backend'[r] = backend[r]
           /\ Plain(pc, frame, s, running[s]) \/ Closing(pc, frame, s, running[s])
           /\ \E res : /\ fut' = Answer(s, running[s], res)
                       /\ CallEnded(s, backend[s], running[s], backend'[s], res)
                       /\ ~Faults /\ Accepts(s, backend[s], running[s]) =>
                             res.st \notin {"failed", "malformed"}
<1> DEFINE t == running[s]
           b == backend[s]
           all == CallOutcomes(s, b, t)
<1>1. /\ t # Idle /\ running' = [running EXCEPT ![s] = Idle]
      /\ UNCHANGED <<pc, frame, tokens, poisoned, status, queue>>
      /\ \E o \in all \cup FaultOutcomes(all, b) :
            LET throws == RechecksToken(s, t) /\ o.res.st = "ok" /\ Requested IN
            /\ backend' = [backend EXCEPT ![s] = o.b]
            /\ fut' = Answer(s, t, IF throws THEN Result(Checked, NoToken) ELSE o.res)
    BY DEF CompleteTask, engineVars, sessVars, coordVars
<1>2. PICK o \in all \cup FaultOutcomes(all, b) :
         /\ backend' = [backend EXCEPT ![s] = o.b]
         /\ \E res : /\ fut' = Answer(s, t, res)
                     /\ \/ res = o.res
                        \/ res = Result(Checked, NoToken) /\ Requested /\ RechecksToken(s, t)
    BY <1>1
<1>3. PICK res : /\ fut' = Answer(s, t, res)
                 /\ \/ res = o.res
                    \/ res = Result(Checked, NoToken) /\ Requested /\ RechecksToken(s, t)
    BY <1>2
<1>4. DOMAIN running = Stages /\ DOMAIN backend = Stages
    BY DEF InStep, WorkInStep, WorkersTypeOK
<1>5. /\ running'[s] = Idle /\ backend'[s] = o.b
      /\ \A r \in Stages : r # s => running'[r] = running[r] /\ backend'[r] = backend[r]
    BY <1>1, <1>2, <1>4
<1>6. Plain(pc, frame, s, t) \/ Closing(pc, frame, s, t)
    <2>1. WorkInOrder(pc, frame, s, t, queue[s])
        BY Healthy
    <2>2. QED
        BY <1>1, <2>1, WorkDone
<1>7. ASSUME NEW r \in Stages PROVE TasksFrom(r)
    BY <1>1, <1>5 DEF TasksFrom
<1>8. t.call \in LoopCalls \cup ClosingCalls
    BY <1>6, CallKinds
<1>9. /\ o.res.st \in Values \cup {"failed"}
      /\ o.b = b \/ AfterCall(s, b, t, o.b)
      /\ o.res.st \in Values =>
            /\ AfterCall(s, b, t, o.b)
            /\ t.call \in Executes => o.res.value = ReturnOf(b, t)
      /\ ~Faults /\ Accepts(s, b, t) => o.res.st = "ok"
    <2> DEFINE c == b
               u == t
    <2>1. all = CallOutcomes(s, c, u) /\ o \in all \cup FaultOutcomes(all, c) /\ u.call \in LoopCalls \cup ClosingCalls
        BY <1>8
    <2> HIDE DEF all, c, u
    <2>2. o.b = c \/ AfterCall(s, c, u, o.b)
        BY <2>1, OutcomeFacts
    <2>3. /\ o.res.st \in Values \cup {"failed"}
          /\ o.res.st \in Values =>
                /\ AfterCall(s, c, u, o.b)
                /\ u.call \in Executes => o.res.value = ReturnOf(c, u)
          /\ ~Faults /\ Accepts(s, c, u) => o.res.st = "ok"
        BY <2>1, OutcomeEnds
    <2>4. QED
        BY <2>2, <2>3 DEF c, u
<1> HIDE DEF t, b, all
<1>10. RechecksToken(s, t) => t.call \in ChecksToken
    BY DEF RechecksToken, ChecksToken
<1>11. Requested => Result(Checked, NoToken).st \in {"cancelled", "deadline"}
    BY DEF Requested, Result
<1>12. CallEnded(s, b, t, o.b, res) /\ (~Faults /\ Accepts(s, b, t) => res.st \notin {"failed", "malformed"})
    <2>1. CASE res = o.res
        BY <1>9, <2>1 DEF CallEnded, Values
    <2>2. CASE res = Result(Checked, NoToken) /\ Requested /\ RechecksToken(s, t)
        BY <1>9, <1>10, <1>11, <2>2 DEF CallEnded, Values
    <2>3. QED
        BY <1>3, <2>1, <2>2
<1>13. QED
    BY <1>1, <1>3, <1>5, <1>6, <1>7, <1>12 DEF t, b

\* Neither disturbs what is exact.
LEMMA TakeExact ==
    ASSUME InStep, ExactInStep, NEW s \in Stages, TakeTask(s)
    PROVE  ExactInStep'
<1>0. poisoned' = poisoned
    BY DEF TakeTask, sessVars
<1>1. CASE poisoned
    BY <1>0, <1>1 DEF ExactInStep
<1>2. CASE ~poisoned
    <2>1. /\ UNCHANGED <<pc, frame, tokens, poisoned, backend, status>>
          /\ \A r \in Stages : TasksFrom(r)
        BY <1>2, TakeEffect
    <2>2. CASE fut' = fut
        <3>1. /\ FrameExact(pc, frame, tokens) /\ AnswersExact(pc, frame, tokens, fut)
              /\ \A r \in Stages : StageExact(r)
            BY <1>2 DEF ExactInStep
        <3>2. ASSUME NEW r \in Stages PROVE StageExact(r)'
            <4>1. TasksExact(pc', frame', tokens', running'[r], queue'[r])
                BY <2>1, <3>1, TasksKept DEF StageExact
            <4>2. RowsCounted(pc', frame', fut', r, backend'[r])
                BY <2>1, <2>2, <3>1 DEF StageExact
            <4>3. QED
                BY <4>1, <4>2 DEF StageExact
        <3>3. FrameExact(pc, frame, tokens)' /\ AnswersExact(pc, frame, tokens, fut)'
            BY <2>1, <2>2, <3>1
        <3>4. QED
            BY <3>2, <3>3 DEF ExactInStep
    <2>3. CASE \E t, res :
                  /\ fut' = Answer(s, t, res) /\ res.st \in {"cancelled", "deadline"}
                  /\ t.call \in ChecksToken
                  /\ \E i \in 1..Len(queue[s]) : t = queue[s][i]
                  /\ Plain(pc, frame, s, t) \/ Closing(pc, frame, s, t)
        <3>1. PICK t, res :
                  /\ fut' = Answer(s, t, res) /\ res.st \in {"cancelled", "deadline"}
                  /\ t.call \in ChecksToken
                  /\ \E i \in 1..Len(queue[s]) : t = queue[s][i]
                  /\ Plain(pc, frame, s, t) \/ Closing(pc, frame, s, t)
            BY <2>3
        <3>2. CallContext(pc, frame, tokens, s, backend[s], t)
            BY <1>2, <3>1, ContextHolds
        <3>3. CallEnded(s, backend[s], t, backend[s], res)
            BY <3>1 DEF CallEnded, Values
        <3>4. QED
            BY <1>2, <2>1, <3>1, <3>2, <3>3, AnswerKeepsExact
    <2>4. QED
        BY <1>2, <2>2, <2>3, TakeEffect
<1>3. QED
    BY <1>1, <1>2

\* A worker finishes a task.
LEMMA CompleteExact ==
    ASSUME InStep, ExactInStep, NEW s \in Stages, CompleteTask(s)
    PROVE  ExactInStep'
<1>0. poisoned' = poisoned
    BY DEF CompleteTask, sessVars
<1>1. CASE poisoned
    BY <1>0, <1>1 DEF ExactInStep
<1>2. CASE ~poisoned
    <2> DEFINE t == running[s]
               b2 == backend'[s]
    <2>1. /\ UNCHANGED <<pc, frame, tokens, poisoned, status>>
          /\ \A r \in Stages : TasksFrom(r)
          /\ \A r \in Stages : r # s => backend'[r] = backend[r]
          /\ Plain(pc, frame, s, t) \/ Closing(pc, frame, s, t)
          /\ \E res : fut' = Answer(s, t, res) /\ CallEnded(s, backend[s], t, b2, res)
        BY <1>2, CompleteEffect
    <2>2. PICK res : fut' = Answer(s, t, res) /\ CallEnded(s, backend[s], t, b2, res)
        BY <2>1
    <2>3. CallContext(pc, frame, tokens, s, backend[s], t)
        BY <1>2, <2>1, ContextHolds
    <2>4. t = running[s] /\ b2 = backend'[s]
        OBVIOUS
    <2> HIDE DEF t, b2
    <2>5. QED
        BY <1>2, <2>1, <2>2, <2>3, <2>4, AnswerKeepsExact
<1>3. QED
    BY <1>1, <1>2
-----------------------------------------------------------------------------
(* The coordinator's steps inside a transaction.                           *)

\* An answer that is there is exact.
LEMMA AnswerIsExact ==
    ASSUME AnswersExact(pc, frame, tokens, fut), NEW s, NEW c, NEW n, Answered(fut, s, c, n)
    PROVE  /\ AnswerExact(pc, frame, tokens, c, n, fut[<<s, c, n>>])
           /\ fut[<<s, c, n>>].st \in {"ok", "malformed"} \cup Endings
<1> DEFINE k == <<s, c, n>>
<1>1. k \in DOMAIN fut /\ k[2] = c /\ k[3] = n
    BY DEF Answered
<1>2. AnswerExact(pc, frame, tokens, c, n, fut[k])
    BY <1>1 DEF AnswersExact
<1>3. QED
    BY <1>2 DEF AnswerExact, Values, Endings

\* The parts of the invariant while a request is under way.
LEMMA ExactFacts ==
    ASSUME ExactInStep, ~poisoned
    PROVE  /\ FrameExact(pc, frame, tokens) /\ AnswersExact(pc, frame, tokens, fut)
           /\ RowsCounted(pc, frame, fut, 0, backend[0]) /\ RowsCounted(pc, frame, fut, 1, backend[1])
           /\ TasksExact(pc, frame, tokens, running[0], queue[0])
           /\ TasksExact(pc, frame, tokens, running[1], queue[1])
    BY DEF ExactInStep, StageExact, Stages

\* The tasks of stage s after a step are ones it had, or carry what they should.
TasksMade(s) ==
    \A i \in 1..Len(queue'[s]) :
        TaskExact(frame, tokens, queue'[s][i]) \/ \E j \in 1..Len(queue[s]) : queue'[s][i] = queue[s][j]

\* A stage that had no task is given one.
LEMMA GivenTask ==
    ASSUME NEW s, NEW t, queue[s] = <<>>,
           queue'[s] = queue[s] \o <<t>> \/ queue'[s] = Append(queue[s], t),
           TaskExact(frame, tokens, t)
    PROVE  TasksMade(s)
<1>0. \A u : <<>> \o <<u>> = <<u>> /\ Append(<<>>, u) = <<u>>
    BY ShortSeqs
<1>1. queue'[s] = <<t>>
    BY <1>0
<1> HIDE DEF TaskExact
<1>2. QED
    BY <1>1 DEF TasksMade

\* The coordinator moves on.
LEMMA MoveExact ==
    ASSUME ExactInStep, ~poisoned, pc \in Opening,
           UNCHANGED <<tokens, poisoned, backend, running, fut>>,
           frame'.txn = frame.txn, frame'.eval = frame.eval,
           pc' \in Opening => TasksMade(0) /\ TasksMade(1),
           FrameExact(pc', frame', tokens),
           RowsCounted(pc', frame', fut, 0, backend[0]), RowsCounted(pc', frame', fut, 1, backend[1])
    PROVE  ExactInStep'
<1>1. AnswersExact(pc', frame', tokens, fut)
    BY ExactFacts, AnswersKept
<1>2. ASSUME NEW s \in Stages PROVE TasksExact(pc', frame', tokens, running[s], queue'[s])
    <2>1. SUFFICES ASSUME pc' \in Opening
                   PROVE  /\ TaskExact(frame', tokens, running[s])
                          /\ \A i \in 1..Len(queue'[s]) : TaskExact(frame', tokens, queue'[s][i])
        BY DEF TasksExact
    <2>2. TasksExact(pc, frame, tokens, running[s], queue[s]) /\ TasksMade(s)
        BY <2>1, ExactFacts DEF Stages
    <2>3. \A t : TaskExact(frame', tokens, t) <=> TaskExact(frame, tokens, t)
        BY SameRows
    <2> HIDE DEF TaskExact
    <2>4. QED
        BY <2>2, <2>3 DEF TasksExact, TasksMade
<1>3. ASSUME NEW s \in Stages PROVE StageExact(s)'
    <2>1. RowsCounted(pc', frame', fut, s, backend[s])
        BY DEF Stages
    <2>2. RowsCounted(pc', frame', fut', s, backend'[s])
        BY <2>1
    <2>3. TasksExact(pc', frame', tokens', running'[s], queue'[s])
        BY <1>2
    <2>4. QED
        BY <2>2, <2>3 DEF StageExact
<1>4. FrameExact(pc, frame, tokens)' /\ AnswersExact(pc, frame, tokens, fut)'
    BY <1>1
<1>5. QED
    BY <1>3, <1>4 DEF ExactInStep

\* The coordinator gives up: only how the transaction began still matters.
LEMMA ThrowExact ==
    ASSUME InStep, ExactInStep, pc \in Opening, NEW st \in Endings \cup {"malformed"}, Throw(st),
           UNCHANGED <<tokens, poisoned, backend, running>>
    PROVE  ExactInStep' /\ StatusExact'
<1>1. pc' = "rollback0" /\ status' = (IF st = "malformed" THEN "failed" ELSE st) /\ UNCHANGED <<frame, fut>>
    BY DEF Throw
<1>2. StatusExact'
    BY <1>1 DEF StatusExact, Endings, RollingBack
<1>3. ~poisoned /\ pc \in InTxn
    BY OpeningFacts, Healthy
<1>4. FrameExact(pc, frame, tokens)
    BY <1>3, ExactFacts
<1>5. FrameExact("rollback0", frame, tokens)
    BY <1>3, <1>4 DEF FrameExact, InTxn, RollingBack, Working, Opening, Deciding, Committing
<1>6. \A s : RowsCounted("rollback0", frame, fut, s, backend[s])
    BY DEF RowsCounted, Working, Opening, Deciding
<1>7. "rollback0" \notin Opening
    BY DEF Opening
<1>8. QED
    BY <1>1, <1>2, <1>3, <1>5, <1>6, <1>7, MoveExact

\* The prefetch has been answered.
LEMMA PrefetchExact ==
    ASSUME InStep, ExactInStep, GetPrefetch
    PROVE  ExactInStep' /\ StatusExact'
<1> DEFINE r == fut[<<0, "prefetch", 0>>]
           t == Stage0Task(frame, 0)
<1>0. /\ pc = "prefetch" /\ pc \in Opening /\ Answered(fut, 0, "prefetch", 0)
      /\ UNCHANGED <<tokens, poisoned, backend, running>>
    BY DEF GetPrefetch, Opening, Ready, Answered, sessVars
<1>1. \/ r.st # "ok" /\ Throw(r.st)
      \/ r.st = "ok" /\ queue' = Submitted(To(0, t)) /\ pc' = "chunk" /\ UNCHANGED <<frame, fut, status>>
    BY DEF GetPrefetch, Got
<1>2. ~poisoned /\ pc \notin Outside
    BY <1>0, OpeningFacts, Healthy
<1>3. r.st \in {"ok", "malformed"} \cup Endings
    BY <1>0, <1>2, ExactFacts, AnswerIsExact
<1> HIDE DEF r
<1>4. CASE r.st # "ok"
    <2>1. r.st \in Endings \cup {"malformed"} /\ Throw(r.st)
        BY <1>1, <1>3, <1>4
    <2>2. QED
        BY <1>0, <2>1, ThrowExact
<1>5. CASE r.st = "ok"
    <2>1. queue' = Submitted(To(0, t)) /\ pc' = "chunk" /\ UNCHANGED <<frame, fut, status>>
        BY <1>1, <1>5
    <2>2. queue[0] = <<>>
        <3>1. \A c, m : PlainCall(pc, frame, 0, c, m) => c = "prefetch" /\ m = 0
            BY <1>0 DEF PlainCall
        <3>2. QED
            BY <1>0, <3>1, OpeningFacts, StageDone DEF Stages
    <2>3. TaskExact(frame, tokens, t)
        BY DEF TaskExact, Stage0Task, ExecuteTask
    <2> HIDE DEF t
    <2>4. queue'[0] = queue[0] \o <<t>> /\ queue'[1] = queue[1]
        BY <1>0, <2>1, OpeningFacts, Submits
    <2>5. TasksMade(0) /\ TasksMade(1)
        BY <2>2, <2>3, <2>4, GivenTask DEF TasksMade
    <2>6. FrameExact("chunk", frame, tokens)
        BY <1>0, <1>2, ExactFacts DEF FrameExact, InTxn, Working, Opening, Deciding, Committing
    <2>7. \A s, b : RowsCounted("prefetch", frame, fut, s, b) => RowsCounted("chunk", frame, fut, s, b)
        BY DEF RowsCounted, Working, Opening, Deciding, NextRun
    <2>8. StatusExact'
        BY <2>1 DEF StatusExact, RollingBack
    <2>9. QED
        BY <1>0, <1>2, <2>1, <2>5, <2>6, <2>7, <2>8, ExactFacts, MoveExact
<1>6. QED
    BY <1>4, <1>5

\* The top of the chunk loop.
LEMMA CheckExact ==
    ASSUME InStep, ExactInStep, CheckChunk
    PROVE  ExactInStep' /\ StatusExact'
<1>0. /\ pc = "chunk" /\ pc \in Opening
      /\ UNCHANGED <<tokens, poisoned, backend, running>>
    BY DEF CheckChunk, Opening, sessVars
<1>2. ~poisoned /\ pc \notin Outside
    BY <1>0, OpeningFacts, Healthy
<1>4. CASE Requested
    <2>1. Checked \in Endings \cup {"malformed"} /\ Throw(Checked)
        BY <1>4 DEF CheckChunk, Requested, Endings
    <2>2. QED
        BY <1>0, <2>1, ThrowExact
<1>5. CASE ~Requested
    <2>1. pc' = "stage0" /\ UNCHANGED <<frame, fut, status, queue>>
        BY <1>5 DEF CheckChunk
    <2>5. TasksMade(0) /\ TasksMade(1)
        BY <2>1 DEF TasksMade
    <2>6. FrameExact("stage0", frame, tokens)
        BY <1>0, <1>2, ExactFacts DEF FrameExact, InTxn, Working, Opening, Deciding, Committing
    <2>7. \A s, b : RowsCounted("chunk", frame, fut, s, b) => RowsCounted("stage0", frame, fut, s, b)
        BY DEF RowsCounted, Working, Opening, Deciding, NextRun
    <2>8. StatusExact'
        BY <2>1 DEF StatusExact, RollingBack
    <2>9. QED
        BY <1>0, <1>2, <2>1, <2>5, <2>6, <2>7, <2>8, ExactFacts, MoveExact
<1>6. QED
    BY <1>4, <1>5

\* How an execute is seen by the coordinator, which looks at the token again.
LEMMA SeenStatus ==
    ASSUME InStep, NEW r, r.st \in {"ok", "malformed"} \cup Endings, NEW st,
           st = IF r.st \notin {"ok", "malformed"} THEN r.st ELSE IF Requested THEN Checked ELSE r.st
    PROVE  /\ st = "ok" => r.st = "ok"
           /\ st \in {"ok", "malformed"} \cup Endings
<1>1. Requested => Checked \in {"cancelled", "deadline"}
    BY DEF Requested
<1>2. QED
    BY <1>1 DEF Endings

\* The boundary of a chunk is handed to stage 1.
LEMMA Stage0Exact ==
    ASSUME InStep, ExactInStep, GetStage0
    PROVE  ExactInStep' /\ StatusExact'
<1> DEFINE off == frame.off
           n == NextOf(frame)
           r == fut[<<0, "execute0", frame.off>>]
           st == IF r.st \notin {"ok", "malformed"} THEN r.st
                 ELSE IF Requested THEN Checked ELSE r.st
           t == ExecuteTask("execute1", frame, frame.off, r.value)
           good == st = "ok" /\ BoundaryMatches(r.value, frame.txn, frame.off, ChunkLen(frame, frame.off))
<1>0. /\ pc = "stage0" /\ pc \in Opening /\ Answered(fut, 0, "execute0", frame.off)
      /\ UNCHANGED <<tokens, poisoned, backend, running>>
    BY DEF GetStage0, Opening, Ready, Answered, sessVars
<1>1. ~good => Throw(IF st = "ok" THEN "failed" ELSE st)
    BY DEF GetStage0, Got
<1>2. ~poisoned /\ pc \notin Outside /\ WorkersTypeOK
    BY <1>0, OpeningFacts, Healthy
<1>3. r.st \in {"ok", "malformed"} \cup Endings /\ AnswerExact(pc, frame, tokens, "execute0", frame.off, r)
    BY <1>0, <1>2, ExactFacts, AnswerIsExact
<1>4. /\ st = "ok" => r.st = "ok"
      /\ st \in {"ok", "malformed"} \cup Endings
    BY <1>3, SeenStatus
<1>5. CASE ~good
    <2> DEFINE x == IF st = "ok" THEN "failed" ELSE st
    <2>1. x \in Endings \cup {"malformed"} /\ Throw(x)
        BY <1>1, <1>4, <1>5 DEF Endings
    <2> HIDE DEF x
    <2>2. QED
        BY <1>0, <2>1, ThrowExact
<1>6. CASE good
    <2>0. r.st \in Values /\ r.value = Boundary(frame, tokens, frame.off)
        BY <1>0, <1>3, <1>4, <1>6 DEF AnswerExact, Values
    <2>1. /\ UNCHANGED <<frame, status, fut>>
          /\ pc' = (IF MoreRows /\ Verifying THEN "checkpoint" ELSE "stage1")
          /\ queue' = [Submitted(To(1, t)) EXCEPT ![0] =
                        CASE ~MoreRows -> @
                          [] MoreRows /\ Verifying  -> Append(@, Task("checkpoint", NextOffset))
                          [] MoreRows /\ ~Verifying -> Append(@, Stage0Task(frame, NextOffset))]
        BY <1>6 DEF GetStage0, Got
    <2>2. queue[0] = <<>> /\ queue[1] = <<>>
        <3>1. \A c, m : PlainCall(pc, frame, 0, c, m) => c = "execute0" /\ m = frame.off
            BY <1>0 DEF PlainCall
        <3>2. \A c, m : ~PlainCall(pc, frame, 1, c, m)
            BY <1>0 DEF PlainCall
        <3>3. QED
            BY <1>0, <3>1, <3>2, OpeningFacts, StageDone, StageFree DEF Stages
    <2>3. TaskExact(frame, tokens, t)
        BY <2>0 DEF TaskExact, ExecuteTask
    <2>4. \A m : TaskExact(frame, tokens, Task("checkpoint", m)) /\ TaskExact(frame, tokens, Stage0Task(frame, m))
        BY DEF TaskExact, Task, Stage0Task, ExecuteTask
    <2>5. /\ DOMAIN Submitted(To(1, t)) = Stages
          /\ Submitted(To(1, t))[0] = queue[0] /\ Submitted(To(1, t))[1] = queue[1] \o <<t>>
        BY <1>2, Submits
    <2> HIDE DEF t
    <2>6. /\ queue'[1] = queue[1] \o <<t>>
          /\ \/ queue'[0] = queue[0]
             \/ queue'[0] = Append(queue[0], Task("checkpoint", NextOffset))
             \/ queue'[0] = Append(queue[0], Stage0Task(frame, NextOffset))
        BY <2>1, <2>5 DEF Stages
    <2>7. TasksMade(1)
        BY <2>2, <2>3, <2>6, GivenTask
    <2>8. TasksMade(0)
        <3>1. queue'[0] = queue[0] => TasksMade(0)
            BY DEF TasksMade
        <3>2. QED
            BY <2>2, <2>4, <2>6, <3>1, GivenTask
    <2>9. pc' \in {"checkpoint", "stage1"} /\ (pc' = "checkpoint" => frame.txn.kind = "speculative")
        BY <2>1 DEF Verifying
    <2>10. FrameExact(pc', frame, tokens)
        <3>1. FrameExact("stage0", frame, tokens)
            BY <1>0, <1>2, ExactFacts
        <3>2. QED
            BY <2>9, <3>1 DEF FrameExact, InTxn, Working, Opening, Deciding, Committing
    <2>11. RowsCounted(pc', frame, fut, 0, backend[0])
        <3>1. RowsCounted("stage0", frame, fut, 0, backend[0])
            BY <1>0, <1>2, ExactFacts
        <3>2. Arrived(fut, 0, "execute0", frame.off)
            BY <1>0, <2>0 DEF Arrived
        <3>3. Holds(backend[0], frame, n)
            BY <3>1, <3>2 DEF RowsCounted, Working, Opening, NextRun, ExecuteOf, NextOf
        <3>4. ~Answered(fut, 0, "execute0", n)
            <4>1. ~AnswerInStep(pc, frame, "execute0", n)
                BY <1>0, OpeningFacts DEF AnswerInStep, Opening
            <4>2. QED
                BY <1>0, <4>1, OpeningFacts, NotAnswered
        <3>5. CASE pc' = "checkpoint"
            BY <3>1, <3>3, <3>5 DEF RowsCounted, Working, Opening, Deciding, NextRun
        <3>6. CASE pc' = "stage1"
            BY <3>3, <3>4, <3>6 DEF RowsCounted, Working, Opening, Deciding, NextRun, Arrived, ExecuteOf
        <3>7. QED
            BY <2>9, <3>5, <3>6
    <2>12. RowsCounted(pc', frame, fut, 1, backend[1])
        <3>1. RowsCounted("stage0", frame, fut, 1, backend[1])
            BY <1>0, <1>2, ExactFacts
        <3>2. QED
            BY <2>9, <3>1 DEF RowsCounted, Working, Opening, Deciding, NextRun
    <2>13. StatusExact'
        BY <2>9 DEF StatusExact, RollingBack
    <2>14. QED
        BY <1>0, <1>2, <2>1, <2>7, <2>8, <2>10, <2>11, <2>12, <2>13, MoveExact
<1>7. QED
    BY <1>5, <1>6

\* The checkpoint is taken.
LEMMA CheckpointExact ==
    ASSUME InStep, ExactInStep, GetCheckpoint
    PROVE  ExactInStep' /\ StatusExact'
<1> DEFINE n == NextOf(frame)
           r == fut[<<0, "checkpoint", n>>]
           t == Stage0Task(frame, n)
<1>0. /\ pc = "checkpoint" /\ pc \in Opening /\ Answered(fut, 0, "checkpoint", n)
      /\ UNCHANGED <<tokens, poisoned, backend, running>>
    BY DEF GetCheckpoint, Opening, Ready, Answered, sessVars, NextOffset, NextOf
<1>1. \/ r.st # "ok" /\ Throw(r.st)
      \/ r.st = "ok" /\ queue' = Submitted(To(0, t)) /\ pc' = "stage1" /\ UNCHANGED <<frame, fut, status>>
    BY DEF GetCheckpoint, Got, NextOffset, NextOf
<1>2. ~poisoned /\ pc \notin Outside
    BY <1>0, OpeningFacts, Healthy
<1>3. r.st \in {"ok", "malformed"} \cup Endings
    BY <1>0, <1>2, ExactFacts, AnswerIsExact
<1> HIDE DEF r
<1>4. CASE r.st # "ok"
    <2>1. r.st \in Endings \cup {"malformed"} /\ Throw(r.st)
        BY <1>1, <1>3, <1>4
    <2>2. QED
        BY <1>0, <2>1, ThrowExact
<1>5. CASE r.st = "ok"
    <2>1. queue' = Submitted(To(0, t)) /\ pc' = "stage1" /\ UNCHANGED <<frame, fut, status>>
        BY <1>1, <1>5
    <2>2. queue[0] = <<>>
        <3>1. \A c, m : PlainCall(pc, frame, 0, c, m) => c = "checkpoint" /\ m = n
            BY <1>0 DEF PlainCall
        <3>2. QED
            BY <1>0, <3>1, OpeningFacts, StageDone DEF Stages
    <2>3. TaskExact(frame, tokens, t)
        BY DEF TaskExact, Stage0Task, ExecuteTask
    <2> HIDE DEF t
    <2>4. queue'[0] = queue[0] \o <<t>> /\ queue'[1] = queue[1]
        BY <1>0, <2>1, OpeningFacts, Submits
    <2>5. TasksMade(0) /\ TasksMade(1)
        BY <2>2, <2>3, <2>4, GivenTask DEF TasksMade
    <2>6. FrameExact("stage1", frame, tokens)
        BY <1>0, <1>2, ExactFacts DEF FrameExact, InTxn, Working, Opening, Deciding, Committing
    <2>7. RowsCounted("stage1", frame, fut, 0, backend[0])
        <3>1. RowsCounted("checkpoint", frame, fut, 0, backend[0])
            BY <1>0, <1>2, ExactFacts
        <3>2. Holds(backend[0], frame, n)
            BY <3>1 DEF RowsCounted
        <3>3. ~Answered(fut, 0, "execute0", n)
            <4>1. ~AnswerInStep(pc, frame, "execute0", n)
                BY <1>0, OpeningFacts DEF AnswerInStep, Opening
            <4>2. QED
                BY <1>0, <4>1, OpeningFacts, NotAnswered
        <3>4. QED
            BY <3>2, <3>3 DEF RowsCounted, Working, Opening, Deciding, NextRun, Arrived, ExecuteOf
    <2>8. RowsCounted("stage1", frame, fut, 1, backend[1])
        <3>1. RowsCounted("checkpoint", frame, fut, 1, backend[1])
            BY <1>0, <1>2, ExactFacts
        <3>2. QED
            BY <3>1 DEF RowsCounted, Working, Opening, Deciding, NextRun
    <2>9. StatusExact'
        BY <2>1 DEF StatusExact, RollingBack
    <2>10. QED
        BY <1>0, <1>2, <2>1, <2>5, <2>6, <2>7, <2>8, <2>9, MoveExact
<1>6. QED
    BY <1>4, <1>5

\* One more row is verified.
LEMMA VerifiedMore ==
    ASSUME NEW f, NEW ts, NEW n \in Nat, Verified(f, ts, n), NoStops(f, n),
           f.eval[(n + 1) + 1] = Greedy(Given(f, ts, n + 1)), f.eval[(n + 1) + 1] \notin StopTokens
    PROVE  Verified(f, ts, n + 1) /\ NoStops(f, n + 1)
<1>1. \A i \in 1..(n + 1) : i \in 1..n \/ i = n + 1
    OBVIOUS
<1>2. Verified(f, ts, n + 1)
    BY <1>1 DEF Verified
<1>3. NoStops(f, n + 1)
    BY <1>1 DEF NoStops
<1>4. QED
    BY <1>2, <1>3

\* A frame after an answer of stage 1, and a frame's numbers.
TakesAnswer(f, g, v) ==
    /\ g.txn = f.txn /\ g.eval = f.eval /\ g.extent = f.extent
    /\ g.commit = v.commit /\ g.next = v.next
ChunkFits(f) ==
    /\ f.txn.evaluated \in Nat \ {0} /\ f.off \in Nat
    /\ NextOf(f) \in (f.off + 1)..f.txn.evaluated
    /\ f.txn.kind = "speculative" => NextOf(f) = f.off + 1

\* What stage 1's answer makes of the frame.
LEMMA FrameAnswered ==
    ASSUME NEW f, NEW g, NEW ts, NEW v, FrameExact("stage1", f, ts), IsAnswer(f, ts, f.off, v),
           TakesAnswer(f, g, v), ChunkFits(f)
    PROVE  /\ /\ NextOf(f) < f.txn.evaluated /\ f.txn.kind = "speculative" /\ g.off = f.off
              /\ f.eval[NextOf(f) + 1] = v.next /\ v.next \notin StopTokens
              => FrameExact("reconcile", g, ts)
           /\ NextOf(f) < f.txn.evaluated /\ f.txn.kind = "speculative" /\ g.off = f.off
              => FrameExact("lookahead", g, ts)
           /\ f.txn.kind # "speculative" => FrameExact("chunk", g, ts)
           /\ NextOf(f) = f.txn.evaluated => FrameExact("seal", g, ts)
<1> DEFINE n == NextOf(f)
           spec == f.txn.kind = "speculative"
<1>0. /\ g.txn = f.txn /\ g.eval = f.eval /\ g.extent = f.extent /\ g.commit = v.commit /\ g.next = v.next
      /\ f.txn.evaluated \in Nat \ {0} /\ f.off \in Nat
      /\ n \in (f.off + 1)..f.txn.evaluated
      /\ spec => n = f.off + 1
    BY DEF TakesAnswer, ChunkFits
<1> USE <1>0
<1>1. /\ f.txn.base_canonical = Len(ts) /\ (f.txn.kind = "decode" => f.txn.evaluated = 1)
      /\ f.extent = f.txn.evaluated
      /\ spec => Verified(f, ts, f.off) /\ NoStops(f, f.off)
    BY DEF FrameExact, InTxn, Working, Opening
<1>2. /\ v.next = Greedy(Given(f, ts, v.commit))
      /\ IF spec /\ n = f.txn.evaluated
         THEN v.commit \in 1..n /\ Verified(f, ts, v.commit - 1)
         ELSE v.commit = n
    BY DEF IsAnswer, NextOf
<1>3. /\ \A m : Given(g, ts, m) = Given(f, ts, m)
      /\ \A m : Verified(g, ts, m) <=> Verified(f, ts, m)
      /\ \A m : NoStops(g, m) <=> NoStops(f, m)
      /\ g.off = f.off => NextOf(g) = n
    BY SameRows DEF NextOf
<1>4. ASSUME n < f.txn.evaluated, spec, g.off = f.off, f.eval[n + 1] = v.next, v.next \notin StopTokens
      PROVE  FrameExact("reconcile", g, ts)
    <2> DEFINE o == f.off
    <2>1. o \in Nat /\ n = o + 1 /\ v.next = Greedy(Given(f, ts, n)) /\ f.eval[n + 1] = v.next
        BY <1>2, <1>4
    <2> HIDE DEF o, n
    <2>2. /\ o \in Nat /\ Verified(f, ts, o) /\ NoStops(f, o)
          /\ f.eval[(o + 1) + 1] = Greedy(Given(f, ts, o + 1)) /\ f.eval[(o + 1) + 1] \notin StopTokens
        BY <1>1, <1>4, <2>1 DEF o
    <2>3. Verified(f, ts, o + 1) /\ NoStops(f, o + 1)
        BY <2>2, VerifiedMore
    <2>4. Verified(g, ts, NextOf(g)) /\ NoStops(g, NextOf(g))
        BY <1>3, <1>4, <2>1, <2>3
    <2>5. QED
        BY <1>1, <1>4, <2>4 DEF FrameExact, InTxn, Working, Opening, Deciding, Committing
<1>5. ASSUME n < f.txn.evaluated, spec, g.off = f.off PROVE FrameExact("lookahead", g, ts)
    <2>1. g.commit = NextOf(g) /\ g.next = Greedy(Given(g, ts, NextOf(g)))
        BY <1>2, <1>3, <1>5
    <2>2. Verified(g, ts, g.off) /\ NoStops(g, g.off)
        BY <1>1, <1>3, <1>5
    <2>3. QED
        BY <1>1, <1>5, <2>1, <2>2 DEF FrameExact, InTxn, Working, Opening, Deciding, Committing
<1>6. ~spec => FrameExact("chunk", g, ts)
    BY <1>1 DEF FrameExact, InTxn, Working, Opening, Deciding, Committing
<1>7. ASSUME n = f.txn.evaluated PROVE FrameExact("seal", g, ts)
    <2>1. CommitOf(g) = v.commit
        BY <1>2, <1>7 DEF CommitOf
    <2>2. g.next = Greedy(Given(g, ts, CommitOf(g)))
        BY <1>2, <1>3, <2>1
    <2>3. g.extent = f.txn.evaluated /\ f.txn.evaluated \in 1..f.txn.evaluated
        BY <1>1
    <2>4. spec => g.commit \in 1..f.txn.evaluated /\ Verified(g, ts, g.commit - 1)
        BY <1>2, <1>3, <1>7
    <2>5. QED
        BY <1>1, <2>2, <2>3, <2>4 DEF FrameExact, InTxn, Working, Opening, Deciding, Committing
<1>8. QED
    BY <1>4, <1>5, <1>6, <1>7

\* What the coordinator does with it.
LEMMA Stage1Moves ==
    ASSUME IsFrame(frame), GetStage1, NEW r, r = fut[<<1, "execute1", frame.off>>], NEW st,
           st = IF r.st \notin {"ok", "malformed"} THEN r.st ELSE IF Requested THEN Checked ELSE r.st
    PROVE  \/ st # "ok" /\ Throw(st)
           \/ /\ st = "ok" /\ UNCHANGED <<status, fut>>
              /\ frame'.txn = frame.txn /\ frame'.eval = frame.eval /\ frame'.extent = frame.extent
              /\ frame'.commit = r.value.commit /\ frame'.next = r.value.next
              /\ \/ /\ MoreRows /\ Verifying /\ frame.eval[NextOffset + 1] = r.value.next
                    /\ r.value.next \notin StopTokens
                    /\ pc' = "reconcile" /\ frame'.off = frame.off
                    /\ queue' = Submitted(To(1, Task("reconcile", frame.off)))
                 \/ MoreRows /\ Verifying /\ pc' = "lookahead" /\ frame'.off = frame.off /\ queue' = queue
                 \/ MoreRows /\ ~Verifying /\ pc' = "chunk" /\ frame'.off = NextOffset /\ queue' = queue
                 \/ ~MoreRows /\ pc' = "seal" /\ frame'.off = frame.off /\ queue' = queue
<1> DEFINE f == [frame EXCEPT !.commit = r.value.commit, !.next = r.value.next]
           accepted == frame.eval[NextOffset + 1] = r.value.next
           stop == r.value.next \in StopTokens
<1>1. IF st # "ok" THEN Throw(st)
      ELSE /\ IF MoreRows /\ Verifying
              THEN IF accepted /\ ~stop
                   THEN /\ pc' = "reconcile"
                        /\ queue' = Submitted(To(1, Task("reconcile", frame.off)))
                        /\ frame' = f
                   ELSE pc' = "lookahead" /\ frame' = f /\ UNCHANGED queue
              ELSE /\ pc' = IF MoreRows THEN "chunk" ELSE "seal"
                   /\ frame' = [f EXCEPT !.off = IF MoreRows THEN NextOffset ELSE @]
                   /\ UNCHANGED queue
           /\ UNCHANGED <<status, fut>>
    BY DEF GetStage1, Got
<1>2. /\ f.txn = frame.txn /\ f.eval = frame.eval /\ f.extent = frame.extent /\ f.off = frame.off
      /\ f.commit = r.value.commit /\ f.next = r.value.next
      /\ DOMAIN f = {"op", "arg", "eval", "off", "extent", "txn", "commit", "next"}
    BY FrameFields
<1> HIDE DEF f, accepted, stop
<1>3. CASE st # "ok"
    BY <1>1, <1>3
<1>4. CASE st = "ok" /\ MoreRows /\ Verifying
    BY <1>1, <1>2, <1>4 DEF accepted, stop
<1>5. CASE st = "ok" /\ ~(MoreRows /\ Verifying)
    <2> DEFINE x == IF MoreRows THEN NextOffset ELSE f.off
    <2>1. /\ frame' = [f EXCEPT !.off = x] /\ UNCHANGED <<status, fut, queue>>
          /\ pc' = IF MoreRows THEN "chunk" ELSE "seal"
        BY <1>1, <1>5
    <2> HIDE DEF x
    <2>2. /\ frame'.txn = f.txn /\ frame'.eval = f.eval /\ frame'.extent = f.extent /\ frame'.off = x
          /\ frame'.commit = f.commit /\ frame'.next = f.next
        BY <1>2, <2>1
    <2>3. QED
        BY <1>2, <1>5, <2>1, <2>2 DEF x
<1>6. QED
    BY <1>3, <1>4, <1>5

\* The rows when stage 1 has answered.
LEMMA RowsAnswered ==
    ASSUME NEW f, NEW g, NEW fu, NEW b0, NEW b1, NEW v, TakesAnswer(f, g, v), ChunkFits(f),
           f.extent = f.txn.evaluated,
           RowsCounted("stage1", f, fu, 0, b0), RowsCounted("stage1", f, fu, 1, b1),
           Arrived(fu, 1, "execute1", f.off)
    PROVE  /\ g.off = f.off =>
                \A at \in {"reconcile", "lookahead"} :
                    RowsCounted(at, g, fu, 0, b0) /\ RowsCounted(at, g, fu, 1, b1)
           /\ g.off = NextOf(f) /\ ~Answered(fu, 1, "execute1", NextOf(f)) =>
                RowsCounted("chunk", g, fu, 0, b0) /\ RowsCounted("chunk", g, fu, 1, b1)
           /\ NextOf(f) = f.txn.evaluated /\ ~Answered(fu, 0, "execute0", NextOf(f)) =>
                RowsCounted("seal", g, fu, 0, b0) /\ RowsCounted("seal", g, fu, 1, b1)
<1> DEFINE n == NextOf(f)
<1>0. g.txn = f.txn /\ g.eval = f.eval /\ g.extent = f.extent /\ f.txn.evaluated \in Nat
    BY DEF TakesAnswer, ChunkFits
<1> USE <1>0
<1>1. /\ \A m : ChunkLen(g, m) = ChunkLen(f, m)
      /\ \A b, m : Holds(b, g, m) <=> Holds(b, f, m)
    BY SameRows
<1>2. Holds(b1, f, n)
    BY DEF RowsCounted, Working, Opening, NextRun, ExecuteOf, NextOf
<1>3. /\ ~Answered(fu, 0, "execute0", n) => Holds(b0, f, n)
      /\ Arrived(fu, 0, "execute0", n) => Holds(b0, f, n + ChunkLen(f, n))
    BY DEF RowsCounted, Working, Opening, NextRun, ExecuteOf
<1>4. Answered(fu, 1, "execute1", f.off)
    BY DEF Arrived
<1>5. ASSUME g.off = f.off, NEW at \in {"reconcile", "lookahead"}
      PROVE  RowsCounted(at, g, fu, 0, b0) /\ RowsCounted(at, g, fu, 1, b1)
    <2>1. NextOf(g) = n
        BY <1>1, <1>5 DEF NextOf
    <2>2. NextRun(at, g, 0) = n /\ NextRun(at, g, 1) = f.off
        BY <1>5, <2>1 DEF NextRun
    <2>3. f.off + ChunkLen(f, f.off) = n
        BY DEF NextOf
    <2> HIDE DEF n
    <2>4. RowsCounted(at, g, fu, 0, b0)
        BY <1>1, <1>3, <1>5, <2>2 DEF RowsCounted, Working, Opening, Deciding, ExecuteOf
    <2>5. RowsCounted(at, g, fu, 1, b1)
        BY <1>1, <1>2, <1>4, <1>5, <2>1, <2>2, <2>3 DEF RowsCounted, Working, Opening, Deciding, ExecuteOf
    <2>6. QED
        BY <2>4, <2>5
<1>6. ASSUME g.off = n, ~Answered(fu, 1, "execute1", n)
      PROVE  RowsCounted("chunk", g, fu, 0, b0) /\ RowsCounted("chunk", g, fu, 1, b1)
    <2>1. NextRun("chunk", g, 0) = n /\ NextRun("chunk", g, 1) = n
        BY <1>6 DEF NextRun
    <2> HIDE DEF n
    <2>2. ~Arrived(fu, 1, "execute1", n)
        BY <1>6 DEF Arrived
    <2>3. RowsCounted("chunk", g, fu, 0, b0)
        BY <1>1, <1>3, <2>1 DEF RowsCounted, Working, Opening, Deciding, ExecuteOf
    <2>4. RowsCounted("chunk", g, fu, 1, b1)
        BY <1>1, <1>2, <2>1, <2>2 DEF RowsCounted, Working, Opening, Deciding, ExecuteOf
    <2>5. QED
        BY <2>3, <2>4
<1>7. ASSUME n = f.txn.evaluated, ~Answered(fu, 0, "execute0", n)
      PROVE  RowsCounted("seal", g, fu, 0, b0) /\ RowsCounted("seal", g, fu, 1, b1)
    <2>1. Extent(g, 0) = n /\ Extent(g, 1) = n
        BY <1>7 DEF Extent
    <2> HIDE DEF n
    <2>2. QED
        BY <1>1, <1>2, <1>3, <1>7, <2>1 DEF RowsCounted, Working, Opening, Deciding
<1>8. QED
    BY <1>5, <1>6, <1>7

\* Stage 1 has answered.
LEMMA Stage1Exact ==
    ASSUME InStep, ExactInStep, GetStage1
    PROVE  ExactInStep' /\ StatusExact'
<1> DEFINE f == frame
           n == NextOf(f)
           g == frame'
           ts == tokens
           fu == fut
           b0 == backend[0]
           b1 == backend[1]
           off == frame.off
           r == fut[<<1, "execute1", frame.off>>]
           st == IF r.st \notin {"ok", "malformed"} THEN r.st
                 ELSE IF Requested THEN Checked ELSE r.st
<1>0. /\ pc = "stage1" /\ pc \in Opening /\ Answered(fut, 1, "execute1", off)
      /\ UNCHANGED <<tokens, poisoned, backend, running>>
    BY DEF GetStage1, Opening, Ready, Answered, sessVars
<1>1. ~poisoned /\ pc \notin Outside /\ WorkersTypeOK /\ IsFrame(frame)
    BY <1>0, OpeningFacts, Healthy DEF RequestInStep
<1>2. r.st \in {"ok", "malformed"} \cup Endings /\ AnswerExact(pc, frame, tokens, "execute1", off, r)
    BY <1>0, <1>1, ExactFacts, AnswerIsExact
<1>3. /\ st = "ok" => r.st = "ok"
      /\ st \in {"ok", "malformed"} \cup Endings
    BY <1>2, SeenStatus
<1>4. CASE st # "ok"
    <2>1. Throw(st)
        BY <1>1, <1>4, Stage1Moves
    <2>2. st \in Endings \cup {"malformed"}
        BY <1>3, <1>4
    <2> HIDE DEF st
    <2>3. QED
        BY <1>0, <2>1, <2>2, ThrowExact
<1>5. CASE st = "ok"
    <2> DEFINE v == r.value
    <2>1. /\ UNCHANGED <<status, fut>>
          /\ g.txn = f.txn /\ g.eval = f.eval /\ g.extent = f.extent
          /\ g.commit = v.commit /\ g.next = v.next
          /\ \/ /\ MoreRows /\ Verifying /\ f.eval[NextOffset + 1] = v.next /\ v.next \notin StopTokens
                /\ pc' = "reconcile" /\ g.off = f.off
                /\ queue' = Submitted(To(1, Task("reconcile", f.off)))
             \/ MoreRows /\ Verifying /\ pc' = "lookahead" /\ g.off = f.off /\ queue' = queue
             \/ MoreRows /\ ~Verifying /\ pc' = "chunk" /\ g.off = NextOffset /\ queue' = queue
             \/ ~MoreRows /\ pc' = "seal" /\ g.off = f.off /\ queue' = queue
        BY <1>1, <1>5, Stage1Moves
    <2>2. r.st \in Values /\ IsAnswer(f, ts, f.off, v)
        BY <1>0, <1>2, <1>3, <1>5 DEF AnswerExact, Values
    <2>3. Arrived(fu, 1, "execute1", f.off)
        BY <1>0, <2>2 DEF Arrived
    <2>4. /\ f.txn.evaluated \in Nat \ {0} /\ f.off \in Nat
          /\ n \in (f.off + 1)..f.txn.evaluated /\ n \in Nat /\ n > f.off
          /\ f.txn.kind = "speculative" => n = f.off + 1
        BY <1>0, OpeningFacts, FrameFacts
    <2>5. /\ FrameExact("stage1", f, ts) /\ RowsCounted("stage1", f, fu, 0, b0)
          /\ RowsCounted("stage1", f, fu, 1, b1)
        BY <1>0, <1>1, ExactFacts
    <2>6. f.extent = f.txn.evaluated
        BY <2>5 DEF FrameExact, Working, Opening
    <2>7. NextOffset = n /\ (MoreRows <=> n < f.txn.evaluated) /\ (Verifying <=> f.txn.kind = "speculative")
        BY <1>0, OpeningFacts DEF Verifying
    <2>8. ~Answered(fu, 1, "execute1", n)
        <3>1. ~AnswerInStep(pc, frame, "execute1", n)
            BY <1>0, <2>4 DEF AnswerInStep, Opening
        <3>2. QED
            BY <1>0, <3>1, OpeningFacts, NotAnswered
    <2>9. ~MoreRows => n = f.txn.evaluated /\ ~Answered(fu, 0, "execute0", n)
        <3>1. SUFFICES ASSUME ~MoreRows, Answered(fu, 0, "execute0", n) PROVE n < f.txn.evaluated
            BY <2>4, <2>7
        <3>2. AnswerExact(pc, frame, tokens, "execute0", n, fut[<<0, "execute0", n>>])
            BY <1>0, <1>1, <3>1, ExactFacts, AnswerIsExact
        <3>3. QED
            BY <1>0, <3>2 DEF AnswerExact
    <2>a. TakesAnswer(f, g, v) /\ ChunkFits(f)
        BY <2>1, <2>4 DEF TakesAnswer, ChunkFits
    <2> HIDE DEF r, st, v, n
    <2>10. /\ /\ n < f.txn.evaluated /\ f.txn.kind = "speculative" /\ g.off = f.off
              /\ f.eval[n + 1] = v.next /\ v.next \notin StopTokens
              => FrameExact("reconcile", g, ts)
           /\ n < f.txn.evaluated /\ f.txn.kind = "speculative" /\ g.off = f.off
              => FrameExact("lookahead", g, ts)
           /\ f.txn.kind # "speculative" => FrameExact("chunk", g, ts)
           /\ n = f.txn.evaluated => FrameExact("seal", g, ts)
        <3> HIDE DEF f, g, ts
        <3>1. QED
            BY <2>2, <2>5, <2>a, FrameAnswered DEF n
    <2>11. /\ g.off = f.off =>
                \A at \in {"reconcile", "lookahead"} :
                    RowsCounted(at, g, fu, 0, b0) /\ RowsCounted(at, g, fu, 1, b1)
           /\ g.off = n => RowsCounted("chunk", g, fu, 0, b0) /\ RowsCounted("chunk", g, fu, 1, b1)
           /\ ~MoreRows => RowsCounted("seal", g, fu, 0, b0) /\ RowsCounted("seal", g, fu, 1, b1)
        <3> HIDE DEF f, g, fu, b0, b1
        <3>1. QED
            BY <2>3, <2>5, <2>6, <2>8, <2>9, <2>a, RowsAnswered DEF n
    <2>12. FrameExact(pc', g, ts) /\ RowsCounted(pc', g, fu, 0, b0) /\ RowsCounted(pc', g, fu, 1, b1)
        <3> HIDE DEF f, g, fu, b0, b1, ts
        <3>1. QED
            BY <2>1, <2>7, <2>9, <2>10, <2>11
    <2>13. TasksMade(0) /\ TasksMade(1)
        <3>1. queue' = queue => TasksMade(0) /\ TasksMade(1)
            BY DEF TasksMade
        <3>2. CASE queue' = Submitted(To(1, Task("reconcile", f.off))) /\ pc' = "reconcile"
            <4> DEFINE t == Task("reconcile", f.off)
            <4>1. TaskExact(f, ts, t)
                BY DEF TaskExact, Task
            <4>2. queue[1] = <<>>
                <5>1. \A c, m : PlainCall(pc, frame, 1, c, m) => c = "execute1" /\ m = off
                    BY <1>0 DEF PlainCall
                <5>2. QED
                    BY <1>0, <1>1, <5>1, OpeningFacts, StageDone DEF Stages
            <4> HIDE DEF t
            <4>3. queue'[0] = queue[0] /\ queue'[1] = queue[1] \o <<t>>
                BY <1>1, <3>2, Submits DEF t
            <4>4. TasksMade(1)
                BY <4>1, <4>2, <4>3, GivenTask
            <4>5. TasksMade(0)
                BY <4>3 DEF TasksMade
            <4>6. QED
                BY <4>4, <4>5
        <3>3. QED
            BY <2>1, <3>1, <3>2
    <2>14. StatusExact'
        BY <2>1 DEF StatusExact, RollingBack
    <2>15. ExactInStep'
        BY <1>0, <1>1, <2>1, <2>12, <2>13, MoveExact
    <2>16. QED
        BY <2>14, <2>15
<1>6. QED
    BY <1>4, <1>5

\* The accepted row is reconciled: verification goes on behind it.
LEMMA ReconcileExact ==
    ASSUME InStep, ExactInStep, GetReconcile
    PROVE  ExactInStep' /\ StatusExact'
<1> DEFINE f == frame
           g == frame'
           n == NextOf(f)
           r == fut[<<1, "reconcile", f.off>>]
<1>0. /\ pc = "reconcile" /\ pc \in Opening /\ Answered(fut, 1, "reconcile", f.off)
      /\ UNCHANGED <<tokens, poisoned, backend, running>>
    BY DEF GetReconcile, Opening, Ready, Answered, sessVars
<1>1. ~poisoned /\ pc \notin Outside /\ WorkersTypeOK /\ IsFrame(frame) /\ NextOffset = n
    BY <1>0, OpeningFacts, Healthy DEF RequestInStep
<1>2. r.st \in {"ok", "malformed"} \cup Endings
    BY <1>0, <1>1, ExactFacts, AnswerIsExact
<1>3. CASE r.st # "ok"
    <2>1. r.st \in Endings \cup {"malformed"} /\ Throw(r.st)
        BY <1>2, <1>3 DEF GetReconcile, Got
    <2> HIDE DEF r
    <2>2. QED
        BY <1>0, <2>1, ThrowExact
<1>4. CASE r.st = "ok"
    <2>1. /\ frame' = [frame EXCEPT !.off = n] /\ pc' = "chunk" /\ UNCHANGED <<status, queue, fut>>
        BY <1>1, <1>4 DEF GetReconcile, Got
    <2>2. g.off = n /\ g.txn = f.txn /\ g.eval = f.eval /\ g.extent = f.extent
        BY <1>1, <2>1, FrameFields
    <2>3. FrameExact("reconcile", f, tokens)
        BY <1>0, <1>1, ExactFacts
    <2>4. /\ \A m : ChunkLen(g, m) = ChunkLen(f, m)
          /\ \A b, m : Holds(b, g, m) <=> Holds(b, f, m)
          /\ \A m : Verified(g, tokens, m) <=> Verified(f, tokens, m)
          /\ \A m : NoStops(g, m) <=> NoStops(f, m)
        BY <2>2, SameRows
    <2>5. ~Answered(fut, 1, "execute1", n)
        <3>1. ~AnswerInStep(pc, frame, "execute1", n)
            BY <1>0, OpeningFacts DEF AnswerInStep, Opening
        <3>2. QED
            BY <1>0, <3>1, OpeningFacts, NotAnswered
    <2>6. RowsCounted("reconcile", f, fut, 0, backend[0]) /\ RowsCounted("reconcile", f, fut, 1, backend[1])
        BY <1>0, <1>1, ExactFacts
    <2> HIDE DEF g, n, f
    <2>7. FrameExact("chunk", g, tokens)
        BY <2>2, <2>3, <2>4 DEF FrameExact, InTxn, Working, Opening, Deciding, Committing, n
    <2>8. RowsCounted("chunk", g, fut, 0, backend[0])
        <3>1. /\ ~Answered(fut, 0, "execute0", n) => Holds(backend[0], f, n)
              /\ Arrived(fut, 0, "execute0", n) => Holds(backend[0], f, n + ChunkLen(f, n))
            BY <2>6 DEF RowsCounted, Working, Opening, NextRun, ExecuteOf, n
        <3>2. NextRun("chunk", g, 0) = n
            BY <2>2 DEF NextRun
        <3>3. QED
            BY <2>4, <3>1, <3>2 DEF RowsCounted, Working, Opening, Deciding, ExecuteOf
    <2>9. RowsCounted("chunk", g, fut, 1, backend[1])
        <3>1. Holds(backend[1], f, n)
            BY <2>6 DEF RowsCounted, n
        <3>2. NextRun("chunk", g, 1) = n
            BY <2>2 DEF NextRun
        <3>3. ~Arrived(fut, 1, "execute1", n)
            BY <2>5 DEF Arrived
        <3>4. QED
            BY <2>4, <3>1, <3>2, <3>3 DEF RowsCounted, Working, Opening, Deciding, ExecuteOf
    <2>10. TasksMade(0) /\ TasksMade(1)
        BY <2>1 DEF TasksMade
    <2>11. StatusExact'
        BY <2>1 DEF StatusExact, RollingBack
    <2>12. ExactInStep'
        BY <1>0, <1>1, <2>1, <2>2, <2>7, <2>8, <2>9, <2>10, MoveExact DEF f, g
    <2>13. QED
        BY <2>11, <2>12
<1>5. QED
    BY <1>3, <1>4

\* The row stage 0 was ahead by is there: the extent shrinks to what is verified.
LEMMA LookaheadExact ==
    ASSUME InStep, ExactInStep, GetLookahead
    PROVE  ExactInStep' /\ StatusExact'
<1> DEFINE f == frame
           g == frame'
           n == NextOf(f)
           r == fut[<<0, "execute0", n>>]
<1>0. /\ pc = "lookahead" /\ pc \in Opening /\ Answered(fut, 0, "execute0", n)
      /\ UNCHANGED <<tokens, poisoned, backend, running>>
    BY DEF GetLookahead, Opening, Ready, Answered, sessVars, NextOffset, NextOf
<1>1. ~poisoned /\ pc \notin Outside /\ WorkersTypeOK /\ IsFrame(frame) /\ NextOffset = n
    BY <1>0, OpeningFacts, Healthy DEF RequestInStep
<1>2. r.st \in {"ok", "malformed"} \cup Endings
    BY <1>0, <1>1, ExactFacts, AnswerIsExact
<1>3. CASE r.st \notin {"ok", "malformed"}
    <2>1. r.st \in Endings \cup {"malformed"} /\ Throw(r.st)
        BY <1>1, <1>2, <1>3 DEF GetLookahead, Got
    <2> HIDE DEF r
    <2>2. QED
        BY <1>0, <2>1, ThrowExact
<1>4. CASE r.st \in {"ok", "malformed"}
    <2>1. /\ frame' = [frame EXCEPT !.extent = n, !.commit = n] /\ pc' = "seal"
          /\ UNCHANGED <<status, queue, fut>>
        BY <1>1, <1>4 DEF GetLookahead, Got
    <2>2. /\ g.off = f.off /\ g.txn = f.txn /\ g.eval = f.eval /\ g.next = f.next
          /\ g.extent = n /\ g.commit = n
        BY <1>1, <2>1, FrameFields
    <2>3. FrameExact("lookahead", f, tokens)
        BY <1>0, <1>1, ExactFacts
    <2>4. /\ \A m : Given(g, tokens, m) = Given(f, tokens, m)
          /\ \A b, m : Holds(b, g, m) <=> Holds(b, f, m)
          /\ \A m : Verified(g, tokens, m) <=> Verified(f, tokens, m)
          /\ \A m : NoStops(g, m) <=> NoStops(f, m)
        BY <2>2, SameRows
    <2>5. /\ f.txn.kind = "speculative" /\ f.next = Greedy(Given(f, tokens, n))
          /\ Verified(f, tokens, f.off) /\ NoStops(f, f.off)
          /\ f.txn.base_canonical = Len(tokens)
        BY <2>3 DEF FrameExact, InTxn, Working, Opening
    <2>6. /\ n = f.off + 1 /\ f.off \in Nat /\ n < f.txn.evaluated /\ f.txn.evaluated \in Nat
          /\ ChunkLen(f, n) = 1
        <3>1. f.off \in Nat /\ f.txn.evaluated \in Nat /\ n \in (f.off + 1)..f.txn.evaluated
            BY <1>0, OpeningFacts
        <3>2. n < f.txn.evaluated
            BY <1>0, OpeningFacts DEF FrameInStep
        <3>3. n = f.off + 1
            BY <1>0, <2>5, OpeningFacts, FrameFacts
        <3>4. n \in 0..(f.txn.evaluated - 1)
            BY <3>1, <3>2
        <3> HIDE DEF n, f
        <3>5. ChunkLen(f, n) = 1
            BY <2>5, <3>1, <3>4, ChunkFacts
        <3>6. QED
            BY <3>1, <3>2, <3>3, <3>5
    <2>7. RowsCounted("lookahead", f, fut, 0, backend[0]) /\ RowsCounted("lookahead", f, fut, 1, backend[1])
        BY <1>0, <1>1, ExactFacts
    <2>8. Arrived(fut, 0, "execute0", n)
        BY <1>0, <1>4 DEF Arrived, Values
    <2> HIDE DEF g, n, f
    <2>9. FrameExact("seal", g, tokens)
        <3>1. CommitOf(g) = n
            BY <2>2, <2>5 DEF CommitOf
        <3>2. n \in 1..f.txn.evaluated /\ n \in 1..n /\ n - 1 = f.off
            BY <2>6
        <3>3. /\ g.next = Greedy(Given(g, tokens, CommitOf(g)))
              /\ Verified(g, tokens, n - 1) /\ NoStops(g, n - 1)
            BY <2>2, <2>4, <2>5, <3>1, <3>2
        <3>4. f.txn.kind # "decode"
            BY <2>5
        <3>5. QED
            BY <2>2, <2>5, <3>2, <3>3, <3>4 DEF FrameExact, InTxn, Working, Opening, Deciding, Committing
    <2>10. RowsCounted("seal", g, fut, 0, backend[0])
        <3>1. Holds(backend[0], f, n + ChunkLen(f, n))
            BY <2>7, <2>8 DEF RowsCounted, Working, Opening, NextRun, ExecuteOf, n
        <3>2. Extent(g, 0) = n + ChunkLen(f, n)
            BY <2>2, <2>6 DEF Extent
        <3>3. QED
            BY <2>4, <3>1, <3>2 DEF RowsCounted, Working, Opening, Deciding
    <2>11. RowsCounted("seal", g, fut, 1, backend[1])
        <3>1. Holds(backend[1], f, n)
            BY <2>7 DEF RowsCounted, n
        <3>2. Extent(g, 1) = n
            BY <2>2 DEF Extent
        <3>3. QED
            BY <2>4, <3>1, <3>2 DEF RowsCounted, Working, Opening, Deciding
    <2>12. TasksMade(0) /\ TasksMade(1)
        BY <2>1 DEF TasksMade
    <2>13. StatusExact'
        BY <2>1 DEF StatusExact, RollingBack
    <2>14. ExactInStep'
        BY <1>0, <1>1, <2>1, <2>2, <2>9, <2>10, <2>11, <2>12, MoveExact DEF f, g
    <2>15. QED
        BY <2>13, <2>14
<1>5. QED
    BY <1>3, <1>4

\* The first stop token among the verified rows ends the transaction.
LEMMA TruncatedExact ==
    ASSUME NEW f, NEW ts, IsFrame(f), FrameExact("seal", f, ts), f.txn.evaluated \in Nat
    PROVE  FrameExact("ack0", Truncated(f), ts) /\ Truncated(f).extent = f.extent
<1> DEFINE g == Truncated(f)
           spec == f.txn.kind = "speculative"
           T == StopsAt(f)
<1>1. /\ f.txn.base_canonical = Len(ts) /\ (f.txn.kind = "decode" => f.txn.evaluated = 1)
      /\ f.next = Greedy(Given(f, ts, CommitOf(f)))
      /\ f.extent \in 1..f.txn.evaluated
      /\ spec => /\ f.commit \in 1..f.extent /\ Verified(f, ts, f.commit - 1)
                 /\ f.extent < f.txn.evaluated => f.commit = f.extent /\ NoStops(f, f.commit - 1)
      /\ ~spec => f.extent = f.txn.evaluated
    BY DEF FrameExact, InTxn, Working, Opening, Deciding
<1>2. CASE ~spec \/ T = {}
    <2>1. g = f
        BY <1>2 DEF Truncated
    <2>2. spec => NoStops(f, f.commit - 1)
        BY <1>2 DEF NoStops, StopsAt
    <2>3. FrameExact("ack0", f, ts)
        BY <1>1, <2>2 DEF FrameExact, InTxn, Working, Opening, Deciding
    <2>4. QED
        BY <2>1, <2>3
<1>3. CASE spec /\ T # {}
    <2> DEFINE i == CHOOSE j \in T : \A k \in T : j <= k
    <2>1. T \subseteq Nat
        BY DEF StopsAt
    <2>2. \E j \in T : \A k \in T : j <= k
        BY <1>3, <2>1, LeastExists
    <2>3. i \in T /\ \A k \in T : i <= k
        BY <2>2
    <2>4. g = [f EXCEPT !.commit = i, !.next = f.eval[i + 1]]
        BY <1>3 DEF Truncated
    <2> HIDE DEF i
    <2>5. i \in 1..(f.commit - 1) /\ f.eval[i + 1] \in StopTokens
        BY <2>3 DEF StopsAt
    <2>6. /\ g.commit = i /\ g.next = f.eval[i + 1] /\ g.extent = f.extent /\ g.txn = f.txn /\ g.eval = f.eval
        BY <2>4, FrameFields
    <2>7. f.commit \in Nat /\ f.extent \in Nat /\ i \in Nat /\ i \in 1..f.extent
        BY <1>1, <1>3, <2>5
    <2>8. f.extent = f.txn.evaluated
        <3>1. NoStops(f, f.commit - 1) => FALSE
            BY <2>5 DEF NoStops
        <3>2. QED
            BY <1>1, <1>3, <3>1, <2>7
    <2>9. Verified(f, ts, i) /\ Verified(f, ts, i - 1) /\ f.eval[i + 1] = Greedy(Given(f, ts, i))
        <3>1. \A j \in 1..i : j \in 1..(f.commit - 1)
            BY <2>5, <2>7
        <3>2. \A j \in 1..(i - 1) : j \in 1..(f.commit - 1)
            BY <2>5, <2>7
        <3>3. i \in 1..i
            BY <2>5, <2>7
        <3>4. \A j \in 1..(f.commit - 1) : f.eval[j + 1] = Greedy(Given(f, ts, j))
            BY <1>1, <1>3 DEF Verified
        <3>5. Verified(f, ts, i)
            BY <3>1, <3>4 DEF Verified
        <3>6. Verified(f, ts, i - 1)
            BY <3>2, <3>4 DEF Verified
        <3>7. QED
            BY <3>1, <3>3, <3>4, <3>5, <3>6
    <2>10. NoStops(f, i - 1)
        <3>1. ASSUME NEW j \in 1..(i - 1), f.eval[j + 1] \in StopTokens PROVE FALSE
            <4>1. j \in 1..(f.commit - 1) /\ j < i
                BY <2>5, <2>7, <3>1
            <4>2. j \in T
                BY <3>1, <4>1 DEF StopsAt
            <4>3. QED
                BY <2>3, <2>7, <4>1, <4>2
        <3>2. QED
            BY <3>1 DEF NoStops
    <2>11. /\ \A m : Given(g, ts, m) = Given(f, ts, m)
           /\ \A m : Verified(g, ts, m) <=> Verified(f, ts, m)
           /\ \A m : NoStops(g, m) <=> NoStops(f, m)
        BY <2>6, SameRows
    <2>12. CommitOf(g) = i
        BY <1>3, <2>6 DEF CommitOf
    <2> HIDE DEF g
    <2>13. g.next = Greedy(Given(g, ts, CommitOf(g)))
        BY <2>6, <2>9, <2>11, <2>12
    <2>14. FrameExact("ack0", g, ts)
        BY <1>1, <1>3, <2>6, <2>7, <2>8, <2>9, <2>10, <2>11, <2>13
           DEF FrameExact, InTxn, Working, Opening, Deciding, Committing
    <2>15. QED
        BY <2>6, <2>14 DEF g
<1>4. QED
    BY <1>2, <1>3

\* The commit point.
LEMMA SealExact ==
    ASSUME InStep, ExactInStep, SealTransaction
    PROVE  ExactInStep' /\ StatusExact'
<1> DEFINE f == frame
           g == frame'
<1>0. /\ pc = "seal" /\ pc \in Opening
      /\ UNCHANGED <<tokens, poisoned, backend, running>>
    BY DEF SealTransaction, Opening, sessVars
<1>1. ~poisoned /\ pc \notin Outside /\ IsFrame(frame) /\ f.txn.evaluated \in Nat
    BY <1>0, OpeningFacts, Healthy DEF RequestInStep
<1>2. CASE Requested
    <2>1. Checked \in Endings \cup {"malformed"} /\ Throw(Checked)
        BY <1>2 DEF SealTransaction, Requested, Endings
    <2>2. QED
        BY <1>0, <2>1, ThrowExact
<1>3. CASE ~Requested
    <2>1. g = Truncated(f) /\ pc' = "ack0" /\ UNCHANGED <<status, queue, fut>>
        BY <1>3 DEF SealTransaction
    <2>2. /\ FrameExact("seal", f, tokens) /\ RowsCounted("seal", f, fut, 0, backend[0])
          /\ RowsCounted("seal", f, fut, 1, backend[1])
        BY <1>0, <1>1, ExactFacts
    <2>3. g.txn = f.txn /\ g.eval = f.eval /\ g.extent = f.extent /\ FrameExact("ack0", g, tokens)
        BY <1>1, <2>1, <2>2, TruncatedFacts, TruncatedExact
    <2>4. \A b, m : Holds(b, g, m) <=> Holds(b, f, m)
        BY <2>3, SameRows
    <2>5. \A s : Extent(g, s) = Extent(f, s)
        BY <2>3 DEF Extent
    <2> HIDE DEF g, f
    <2>6. \A s, b : RowsCounted("seal", f, fut, s, b) => RowsCounted("ack0", g, fut, s, b)
        BY <2>4, <2>5 DEF RowsCounted, Working, Opening, Deciding
    <2>7. StatusExact'
        BY <2>1 DEF StatusExact, RollingBack
    <2>8. pc' \notin Opening
        BY <2>1 DEF Opening
    <2>9. ExactInStep'
        BY <1>0, <1>1, <2>1, <2>2, <2>3, <2>6, <2>8, MoveExact DEF f, g
    <2>10. QED
        BY <2>7, <2>9
<1>4. QED
    BY <1>2, <1>3

\* Past it nothing about a transaction changes until its end.
LEMMA KeepExact ==
    ASSUME ExactInStep, ~poisoned, UNCHANGED <<tokens, poisoned, backend, running, frame, fut>>,
           pc \notin Opening, pc' \notin Opening, FrameExact(pc', frame, tokens),
           RowsCounted(pc', frame, fut, 0, backend[0]), RowsCounted(pc', frame, fut, 1, backend[1])
    PROVE  ExactInStep'
<1>1. AnswersExact(pc', frame, tokens, fut)
    BY ExactFacts, AnswersKept
<1>2. ASSUME NEW s \in Stages PROVE StageExact(s)'
    <2>1. TasksExact(pc', frame', tokens', running'[s], queue'[s])
        BY DEF TasksExact
    <2>2. RowsCounted(pc', frame', fut', s, backend'[s])
        BY DEF Stages
    <2>3. QED
        BY <2>1, <2>2 DEF StageExact
<1>3. FrameExact(pc, frame, tokens)' /\ AnswersExact(pc, frame, tokens, fut)'
    BY <1>1
<1>4. QED
    BY <1>2, <1>3 DEF ExactInStep

\* The stages acknowledge, the engine decides and commits.
LEMMA DecideExact ==
    ASSUME InStep, ExactInStep, UNCHANGED <<tokens, poisoned, backend, running, frame, fut>>,
           pc \in Deciding \ {"seal"}, pc' \in (Deciding \ {"seal"}) \cup {"commit0"}
    PROVE  ExactInStep' /\ StatusExact'
<1>1. pc \notin Outside \cup Opening /\ pc' \notin Outside \cup Opening \cup RollingBack
    BY DEF Deciding, Outside, Opening, RollingBack
<1>2. ~poisoned
    BY <1>1, Healthy
<1>3. FrameExact(pc', frame, tokens)
    BY <1>2, ExactFacts DEF FrameExact, InTxn, Working, Opening, Deciding, Committing
<1>4. \A s, b : RowsCounted(pc, frame, fut, s, b) => RowsCounted(pc', frame, fut, s, b)
    BY DEF RowsCounted, Working, Opening, Deciding
<1>5. StatusExact'
    BY <1>1 DEF StatusExact, Outside
<1>6. QED
    BY <1>1, <1>2, <1>3, <1>4, <1>5, ExactFacts, KeepExact

\* Stage 0 has closed the transaction.
LEMMA HalfExact ==
    ASSUME InStep, ExactInStep, StatusExact, UNCHANGED <<tokens, poisoned, backend, running, frame, fut, status>>,
           (pc = "commit0" /\ pc' = "commit1") \/ (pc = "rollback0" /\ pc' = "rollback1")
    PROVE  ExactInStep' /\ StatusExact'
<1>1. pc \notin Outside \cup Opening /\ pc' \notin Outside \cup Opening
    BY DEF Outside, Opening
<1>2. ~poisoned
    BY <1>1, Healthy
<1>3. FrameExact(pc', frame, tokens)
    BY <1>2, ExactFacts DEF FrameExact, InTxn, Working, Opening, Deciding, Committing, RollingBack
<1>4. \A s, b : RowsCounted(pc, frame, fut, s, b) => RowsCounted(pc', frame, fut, s, b)
    BY DEF RowsCounted, Working, Opening, Deciding
<1>5. StatusExact'
    BY DEF StatusExact, RollingBack
<1>6. QED
    BY <1>1, <1>2, <1>3, <1>4, <1>5, ExactFacts, KeepExact

\* A request is over.
LEMMA EndExact ==
    ASSUME NEW st \in Endings \cup {"ok"}, End(st)
    PROVE  ExactInStep' /\ StatusExact'
<1>1. pc' = "idle" /\ fut' = <<>> /\ status' = st
    BY DEF End
<1>2. StatusExact'
    BY <1>1 DEF StatusExact, RollingBack
<1>3. DOMAIN fut' = {}
    BY <1>1
<1>4. AnswersExact(pc, frame, tokens, fut)'
    BY <1>3 DEF AnswersExact
<1>5. FrameExact(pc, frame, tokens)'
    BY <1>1 DEF FrameExact, InTxn, Working, Opening, Deciding, Committing, RollingBack
<1>6. ASSUME NEW s \in Stages PROVE StageExact(s)'
    <2>1. TasksExact(pc', frame', tokens', running'[s], queue'[s])
        BY <1>1 DEF TasksExact, Opening
    <2>2. RowsCounted(pc', frame', fut', s, backend'[s])
        BY <1>1 DEF RowsCounted, Working, Opening, Deciding
    <2>3. QED
        BY <2>1, <2>2 DEF StageExact
<1>7. QED
    BY <1>2, <1>4, <1>5, <1>6 DEF ExactInStep

\* A failed executor has nothing left to keep.
LEMMA PoisonedExact ==
    ASSUME poisoned'
    PROVE  ExactInStep'
    BY DEF ExactInStep

\* A draft replaces the rows behind the pending token, which nobody has seen yet.
LEMMA RowsBeforeDraft ==
    ASSUME NEW f, NEW g, NEW ts, g.txn = f.txn, IsSeq(f.eval), IsSeq(g.eval),
           Len(f.eval) >= 1, Len(g.eval) >= 1, g.eval[1] = f.eval[1], ChunkLen(f, 0) = 1
    PROVE  /\ Boundary(g, ts, 0) = Boundary(f, ts, 0) /\ ChunkLen(g, 0) = 1
           /\ \A b, n : Holds(b, g, n) <=> Holds(b, f, n)
<1>1. ChunkLen(g, 0) = 1
    BY DEF ChunkLen
<1>2. SubSeq(g.eval, 1, 1) = SubSeq(f.eval, 1, 1)
    BY FirstOnly
<1>3. 0 + ChunkLen(g, 0) = 1 /\ 0 + ChunkLen(f, 0) = 1
    BY <1>1
<1>4. Given(g, ts, 1) = Given(f, ts, 1)
    BY <1>2 DEF Given
<1>5. Boundary(g, ts, 0) = Boundary(f, ts, 0)
    BY <1>1, <1>3, <1>4 DEF Boundary
<1>6. \A b, n : Holds(b, g, n) <=> Holds(b, f, n)
    BY DEF Holds
<1>7. QED
    BY <1>1, <1>5, <1>6

\* What the draft makes of the frame.
LEMMA DraftMoves ==
    ASSUME InStep, ExactInStep, GetDraft, NEW r, r = fut[<<1, "draft", Len(frame.eval) - 1>>], r.st = "ok"
    PROVE  /\ queue' = queue /\ pc' = "chunk" /\ UNCHANGED <<status, fut>>
           /\ frame'.off = 0 /\ frame'.txn = frame.txn /\ frame'.extent = frame.extent
           /\ IsSeq(frame.eval) /\ IsSeq(frame'.eval)
           /\ Len(frame.eval) >= 1 /\ Len(frame'.eval) >= 1 /\ frame'.eval[1] = frame.eval[1]
           /\ frame.off = 0 /\ ChunkLen(frame, 0) = 1
<1> DEFINE w == Len(frame.eval) - 1
<1>0. /\ pc = "draft" /\ pc \in Opening /\ Answered(fut, 1, "draft", w)
    BY DEF GetDraft, Opening, Ready, Answered
<1>1. /\ IsFrame(frame) /\ EvalInStep(frame, tokens) /\ frame.off = 0
      /\ frame.txn.kind = "speculative" /\ AnswersInStep(pc, frame, fut)
    BY <1>0, OpeningFacts DEF RequestInStep, FrameInStep
<1>2. /\ frame' = [frame EXCEPT !.eval = <<@[1]>> \o r.value]
      /\ queue' = queue /\ pc' = "chunk" /\ UNCHANGED <<status, fut>>
    BY DEF GetDraft, Got
<1>3. /\ frame'.op = frame.op /\ frame'.arg = frame.arg /\ frame'.extent = frame.extent
      /\ frame'.off = frame.off /\ frame'.txn = frame.txn
      /\ frame'.eval = <<frame.eval[1]>> \o r.value
    BY <1>1, <1>2, FrameFields
<1>4. r.value \in [1..(Len(frame.eval) - 1) -> Vocab]
    <2> DEFINE k == <<1, "draft", w>>
    <2>1. k \in DOMAIN fut /\ fut[k] = r /\ k[2] = "draft" /\ k[3] = w
        BY <1>0 DEF Answered
    <2>2. fut[k].value \in [1..k[3] -> Vocab]
        BY <1>1, <2>1 DEF AnswersInStep
    <2>3. QED
        BY <2>1, <2>2
<1>5. frame.op # "append"
    BY <1>1 DEF EvalInStep
<1> HIDE DEF w
<1>6. EvalInStep(frame', tokens) /\ frame'.eval[1] = frame.eval[1] /\ Len(frame'.eval) = Len(frame.eval)
    <2> DEFINE v == r.value
               g == frame'
    <2>1. /\ EvalInStep(frame, tokens) /\ frame.op # "append" /\ v \in [1..(Len(frame.eval) - 1) -> Vocab]
          /\ g.op = frame.op /\ g.arg = frame.arg /\ g.txn = frame.txn /\ g.off = frame.off
          /\ g.eval = <<frame.eval[1]>> \o v
        BY <1>1, <1>3, <1>4, <1>5
    <2> HIDE DEF v, g
    <2>2. EvalInStep(g, tokens)
        BY <2>1, DraftFacts
    <2>3. g.eval[1] = frame.eval[1]
        BY <2>1, DraftFacts
    <2>4. Len(g.eval) = Len(frame.eval)
        BY <2>1, DraftFacts, ZenonT(30)
    <2>5. QED
        BY <2>2, <2>3, <2>4 DEF g
<1>7. /\ IsSeq(frame.eval) /\ IsSeq(frame'.eval) /\ Len(frame.eval) = frame.txn.evaluated
    BY <1>1, <1>6 DEF EvalInStep
<1>8. frame.txn.evaluated \in Nat /\ frame.off \in 0..(frame.txn.evaluated - 1)
    BY <1>0, OpeningFacts
<1>9. ChunkLen(frame, 0) = 1
    BY <1>1, <1>8, ChunkFacts
<1>10. frame.txn.evaluated >= 1
    BY <1>1, <1>8
<1>11. Len(frame.eval) >= 1 /\ Len(frame'.eval) >= 1
    BY <1>6, <1>7, <1>10
<1>12. QED
    BY <1>1, <1>2, <1>3, <1>6, <1>7, <1>9, <1>11

\* The draft's tokens become rows of the transaction.
LEMMA DraftExact ==
    ASSUME InStep, ExactInStep, GetDraft
    PROVE  ExactInStep' /\ StatusExact'
<1> DEFINE f == frame
           g == frame'
           r == fut[<<1, "draft", Len(frame.eval) - 1>>]
<1>0. /\ pc = "draft" /\ pc \in Opening /\ Answered(fut, 1, "draft", Len(frame.eval) - 1)
      /\ UNCHANGED <<tokens, poisoned, backend, running>>
    BY DEF GetDraft, Opening, Ready, Answered, sessVars
<1>1. ~poisoned /\ pc \notin Outside /\ WorkersTypeOK /\ IsFrame(frame) /\ AnswersInStep(pc, frame, fut)
    BY <1>0, OpeningFacts, Healthy DEF RequestInStep
<1>2. r.st \in {"ok", "malformed"} \cup Endings
    BY <1>0, <1>1, ExactFacts, AnswerIsExact
<1>3. CASE r.st # "ok"
    <2>1. r.st \in Endings \cup {"malformed"} /\ Throw(r.st)
        BY <1>2, <1>3 DEF GetDraft, Got
    <2> HIDE DEF r
    <2>2. QED
        BY <1>0, <2>1, ThrowExact
<1>4. CASE r.st = "ok"
    <2>1. /\ queue' = queue /\ pc' = "chunk" /\ UNCHANGED <<status, fut>>
          /\ g.off = 0 /\ g.txn = f.txn /\ g.extent = f.extent
          /\ IsSeq(f.eval) /\ IsSeq(g.eval) /\ Len(f.eval) >= 1 /\ Len(g.eval) >= 1
          /\ g.eval[1] = f.eval[1] /\ f.off = 0 /\ ChunkLen(f, 0) = 1
        BY <1>4, DraftMoves
    <2>2. FrameExact("draft", f, tokens) /\ AnswersExact("draft", f, tokens, fut)
        BY <1>0, <1>1, ExactFacts
    <2>3. AnswersInStep("draft", f, fut)
        BY <1>0, <1>1
    <2>4. \A s \in Stages : RowsCounted("draft", f, fut, s, backend[s])
        BY <1>0, <1>1, ExactFacts DEF Stages
    <2> HIDE DEF f, g
    <2>5. /\ Boundary(g, tokens, 0) = Boundary(f, tokens, 0) /\ ChunkLen(g, 0) = 1
          /\ \A b, n : Holds(b, g, n) <=> Holds(b, f, n)
        BY <2>1, RowsBeforeDraft
    <2>6. FrameExact("chunk", g, tokens)
        <3>1. Verified(g, tokens, 0) /\ NoStops(g, 0)
            BY DEF Verified, NoStops
        <3>2. QED
            BY <2>1, <2>2, <3>1 DEF FrameExact, InTxn, Working, Opening, Deciding, Committing
    <2>7. AnswersExact("chunk", g, tokens, fut)
        <3>1. ASSUME NEW k \in DOMAIN fut PROVE AnswerExact("chunk", g, tokens, k[2], k[3], fut[k])
            <4>1. AnswerExact("draft", f, tokens, k[2], k[3], fut[k])
                BY <2>2 DEF AnswersExact
            <4>2. AnswerInStep("draft", f, k[2], k[3])
                BY <2>3 DEF AnswersInStep
            <4>3. k[2] = "execute0" => k[3] = 0
                <5>1. k[2] = "execute0" => k[3] \in Nat /\ k[3] <= f.off
                    BY <4>2 DEF AnswerInStep, Opening
                <5>2. QED
                    BY <2>1, <5>1
            <4>4. k[2] # "execute1"
                <5>1. k[2] = "execute1" => k[3] \in Nat /\ k[3] < f.off
                    BY <4>2 DEF AnswerInStep, Opening
                <5>2. QED
                    BY <2>1, <5>1
            <4>5. QED
                BY <2>1, <2>5, <4>1, <4>3, <4>4 DEF AnswerExact, Opening
        <3>2. QED
            BY <3>1 DEF AnswersExact
    <2>8. ASSUME NEW s \in Stages PROVE RowsCounted("chunk", g, fut, s, backend[s])
        <3>1. /\ ~Answered(fut, s, ExecuteOf(s), 0) => Holds(backend[s], f, 0)
              /\ Arrived(fut, s, ExecuteOf(s), 0) => Holds(backend[s], f, 0 + ChunkLen(f, 0))
            BY <2>1, <2>4 DEF RowsCounted, Working, Opening, NextRun
        <3>2. NextRun("chunk", g, s) = 0
            BY <2>1 DEF NextRun
        <3>3. QED
            BY <2>1, <2>5, <3>1, <3>2 DEF RowsCounted, Working, Opening, Deciding
    <2>9. ASSUME NEW s \in Stages PROVE TasksExact("chunk", g, tokens, running[s], queue[s])
        <3>1. WorkInOrder("draft", f, s, running[s], queue[s])
            BY <1>0, <1>1, Healthy DEF f
        <3>2. \A t : Plain("draft", f, s, t) => t.call # "execute1"
            BY DEF Plain, PlainCall, RollingBack
        <3>3. Idle.call # "execute1"
            BY DEF Idle
        <3>4. \/ running[s] = Idle /\ queue[s] = <<>>
              \/ running[s] = Idle /\ Len(queue[s]) = 1 /\ Plain("draft", f, s, queue[s][1])
              \/ running[s] # Idle /\ queue[s] = <<>> /\ Plain("draft", f, s, running[s])
            BY <3>1, WorkBeforeSeal DEF Opening
        <3>5. running[s].call # "execute1" /\ \A i \in 1..Len(queue[s]) : queue[s][i].call # "execute1"
            BY <3>2, <3>3, <3>4
        <3>6. QED
            BY <3>5 DEF TasksExact, TaskExact
    <2>10. StatusExact'
        BY <2>1 DEF StatusExact, RollingBack
    <2>11. ExactInStep'
        <3>1. FrameExact(pc', frame', tokens') /\ AnswersExact(pc', frame', tokens', fut')
            BY <1>0, <2>1, <2>6, <2>7 DEF g
        <3>2. ASSUME NEW s \in Stages PROVE StageExact(s)'
            <4>1. RowsCounted(pc', frame', fut', s, backend'[s])
                BY <1>0, <2>1, <2>8 DEF g
            <4>2. TasksExact(pc', frame', tokens', running'[s], queue'[s])
                BY <1>0, <2>1, <2>9 DEF g
            <4>3. QED
                BY <4>1, <4>2 DEF StageExact
        <3>3. QED
            BY <3>1, <3>2 DEF ExactInStep
    <2>12. QED
        BY <2>10, <2>11
<1>5. QED
    BY <1>3, <1>4

\* A transaction begins with nothing evaluated and nothing verified.
LEMMA BeginFrame ==
    ASSUME InStep, BeginTransaction
    PROVE  /\ pc = "enter" /\ ~poisoned /\ UNCHANGED <<tokens, poisoned, status, backend, running, fut>>
           /\ pc' \in {"prefetch", "draft", "chunk"} /\ FrameExact(pc', frame', tokens) /\ frame'.off = 0
<1> DEFINE g == frame'
<1>1. /\ pc = "enter" /\ ~poisoned /\ frame.op \in Operations
      /\ <<frame.op, frame.arg>> \in Requests /\ Admissible(frame)
      /\ g.off = 0 /\ g.txn = txn' /\ UNCHANGED <<tokens, sample, poisoned, status, backend, running, fut>>
      /\ txn' = [epoch |-> frontiers.epoch + 1, base_target |-> frontiers.target,
                 base_canonical |-> frontiers.canonical,
                 evaluated |-> Len(EvalTokens(frame)), commit |-> 0, publish |-> 0,
                 kind |-> KindOf(frame), status |-> "prepared"]
    BY BeginEffect DEF InStep, sessVars
<1>2. pc' \in {"prefetch", "draft", "chunk"}
    BY FirstTasks DEF InStep, WorkInStep
<1>3. EngineTypeOK /\ FrontiersStayValid /\ IsFrame(frame) /\ frontiers.canonical = Len(tokens)
    BY <1>1 DEF InStep, EngineInv, RequestInStep, FrameInStep, Outside
<1>4. KindOf(frame) = "decode" => Len(EvalTokens(frame)) = 1
    BY <1>1, <1>3, AdmittedFacts, EvalFacts
<1>5. g = [frame EXCEPT !.eval = EvalTokens(frame), !.extent = Len(EvalTokens(frame)), !.txn = txn']
    BY DEF BeginTransaction
<1>6. g.extent = Len(EvalTokens(frame))
    BY <1>3, <1>5, FrameFields
<1> HIDE DEF g
<1>7. /\ g.txn.base_canonical = Len(tokens) /\ g.extent = g.txn.evaluated
      /\ g.txn.kind = "decode" => g.txn.evaluated = 1
    BY <1>1, <1>3, <1>4, <1>6
<1>8. Verified(g, tokens, 0) /\ NoStops(g, 0)
    BY DEF Verified, NoStops
<1>9. FrameExact(pc', g, tokens)
    BY <1>1, <1>2, <1>7, <1>8 DEF FrameExact, InTxn, Working, Opening, Deciding, Committing
<1>10. QED
    BY <1>1, <1>2, <1>9 DEF g

\* So the invariant holds when it begins.
LEMMA BeginExact ==
    ASSUME InStep, ExactInStep, BeginTransaction
    PROVE  ExactInStep' /\ StatusExact'
<1> DEFINE g == frame'
<1>1. /\ pc = "enter" /\ ~poisoned /\ UNCHANGED <<tokens, poisoned, status, backend, running, fut>>
      /\ pc' \in {"prefetch", "draft", "chunk"} /\ FrameExact(pc', g, tokens) /\ g.off = 0
    BY BeginFrame
<1>2. /\ \A s \in Stages : running[s] = Idle /\ queue[s] = <<>>
      /\ \A s \in Stages :
            backend[s] = AtRest(SubSeq(tokens, 1, frontiers.target), frontiers.epoch)
      /\ DOMAIN fut = {}
    BY <1>1, OutsideFacts DEF Outside
<1>3. \A i \in 1..Len(queue'[0]) : queue'[0][i].call # "execute1"
    <2>1. \/ queue'[0] = queue[0] \o <<[call |-> "prefetch", n |-> 0, txn |-> frame'.txn]>>
          \/ queue'[0] = queue[0] \o <<Stage0Task(frame', 0)>>
        BY FirstTasks DEF InStep, WorkInStep
    <2>2. Stage0Task(frame', 0).call = "execute0"
        BY DEF Stage0Task, ExecuteTask
    <2>3. queue[0] = <<>>
        BY <1>2 DEF Stages
    <2>4. \A t : \A i \in 1..Len(<<t>>) : <<t>>[i] = t
        OBVIOUS
    <2>5. \A t : <<>> \o <<t>> = <<t>>
        BY ShortSeqs
    <2>6. PICK t : queue'[0] = <<t>> /\ t.call # "execute1"
        BY <2>1, <2>2, <2>3, <2>5
    <2>7. QED
        BY <2>4, <2>6
<1>4. \A i \in 1..Len(queue'[1]) : queue'[1][i].call # "execute1"
    <2>1. \/ queue'[1] = queue[1]
          \/ queue'[1] = Append(queue[1], [call |-> "draft", n |-> Width(frame), txn |-> frame'.txn])
        BY FirstTasks DEF InStep, WorkInStep
    <2>2. queue[1] = <<>>
        BY <1>2 DEF Stages
    <2>3. \A t : \A i \in 1..Len(<<t>>) : <<t>>[i] = t
        OBVIOUS
    <2>4. \A t : Append(<<>>, t) = <<t>>
        BY ShortSeqs
    <2>5. Len(<<>>) = 0
        OBVIOUS
    <2>6. queue'[1] = <<>> \/ \E t : queue'[1] = <<t>> /\ t.call # "execute1"
        BY <2>1, <2>2, <2>4
    <2>7. QED
        BY <2>3, <2>5, <2>6
<1>5. StatusExact'
    BY <1>1 DEF StatusExact, RollingBack
<1> HIDE DEF g
<1>6. ASSUME NEW s \in Stages PROVE StageExact(s)'
    <2>1. Holds(backend[s], g, 0)
        BY <1>2, RestHolds
    <2>2. ~Answered(fut, s, ExecuteOf(s), 0)
        BY <1>2 DEF Answered
    <2>3. ~Arrived(fut, s, ExecuteOf(s), 0)
        BY <2>2 DEF Arrived
    <2>4. NextRun(pc', g, s) = 0
        BY <1>1 DEF NextRun
    <2>5. RowsCounted(pc', g, fut, s, backend[s])
        BY <1>1, <2>1, <2>2, <2>3, <2>4 DEF RowsCounted, Working, Opening, Deciding
    <2>6. running[s].call # "execute1"
        BY <1>2 DEF Idle
    <2>7. \A i \in 1..Len(queue'[s]) : queue'[s][i].call # "execute1"
        BY <1>3, <1>4 DEF Stages
    <2>8. TasksExact(pc', g, tokens, running[s], queue'[s])
        BY <2>6, <2>7 DEF TasksExact, TaskExact
    <2>9. RowsCounted(pc', frame', fut', s, backend'[s]) /\ TasksExact(pc', frame', tokens', running'[s], queue'[s])
        BY <1>1, <2>5, <2>8 DEF g
    <2>10. QED
        BY <2>9 DEF StageExact
<1>7. AnswersExact(pc, frame, tokens, fut)'
    <2>1. DOMAIN fut' = {}
        BY <1>1, <1>2
    <2>2. QED
        BY <2>1 DEF AnswersExact
<1>8. FrameExact(pc, frame, tokens)'
    BY <1>1 DEF g
<1>9. QED
    BY <1>5, <1>6, <1>7, <1>8 DEF ExactInStep

\* The ways a request ends without a transaction, and the end of one.
LEMMA EndedStatus ==
    ASSUME SealedInStep
    PROVE  /\ RefuseRequest => \E st \in Endings : End(st)
           /\ SeedDecode => \E st \in Endings \cup {"ok"} : End(st)
           /\ GetReset => \E st \in Endings \cup {"ok"} : End(st)
           /\ GetCommit1 => \E st \in Endings \cup {"ok"} : End(st)
           /\ GetRollback1 => End(status)
<1>1. Requested => Checked \in Endings
    BY DEF Requested, Endings
<1>2. ASSUME RefuseRequest PROVE \E st \in Endings : End(st)
    <2>1. Refusal(frame) # "none" /\ End(Refusal(frame))
        BY <1>2 DEF RefuseRequest
    <2>2. Refusal(frame) \in Endings
        BY <1>1, <2>1 DEF Refusal, Endings
    <2>3. QED
        BY <2>1, <2>2
<1>3. ASSUME SeedDecode PROVE \E st \in Endings \cup {"ok"} : End(st)
    <2>1. \/ End("failed") \/ (Requested /\ End(Checked)) \/ End("ok")
        BY <1>3 DEF SeedDecode
    <2>2. "failed" \in Endings
        BY DEF Endings
    <2>3. QED
        BY <1>1, <2>1, <2>2
<1>4. GetReset => \E st \in Endings \cup {"ok"} : End(st)
    BY DEF GetReset, Endings
<1>5. GetCommit1 => \E st \in Endings \cup {"ok"} : End(st)
    BY DEF GetCommit1, Endings
<1>6. GetRollback1 => End(status)
    BY DEF GetRollback1
<1>7. QED
    BY <1>2, <1>3, <1>4, <1>5, <1>6

\* The answers that close a transaction.
LEMMA CloseExact ==
    ASSUME InStep, ExactInStep, StatusExact, GetCommit0 \/ GetCommit1 \/ GetRollback0 \/ GetRollback1
    PROVE  ExactInStep' /\ StatusExact'
<1>1. pc \in RollingBack => status \in Endings
    BY DEF StatusExact
<1>2. SealedInStep
    BY DEF InStep
<1>3. CASE GetCommit0
    <2>1. \/ /\ pc = "commit0" /\ pc' = "commit1"
             /\ UNCHANGED <<tokens, poisoned, backend, running, frame, fut, status>>
          \/ End("failed")
        BY <1>3 DEF GetCommit0
    <2>2. "failed" \in Endings
        BY DEF Endings
    <2>3. QED
        BY <2>1, <2>2, HalfExact, EndExact
<1>4. CASE GetRollback0
    <2>1. \/ /\ pc = "rollback0" /\ pc' = "rollback1"
             /\ UNCHANGED <<tokens, poisoned, backend, running, frame, fut, status>>
          \/ pc = "rollback0" /\ End(status)
        BY <1>4 DEF GetRollback0
    <2>2. pc = "rollback0" => status \in Endings
        BY <1>1 DEF RollingBack
    <2>3. QED
        BY <2>1, <2>2, HalfExact, EndExact
<1>5. CASE GetCommit1
    BY <1>2, <1>5, EndedStatus, EndExact
<1>6. CASE GetRollback1
    <2>1. pc = "rollback1" /\ End(status)
        BY <1>6 DEF GetRollback1
    <2>2. status \in Endings
        BY <1>1, <2>1 DEF RollingBack
    <2>3. QED
        BY <2>1, <2>2, EndExact
<1>7. QED
    BY <1>3, <1>4, <1>5, <1>6

\* A reset begins with nothing evaluated.
LEMMA ResetExact ==
    ASSUME InStep, ExactInStep, BeginReset
    PROVE  ExactInStep' /\ StatusExact'
<1>1. pc = "enter" /\ UNCHANGED <<tokens, poisoned, backend, running>>
    BY DEF BeginReset, sessVars
<1>2. CASE poisoned \/ Requested
    <2>1. End(IF poisoned THEN "failed" ELSE Checked)
        BY <1>2 DEF BeginReset
    <2>2. (IF poisoned THEN "failed" ELSE Checked) \in Endings
        BY <1>2 DEF Requested, Endings
    <2> DEFINE st == IF poisoned THEN "failed" ELSE Checked
    <2> HIDE DEF st
    <2>3. st \in Endings /\ End(st)
        BY <2>1, <2>2 DEF st
    <2>4. QED
        BY <2>3, EndExact
<1>3. CASE ~(poisoned \/ Requested)
    <2>1. pc' = "reset" /\ UNCHANGED <<frame, status, fut>>
        BY <1>3 DEF BeginReset
    <2>2. frame.txn = NoTxn
        BY <1>1 DEF InStep, RequestInStep
    <2>3. /\ \A s \in Stages :
                backend[s] = AtRest(SubSeq(tokens, 1, frontiers.target), frontiers.epoch)
          /\ DOMAIN fut = {}
        BY <1>1, <1>3, OutsideFacts DEF Outside
    <2>4. ASSUME NEW s \in Stages PROVE StageExact(s)'
        <3>1. backend[s].prov = 0
            BY <2>3, RestFacts
        <3>2. RowsCounted("reset", frame, fut, s, backend[s])
            BY <3>1 DEF RowsCounted, Working, Opening, Deciding
        <3>3. TasksExact("reset", frame', tokens', running'[s], queue'[s])
            BY DEF TasksExact, Opening
        <3>4. QED
            BY <1>1, <2>1, <3>2, <3>3 DEF StageExact
    <2>5. FrameExact(pc, frame, tokens)'
        BY <1>1, <2>1, <2>2 DEF FrameExact, InTxn, Working, Opening, Deciding, Committing, RollingBack
    <2>6. AnswersExact(pc, frame, tokens, fut)'
        BY <2>1, <2>3 DEF AnswersExact
    <2>7. StatusExact'
        BY <2>1 DEF StatusExact, RollingBack
    <2>8. QED
        BY <2>4, <2>5, <2>6, <2>7 DEF ExactInStep
<1>4. QED
    BY <1>2, <1>3

\* A request arrives.
LEMMA MadeExact ==
    ASSUME InStep, ExactInStep, NEW op, NEW arg, Request(op, arg)
    PROVE  ExactInStep' /\ StatusExact'
<1>1. pc = "idle" /\ pc' = "enter" /\ UNCHANGED <<tokens, poisoned, backend, running, queue, fut>>
    BY DEF Request, sessVars, workVars
<1>2. StatusExact'
    BY <1>1 DEF StatusExact, RollingBack
<1>3. CASE poisoned
    BY <1>1, <1>2, <1>3, PoisonedExact
<1>4. CASE ~poisoned
    <2>1. DOMAIN fut' = {}
        BY <1>1, <1>4, OutsideFacts DEF Outside
    <2>2. AnswersExact(pc, frame, tokens, fut)'
        BY <2>1 DEF AnswersExact
    <2>3. FrameExact(pc, frame, tokens)'
        BY <1>1 DEF FrameExact, InTxn, Working, Opening, Deciding, Committing, RollingBack
    <2>4. ASSUME NEW s \in Stages PROVE StageExact(s)'
        <3>1. TasksExact(pc', frame', tokens', running'[s], queue'[s])
            BY <1>1 DEF TasksExact, Opening
        <3>2. RowsCounted(pc', frame', fut', s, backend'[s])
            BY <1>1 DEF RowsCounted, Working, Opening, Deciding
        <3>3. QED
            BY <3>1, <3>2 DEF StageExact
    <2>5. QED
        BY <1>2, <2>2, <2>3, <2>4 DEF ExactInStep
<1>5. QED
    BY <1>3, <1>4

\* Nothing these invariants speak of moves.
LEMMA StillExact ==
    ASSUME ExactInStep, StatusExact, UNCHANGED <<pc, frame, tokens, poisoned, status, workVars>>
    PROVE  ExactInStep' /\ StatusExact'
<1>1. StatusExact'
    BY DEF StatusExact
<1>2. UNCHANGED <<backend, queue, running, fut>>
    BY DEF workVars
<1>3. CASE poisoned
    BY <1>1, <1>3, PoisonedExact
<1>4. CASE ~poisoned
    <2>1. FrameExact(pc, frame, tokens)' /\ AnswersExact(pc, frame, tokens, fut)'
        BY <1>2, <1>4, ExactFacts
    <2>2. ASSUME NEW s \in Stages PROVE StageExact(s)'
        <3>1. StageExact(s)
            BY <1>4 DEF ExactInStep
        <3>2. QED
            BY <1>2, <3>1 DEF StageExact
    <2>3. QED
        BY <1>1, <2>1, <2>2 DEF ExactInStep
<1>5. QED
    BY <1>3, <1>4

\* The workers' steps leave how the request ends alone.
LEMMA WorkerExact ==
    ASSUME InStep, ExactInStep, StatusExact, NEW s \in Stages, TakeTask(s) \/ CompleteTask(s)
    PROVE  ExactInStep' /\ StatusExact'
<1>1. UNCHANGED <<pc, status>>
    BY DEF TakeTask, CompleteTask, coordVars
<1>2. StatusExact'
    BY <1>1 DEF StatusExact
<1>3. QED
    BY <1>2, TakeExact, CompleteExact

\* One step.
LEMMA ExactStep ==
    ASSUME InStep, ExactInStep, StatusExact, [DualNext]_vars
    PROVE  ExactInStep' /\ StatusExact'
<1>1. CASE UNCHANGED vars
    BY <1>1, StillExact DEF vars, coordVars, sessVars
<1>2. CASE DualNext
    <2>0. SealedInStep /\ 0 \in Stages /\ 1 \in Stages
        BY DEF InStep, Stages
    <2>1. CASE RefuseRequest \/ SeedDecode \/ GetReset
        <3>1. \E st \in Endings \cup {"ok"} : End(st)
            BY <2>0, <2>1, EndedStatus
        <3>2. QED
            BY <3>1, EndExact
    <2>2. CASE BeginTransaction
        BY <2>2, BeginExact
    <2>3. CASE GetPrefetch \/ GetDraft \/ CheckChunk \/ GetStage0 \/ GetCheckpoint
        BY <2>3, PrefetchExact, DraftExact, CheckExact, Stage0Exact, CheckpointExact
    <2>4. CASE GetStage1 \/ GetReconcile \/ GetLookahead \/ SealTransaction
        BY <2>4, Stage1Exact, ReconcileExact, LookaheadExact, SealExact
    <2>5. CASE AcknowledgeStage(0) \/ AcknowledgeStage(1) \/ DecideTransaction
        <3>1. /\ UNCHANGED <<tokens, poisoned, backend, running, frame, fut>>
              /\ pc \in {"ack0", "ack1", "decide"} /\ pc' \in {"ack1", "decide", "commit"}
            BY <2>5 DEF AcknowledgeStage, DecideTransaction, sessVars, workVars
        <3>2. QED
            BY <3>1, DecideExact DEF Deciding
    <2>6. CASE CommitTransaction
        <3>1. /\ UNCHANGED <<tokens, poisoned, backend, running, frame, fut>>
              /\ pc = "commit" /\ pc' = "commit0"
            BY <2>6 DEF CommitTransaction, sessVars
        <3>2. QED
            BY <3>1, DecideExact DEF Deciding
    <2>7. CASE GetCommit0 \/ GetCommit1 \/ GetRollback0 \/ GetRollback1
        BY <2>7, CloseExact
    <2>8. CASE BeginReset
        BY <2>8, ResetExact
    <2>9. CASE TakeTask(0) \/ TakeTask(1) \/ CompleteTask(0) \/ CompleteTask(1)
        BY <2>0, <2>9, WorkerExact
    <2>10. CASE \E r \in Requests : Request(r[1], r[2])
        BY <2>10, MadeExact
    <2>11. CASE RequestCancel \/ DeadlinePasses
        <3>1. UNCHANGED <<pc, frame, tokens, poisoned, status, workVars>>
            BY <2>11 DEF RequestCancel, DeadlinePasses, sessVars, coordVars
        <3>2. QED
            BY <3>1, StillExact
    <2>12. CASE FailClosed
        <3>1. poisoned' /\ UNCHANGED <<pc, status>>
            BY <2>12 DEF FailClosed, coordVars
        <3>2. QED
            BY <3>1, PoisonedExact DEF StatusExact
    <2>13. QED
        BY <1>2, <2>1, <2>2, <2>3, <2>4, <2>5, <2>6, <2>7, <2>8, <2>9, <2>10, <2>11, <2>12, CoordinatorCases
<1>3. QED
    BY <1>1, <1>2

\* Initially nothing is under way.
LEMMA SessionInitial == DualInit => SessionInv
<1> SUFFICES ASSUME DualInit PROVE SessionInv
    OBVIOUS
<1>1. pc = "idle" /\ status = "none" /\ fut = <<>>
    BY DEF DualInit
<1>2. StatusExact
    BY <1>1 DEF StatusExact, RollingBack
<1>3. AnswersExact(pc, frame, tokens, fut)
    BY <1>1 DEF AnswersExact
<1>4. FrameExact(pc, frame, tokens)
    BY <1>1 DEF FrameExact, InTxn, Working, Opening, Deciding, Committing, RollingBack
<1>5. ASSUME NEW s \in Stages PROVE StageExact(s)
    <2>1. TasksExact(pc, frame, tokens, running[s], queue[s])
        BY <1>1 DEF TasksExact, Opening
    <2>2. RowsCounted(pc, frame, fut, s, backend[s])
        BY <1>1 DEF RowsCounted, Working, Opening, Deciding
    <2>3. QED
        BY <2>1, <2>2 DEF StageExact
<1>6. QED
    BY <1>2, <1>3, <1>4, <1>5, DualInitial DEF SessionInv, ExactInStep

\* SessionInv is inductive.
LEMMA SessionInductive == SessionInv /\ [DualNext]_vars => SessionInv'
<1> SUFFICES ASSUME SessionInv, [DualNext]_vars PROVE SessionInv'
    OBVIOUS
<1>1. DualInv /\ InStep /\ ExactInStep /\ StatusExact
    BY InvIsInStep DEF SessionInv
<1>2. DualInv'
    BY <1>1, DualInductive
<1>3. ExactInStep' /\ StatusExact'
    BY <1>1, ExactStep
<1>4. QED
    BY <1>2, <1>3 DEF SessionInv

\* At every place of the coordinator each stage has evaluated exactly the rows
\* that place implies, the boundaries and the answers under way are those of
\* the rows they claim, and what is about to be published are the choices of
\* the target model.
THEOREM SessionInvariant == DualSpec => []SessionInv
<1>1. DualInit => SessionInv
    BY SessionInitial
<1>2. SessionInv /\ [DualNext]_vars => SessionInv'
    BY SessionInductive
<1>3. QED
    BY <1>1, <1>2, PTL DEF DualSpec

-----------------------------------------------------------------------------
(* The executor is a token session.                                        *)

\* The beginning of a sequence is a prefix of it.
LEMMA PrefixOfConcat ==
    ASSUME NEW a, NEW b, IsSeq(a), IsSeq(b)
    PROVE  SubSeq(a \o b, 1, Len(a)) = a
<1>1. PICK S : a \in Seq(S)
    BY IsSeqFacts
<1> DEFINE c == a \o b
           p == SubSeq(c, 1, Len(a))
<1>2. Len(a) \in Nat /\ \A i \in 1..Len(a) : c[i] = a[i] /\ a[i] \in S
    BY <1>1, LenConcatOf, ElementOfSeq
<1> HIDE DEF c
<1>3. \A i \in 1..Len(a) : c[i] \in S
    BY <1>2
<1>4. /\ p \in Seq(S) /\ Len(p) = (IF 1 <= Len(a) THEN Len(a) - 1 + 1 ELSE 0)
      /\ \A i \in 1..(Len(a) - 1 + 1) : p[i] = c[1 + i - 1]
    BY <1>2, <1>3, SubSeqProperties
<1> HIDE DEF p
<1>5. Len(p) = Len(a) /\ \A i \in 1..Len(p) : p[i] = a[i]
    BY <1>2, <1>4
<1>6. p = a
    BY <1>1, <1>4, <1>5, SeqEqual
<1>7. QED
    BY <1>6 DEF p, c

\* The rows of n steps begin with those of j.
LEMMA GivenPrefix ==
    ASSUME NEW base, IsSeq(base), NEW d, IsSeq(d), NEW n \in 0..Len(d), NEW j \in 0..n
    PROVE  SubSeq(base \o SubSeq(d, 1, n), 1, Len(base) + j) = base \o SubSeq(d, 1, j)
<1> DEFINE u == SubSeq(d, 1, j)
           v == SubSeq(d, j + 1, n)
<1>1. PICK S : base \in Seq(S)
    BY IsSeqFacts
<1>2. PICK E : d \in Seq(E)
    BY IsSeqFacts
<1> DEFINE A == S \cup E
<1>3. base \in Seq(A) /\ d \in Seq(A)
    <2>1. S \subseteq A /\ E \subseteq A
        OBVIOUS
    <2> HIDE DEF A
    <2>2. QED
        BY <1>1, <1>2, <2>1
<1> HIDE DEF A
<1>4. Len(d) \in Nat /\ \A i \in 1..Len(d) : d[i] \in A
    BY <1>3, ElementOfSeq
<1>5. u \in Seq(A) /\ Len(u) = j
    <2>1. \A i \in 1..j : d[i] \in A
        BY <1>4
    <2>2. QED
        BY <2>1, SubSeqProperties
<1>6. v \in Seq(A)
    <2>1. \A i \in (j + 1)..n : d[i] \in A
        BY <1>4
    <2>2. QED
        BY <2>1, SubSeqProperties
<1>7. u \o v = SubSeq(d, 1, n)
    <2>1. j \in 0..Len(d) /\ n \in j..Len(d)
        BY <1>4
    <2>2. QED
        BY <2>1, PrefixGrows
<1> HIDE DEF u, v
<1>8. base \o (u \o v) = (base \o u) \o v
    BY <1>3, <1>5, <1>6, ConcatAssoc
<1>9. base \o u \in Seq(A) /\ Len(base \o u) = Len(base) + j
    BY <1>3, <1>5, ConcatProperties
<1>10. IsSeq(base \o u) /\ IsSeq(v)
    BY <1>6, <1>9, SeqIsSeq
<1> DEFINE w == base \o u
<1> HIDE DEF w
<1>11. SubSeq(w \o v, 1, Len(w)) = w
    BY <1>10, PrefixOfConcat DEF w
<1>12. QED
    BY <1>7, <1>8, <1>9, <1>11 DEF u, w

\* What an append records are the rows it has evaluated, with nothing pending.
LEMMA AppendedRows ==
    ASSUME NEW ts, IsSeq(ts), NEW f, EvalInStep(f, ts), f.op = "append", NEW n, n = CommitOf(f),
           n \in 1..Len(f.eval), f.arg \in Seq(Vocab), NEW new, new = Recorded(f, ts, n)
    PROVE  /\ Len(new) = Len(ts) + Len(f.arg) /\ SubSeq(new, 1, Len(ts)) = ts
           /\ Len(new) = f.txn.base_target + n /\ new = Given(f, ts, n)
<1> DEFINE bt == f.txn.base_target
           rest == SubSeq(ts, bt + 1, Len(ts))
<1>1. new = ts \o f.arg
    BY DEF Recorded
<1>2. IsSeq(f.arg)
    BY SeqIsSeq
<1>3. Len(new) = Len(ts) + Len(f.arg) /\ Len(ts) \in Nat /\ Len(f.arg) \in Nat /\ IsSeq(new)
    BY <1>1, <1>2, LenConcatOf
<1>4. SubSeq(new, 1, Len(ts)) = ts
    BY <1>1, <1>2, PrefixOfConcat
<1>5. /\ f.txn.kind = "append" /\ bt \in 0..Len(ts) /\ f.eval = rest \o f.arg
      /\ Len(f.eval) = f.txn.evaluated
    BY DEF EvalInStep
<1>6. IsSeq(rest) /\ Len(rest) = Len(ts) - bt
    <2>1. PICK S : ts \in Seq(S)
        BY IsSeqFacts
    <2>2. \A i \in (bt + 1)..Len(ts) : ts[i] \in S
        BY <1>3, <1>5, <2>1, ElementOfSeq
    <2> DEFINE a == bt + 1
               z == Len(ts)
    <2>3. a \in Int /\ z \in Int /\ \A i \in a..z : ts[i] \in S
        BY <1>3, <1>5, <2>2
    <2> HIDE DEF a, z
    <2>4. SubSeq(ts, a, z) \in Seq(S) /\ Len(SubSeq(ts, a, z)) = IF a <= z THEN z - a + 1 ELSE 0
        BY <2>3, SubSeqProperties
    <2>5. rest \in Seq(S) /\ Len(rest) = IF bt + 1 <= Len(ts) THEN Len(ts) - (bt + 1) + 1 ELSE 0
        BY <2>4 DEF a, z
    <2> HIDE DEF rest
    <2>6. Len(rest) = Len(ts) - bt
        BY <1>3, <1>5, <2>5
    <2>7. QED
        BY <2>5, <2>6, SeqIsSeq
<1> HIDE DEF rest
<1>7. Len(f.eval) = Len(rest) + Len(f.arg)
    <2> DEFINE arg == f.arg
    <2> HIDE DEF arg
    <2>1. IsSeq(arg)
        BY <1>2 DEF arg
    <2>2. Len(rest \o arg) = Len(rest) + Len(arg)
        BY <1>6, <2>1, LenConcatOf
    <2>3. QED
        BY <1>5, <2>2 DEF arg
<1>8. n = Len(f.eval)
    BY <1>5 DEF CommitOf
<1>9. bt + n = Len(new)
    <2>1. Len(new) = Len(ts) + Len(f.arg)
        BY <1>3
    <2>2. n = (Len(ts) - bt) + Len(f.arg)
        BY <1>6, <1>7, <1>8
    <2>3. Len(ts) \in Int /\ bt \in Int /\ Len(f.arg) \in Int
        BY <1>3, <1>5
    <2>4. QED
        BY <2>1, <2>2, <2>3
<1>10. SubSeq(new, 1, bt + n) = SubSeq(ts, 1, bt) \o SubSeq(f.eval, 1, n)
    BY RecordedFacts
<1>11. SubSeq(new, 1, Len(new)) = new
    BY <1>3, IsSeqFacts, SubSeqFull
<1>12. new = Given(f, ts, n)
    BY <1>9, <1>10, <1>11 DEF Given
<1>13. QED
    BY <1>3, <1>4, <1>9, <1>12

\* What a decode records: the rows it has evaluated and one more token.
LEMMA GeneratedRows ==
    ASSUME NEW ts, IsSeq(ts), NEW f, EvalInStep(f, ts), f.op # "append", NEW n, n = CommitOf(f),
           n \in 1..Len(f.eval), NEW new, new = Recorded(f, ts, n)
    PROVE  /\ Len(new) = Len(ts) + n /\ SubSeq(new, 1, Len(ts)) = ts
           /\ \A j \in 1..n : SubSeq(new, 1, f.txn.base_target + j) = Given(f, ts, j)
           /\ \A j \in 1..(n - 1) : new[Len(ts) + j] = f.eval[j + 1]
           /\ new[Len(ts) + n] = f.next
           /\ Len(ts) = f.txn.base_target + 1
<1> DEFINE bt == f.txn.base_target
           mid == SubSeq(f.eval, 2, n)
           x == <<f.next>>
           base == SubSeq(ts, 1, bt)
<1>1. /\ Len(ts) = bt + 1 /\ bt \in 0..Len(ts) /\ IsSeq(f.eval)
    BY DEF EvalInStep
<1>2. Len(ts) \in Nat /\ Len(f.eval) \in Nat /\ bt \in Nat /\ n \in Nat /\ n >= 1
    BY <1>1, LenProperties DEF IsSeq
<1>3. PICK E : f.eval \in Seq(E)
    BY <1>1, IsSeqFacts
<1>4. IsSeq(mid) /\ Len(mid) = n - 1 /\ \A i \in 1..(n - 1) : mid[i] = f.eval[i + 1]
    <2>1. \A i \in 2..n : f.eval[i] \in E
        BY <1>2, <1>3, ElementOfSeq
    <2>2. /\ mid \in Seq(E) /\ Len(mid) = (IF 2 <= n THEN n - 2 + 1 ELSE 0)
          /\ \A i \in 1..(n - 2 + 1) : mid[i] = f.eval[2 + i - 1]
        BY <1>2, <2>1, SubSeqProperties
    <2> HIDE DEF mid
    <2>3. Len(mid) = n - 1
        BY <1>2, <2>2
    <2>4. ASSUME NEW i \in 1..(n - 1) PROVE mid[i] = f.eval[i + 1]
        <3>1. i \in 1..(n - 2 + 1) /\ 2 + i - 1 = i + 1
            BY <1>2
        <3>2. QED
            BY <2>2, <3>1
    <2>5. QED
        BY <2>2, <2>3, <2>4, SeqIsSeq
<1>5. IsSeq(x) /\ Len(x) = 1 /\ x[1] = f.next
    <2>1. x \in Seq({f.next})
        OBVIOUS
    <2>2. QED
        BY <2>1, SeqIsSeq
<1>6. new = ts \o (mid \o x)
    BY DEF Recorded
<1> HIDE DEF mid, x
<1>7. /\ Len(mid \o x) = n /\ IsSeq(mid \o x)
      /\ \A i \in 1..(n - 1) : (mid \o x)[i] = f.eval[i + 1]
      /\ (mid \o x)[n] = f.next
    <2>1. /\ Len(mid \o x) = Len(mid) + Len(x) /\ IsSeq(mid \o x)
          /\ \A i \in 1..Len(mid) : (mid \o x)[i] = mid[i]
          /\ \A i \in 1..Len(x) : (mid \o x)[Len(mid) + i] = x[i]
        <3>1. IsSeq(mid) /\ IsSeq(x)
            BY <1>4, <1>5
        <3>2. QED
            BY <3>1, LenConcatOf
    <2>2. 1 \in 1..Len(x) /\ Len(mid) + 1 = n
        BY <1>2, <1>4, <1>5
    <2>3. (mid \o x)[n] = x[1]
        BY <2>1, <2>2
    <2>4. Len(mid \o x) = n
        BY <1>5, <2>1, <2>2
    <2>5. QED
        BY <1>4, <1>5, <2>1, <2>3, <2>4
<1> DEFINE tail == mid \o x
<1> HIDE DEF tail
<1>8. /\ Len(new) = Len(ts) + n /\ IsSeq(new)
      /\ \A i \in 1..n : new[Len(ts) + i] = tail[i]
    BY <1>6, <1>7, LenConcatOf DEF tail
<1>9. SubSeq(new, 1, Len(ts)) = ts
    BY <1>6, <1>7, PrefixOfConcat
<1>10. \A j \in 1..(n - 1) : new[Len(ts) + j] = f.eval[j + 1]
    <2>1. ASSUME NEW j \in 1..(n - 1) PROVE new[Len(ts) + j] = f.eval[j + 1]
        <3>1. j \in 1..n
            BY <1>2
        <3>2. new[Len(ts) + j] = tail[j] /\ tail[j] = f.eval[j + 1]
            BY <1>7, <1>8, <3>1 DEF tail
        <3>3. QED
            BY <3>2
    <2>2. QED
        BY <2>1
<1>11. new[Len(ts) + n] = f.next
    BY <1>2, <1>7, <1>8 DEF tail
<1>12. SubSeq(new, 1, bt + n) = base \o SubSeq(f.eval, 1, n)
    BY RecordedFacts
<1>13. IsSeq(base) /\ Len(base) = bt
    <2>1. 0 \in 0..Len(ts) /\ bt \in 0..Len(ts)
        BY <1>1, <1>2
    <2>2. QED
        BY <2>1, PrefixGrows
<1>14. ASSUME NEW j \in 1..n PROVE SubSeq(new, 1, bt + j) = Given(f, ts, j)
    <2> DEFINE p == SubSeq(new, 1, bt + n)
               m == bt + n
    <2>1. m \in 0..Len(new) /\ bt + j \in 0..m /\ n \in 0..Len(f.eval) /\ j \in 0..n
        <3>1. j \in Nat /\ j <= n /\ n <= Len(f.eval)
            BY <1>2
        <3>2. m \in 0..Len(new)
            <4>1. Len(new) = (bt + 1) + n
                BY <1>1, <1>8
            <4>2. QED
                BY <1>2, <4>1
        <3>3. bt + j \in 0..m
            BY <1>2, <3>1
        <3>4. QED
            BY <1>2, <3>1, <3>2, <3>3
    <2> HIDE DEF base
    <2>2. SubSeq(base \o SubSeq(f.eval, 1, n), 1, Len(base) + j) = base \o SubSeq(f.eval, 1, j)
        BY <1>1, <1>13, <2>1, GivenPrefix
    <2>3. p = SubSeq(new, 1, m)
        OBVIOUS
    <2> HIDE DEF m, p
    <2>4. SubSeq(p, 1, bt + j) = SubSeq(new, 1, bt + j)
        BY <1>8, <2>1, <2>3, PrefixOfPrefix
    <2>5. p = base \o SubSeq(f.eval, 1, n)
        BY <1>12 DEF p
    <2>6. QED
        BY <1>13, <2>2, <2>4, <2>5 DEF Given, base
<1>15. QED
    BY <1>1, <1>8, <1>9, <1>10, <1>11, <1>14

\* What the caller of the executor sees: its session, and the answer to it.
LiveSession == [tokens |-> tokens, pending |-> VisiblePending, sample |-> sample]
SessionSeen == IF poisoned THEN Idle ELSE LiveSession
AnswerSeen == IF pc = "idle" THEN status ELSE "busy"

\* A session is not a dead one.
LEMMA LiveIsNotDead == LiveSession # Idle /\ LiveSession' # Idle
<1>1. DOMAIN LiveSession = {"tokens", "pending", "sample"}
    BY DEF LiveSession
<1>2. DOMAIN LiveSession' = {"tokens", "pending", "sample"}
    BY DEF LiveSession
<1>3. DOMAIN Idle = {"call"}
    BY DEF Idle
<1>4. DOMAIN Idle # {"tokens", "pending", "sample"}
    BY <1>3
<1>5. QED
    BY <1>1, <1>2, <1>4

\* The caller sees the pending count the transaction started from.
LEMMA VisibleFacts ==
    ASSUME InStep
    PROVE  /\ pc \in Outside => VisiblePending = Pending
           /\ pc \in InTxn \cup Committing =>
                /\ frame.txn # NoTxn
                /\ VisiblePending = frame.txn.base_canonical - frame.txn.base_target
<1>1. pc \in Outside => VisiblePending = Pending
    BY DEF VisiblePending, Outside, InStep, RequestInStep
<1>2. ASSUME pc \in InTxn \cup Committing PROVE frame.txn # NoTxn /\ pc # "idle"
    <2>1. frame.txn.evaluated \in Nat \ {0}
        BY <1>2, FrameFacts DEF InStep
    <2>2. NoTxn.evaluated = 0
        BY DEF NoTxn
    <2>3. pc # "idle"
        BY <1>2 DEF InTxn, Opening, Committing, RollingBack
    <2>4. QED
        BY <2>1, <2>2, <2>3
<1>3. QED
    BY <1>1, <1>2 DEF VisiblePending

\* A step the caller does not notice.
LEMMA Unnoticed ==
    ASSUME UNCHANGED <<tokens, sample, poisoned>>,
           (pc # "idle" /\ pc' # "idle") \/ (UNCHANGED <<pc, status>>),
           VisiblePending' = VisiblePending
    PROVE  UNCHANGED Session!sessionVars
<1>1. SessionSeen' = SessionSeen
    BY DEF SessionSeen, LiveSession
<1>2. AnswerSeen' = AnswerSeen
    BY DEF AnswerSeen
<1>3. QED
    BY <1>1, <1>2 DEF Session!sessionVars, SessionSeen, AnswerSeen, LiveSession

\* A request that has no effect, or none any more.
LEMMA Refused ==
    ASSUME pc # "idle", pc' = "idle", status' \in Endings,
           poisoned' = TRUE \/ (UNCHANGED <<tokens, sample, poisoned>> /\ VisiblePending' = VisiblePending)
    PROVE  Session!Refuse
<1>1. AnswerSeen = "busy" /\ AnswerSeen' = status'
    BY DEF AnswerSeen
<1>2. SessionSeen' \in {SessionSeen, Idle}
    BY DEF SessionSeen, LiveSession
<1>3. AnswerSeen' \in {"cancelled", "deadline", "failed"}
    BY <1>1 DEF Endings
<1>4. QED
    BY <1>1, <1>2, <1>3 DEF Session!Refuse, SessionSeen, AnswerSeen, LiveSession

\* The places a transaction is at, seen as one.
LEMMA InsideTransaction ==
    ASSUME InStep,
           \/ GetPrefetch \/ GetDraft \/ CheckChunk \/ GetStage0 \/ GetCheckpoint \/ GetStage1
           \/ GetReconcile \/ GetLookahead \/ SealTransaction
           \/ AcknowledgeStage(0) \/ AcknowledgeStage(1) \/ DecideTransaction \/ CommitTransaction
    PROVE  /\ pc \in InTxn \cup Committing /\ pc' # "idle" /\ frame'.txn = frame.txn
           /\ UNCHANGED <<tokens, sample, poisoned>>
<1>1. IsFrame(frame)
    BY DEF InStep, RequestInStep
<1>2. \A st : Throw(st) => pc' = "rollback0" /\ frame' = frame
    BY DEF Throw
<1>3. CASE GetPrefetch
    BY <1>2, <1>3 DEF GetPrefetch, sessVars, InTxn, Opening
<1>4. CASE GetDraft
    <2>1. pc' # "idle" /\ frame'.txn = frame.txn
        BY <1>1, <1>2, <1>4, FrameFields DEF GetDraft
    <2>2. QED
        BY <1>4, <2>1 DEF GetDraft, sessVars, InTxn, Opening
<1>5. CASE CheckChunk
    BY <1>2, <1>5 DEF CheckChunk, sessVars, InTxn, Opening
<1>6. CASE GetStage0
    <2>1. pc' # "idle" /\ frame'.txn = frame.txn
        BY <1>2, <1>6 DEF GetStage0
    <2>2. QED
        BY <1>6, <2>1 DEF GetStage0, sessVars, InTxn, Opening
<1>7. CASE GetCheckpoint
    BY <1>2, <1>7 DEF GetCheckpoint, sessVars, InTxn, Opening
<1>8. CASE GetStage1
    BY <1>1, <1>2, <1>8, Stage1Effect DEF sessVars, InTxn, Opening
<1>9. CASE GetReconcile
    <2>1. pc' # "idle" /\ frame'.txn = frame.txn
        BY <1>1, <1>2, <1>9, FrameFields DEF GetReconcile
    <2>2. QED
        BY <1>9, <2>1 DEF GetReconcile, sessVars, InTxn, Opening
<1>10. CASE GetLookahead
    <2>1. pc' # "idle" /\ frame'.txn = frame.txn
        BY <1>1, <1>2, <1>10, FrameFields DEF GetLookahead
    <2>2. QED
        BY <1>10, <2>1 DEF GetLookahead, sessVars, InTxn, Opening
<1>11. CASE SealTransaction
    <2>1. pc' # "idle" /\ frame'.txn = frame.txn
        BY <1>1, <1>2, <1>11, TruncatedFacts DEF SealTransaction
    <2>2. QED
        BY <1>11, <2>1 DEF SealTransaction, sessVars, InTxn, Opening
<1>12. CASE AcknowledgeStage(0) \/ AcknowledgeStage(1)
    BY <1>12 DEF AcknowledgeStage, sessVars, InTxn
<1>13. CASE DecideTransaction
    BY <1>13 DEF DecideTransaction, sessVars, InTxn
<1>14. CASE CommitTransaction
    BY <1>14 DEF CommitTransaction, sessVars, InTxn
<1>15. QED
    BY <1>3, <1>4, <1>5, <1>6, <1>7, <1>8, <1>9, <1>10, <1>11, <1>12, <1>13, <1>14

\* Inside a transaction the caller sees no change.
LEMMA InsideMapped ==
    ASSUME InStep, InStep',
           pc \in InTxn \cup Committing, pc' # "idle", frame'.txn = frame.txn,
           UNCHANGED <<tokens, sample, poisoned>>
    PROVE  UNCHANGED Session!sessionVars
<1>1. pc # "idle"
    BY DEF InTxn, Opening, Committing, RollingBack
<1>2. frame.txn # NoTxn /\ VisiblePending = frame.txn.base_canonical - frame.txn.base_target
    BY VisibleFacts
<1>3. VisiblePending' = frame.txn.base_canonical - frame.txn.base_target
    BY <1>2 DEF VisiblePending
<1>4. QED
    BY <1>1, <1>2, <1>3, Unnoticed

\* A transaction begins behind the caller's back.
LEMMA BeginMapped ==
    ASSUME InStep, BeginTransaction
    PROVE  UNCHANGED Session!sessionVars
<1>1. /\ pc = "enter" /\ frame'.txn = txn' /\ UNCHANGED <<tokens, sample, poisoned>>
      /\ txn' = [epoch |-> frontiers.epoch + 1, base_target |-> frontiers.target,
                 base_canonical |-> frontiers.canonical,
                 evaluated |-> Len(EvalTokens(frame)), commit |-> 0, publish |-> 0,
                 kind |-> KindOf(frame), status |-> "prepared"]
    BY BeginEffect DEF InStep, sessVars
<1>2. pc' \in {"prefetch", "draft", "chunk"}
    BY FirstTasks DEF InStep, WorkInStep
<1>3. frame'.txn # NoTxn
    <2>1. txn'.status = "prepared" /\ NoTxn.status = "invalid"
        BY <1>1 DEF NoTxn
    <2>2. QED
        BY <1>1, <2>1
<1>4. VisiblePending' = frontiers.canonical - frontiers.target
    <2>1. VisiblePending' = frame'.txn.base_canonical - frame'.txn.base_target
        BY <1>2, <1>3 DEF VisiblePending
    <2>2. QED
        BY <1>1, <2>1
<1>5. VisiblePending = frontiers.canonical - frontiers.target
    BY <1>1, VisibleFacts DEF Outside, Pending
<1>6. QED
    BY <1>1, <1>2, <1>4, <1>5, Unnoticed

\* A call begins.
LEMMA RequestMapped ==
    ASSUME InStep, StatusExact, NEW op, NEW arg, Request(op, arg)
    PROVE  Session!Call
<1>1. /\ pc = "idle" /\ pc' = "enter" /\ UNCHANGED <<tokens, sample, poisoned, frontiers>>
      /\ frame' = [NoFrame EXCEPT !.op = op, !.arg = arg]
    BY DEF Request, sessVars, engineVars
<1>2. frame'.txn = NoTxn
    BY <1>1 DEF NoFrame
<1>3. VisiblePending' = VisiblePending
    BY <1>1, <1>2 DEF VisiblePending, Pending
<1>4. SessionSeen' = SessionSeen
    BY <1>1, <1>3 DEF SessionSeen, LiveSession
<1>5. AnswerSeen # "busy" /\ AnswerSeen' = "busy"
    BY <1>1 DEF AnswerSeen, StatusExact, Endings
<1>6. QED
    BY <1>4, <1>5 DEF Session!Call, SessionSeen, AnswerSeen, LiveSession

\* A request is refused, cancelled or turned away.
LEMMA RefuseMapped ==
    ASSUME InStep, RefuseRequest
    PROVE  Session!Refuse
<1>1. /\ pc = "enter" /\ UNCHANGED <<tokens, sample, poisoned, frontiers>>
      /\ \E st \in Endings : End(st)
    BY EndedStatus DEF RefuseRequest, sessVars, engineVars, InStep
<1>2. pc' = "idle" /\ status' \in Endings
    BY <1>1 DEF End
<1>3. VisiblePending = Pending /\ VisiblePending' = Pending'
    BY <1>1, <1>2, VisibleFacts DEF Outside, VisiblePending
<1>4. VisiblePending' = VisiblePending
    BY <1>1, <1>3 DEF Pending
<1>5. QED
    BY <1>1, <1>2, <1>4, Refused

\* The sample joins the session, or nothing happens.
LEMMA SeedMapped ==
    ASSUME InStep, SeedDecode
    PROVE  Session!Seed \/ Session!Refuse
<1>1. pc = "enter" /\ UNCHANGED <<sample, poisoned>>
    BY DEF SeedDecode
<1>2. VisiblePending = Pending
    BY <1>1, VisibleFacts DEF Outside
<1>3. \/ /\ \E st \in Endings : End(st)
         /\ UNCHANGED <<tokens, frontiers>>
      \/ /\ ~poisoned /\ SeedAllowed /\ SeedDecodePending /\ tokens' = Append(tokens, sample) /\ End("ok")
    <2>1. Requested => Checked \in Endings
        BY DEF Requested, Endings
    <2>2. "failed" \in Endings
        BY DEF Endings
    <2>3. QED
        BY <2>1, <2>2 DEF SeedDecode, engineVars
<1>4. CASE (\E st \in Endings : End(st)) /\ UNCHANGED <<tokens, frontiers>>
    <2>1. pc' = "idle" /\ status' \in Endings
        BY <1>4 DEF End
    <2>2. VisiblePending' = Pending'
        BY <2>1 DEF VisiblePending
    <2>3. VisiblePending' = VisiblePending
        BY <1>2, <1>4, <2>2 DEF Pending
    <2>4. Session!Refuse
        BY <1>1, <1>4, <2>1, <2>3, Refused
    <2>5. QED
        BY <2>4
<1>5. CASE ~poisoned /\ SeedAllowed /\ SeedDecodePending /\ tokens' = Append(tokens, sample) /\ End("ok")
    <2>1. /\ frontiers.canonical = frontiers.target /\ frontiers.canonical \in Nat /\ sample # NoToken
          /\ frontiers'.canonical = frontiers.canonical + 1 /\ frontiers'.target = frontiers.target
        BY <1>5 DEF SeedAllowed, SeedDecodePending, InStep, EngineInv, EngineTypeOK, U64
    <2>2. Pending = 0 /\ Pending' = 1
        BY <2>1 DEF Pending
    <2>3. pc' = "idle" /\ status' = "ok"
        BY <1>5 DEF End
    <2>4. VisiblePending' = 1
        BY <2>2, <2>3 DEF VisiblePending
    <2>5. AnswerSeen = "busy" /\ AnswerSeen' = "ok"
        BY <1>1, <2>3 DEF AnswerSeen
    <2>6. SessionSeen = LiveSession /\ SessionSeen' = LiveSession'
        BY <1>1, <1>5 DEF SessionSeen
    <2>7. LiveSession.pending = 0 /\ LiveSession.sample = sample /\ LiveSession.tokens = tokens
        BY <1>2, <2>2 DEF LiveSession
    <2>8. LiveSession' = [tokens |-> Append(tokens, sample), pending |-> 1, sample |-> sample]
        BY <1>1, <1>5, <2>4 DEF LiveSession
    <2>9. SessionSeen # Idle /\ SessionSeen' # Idle
        BY <2>6, LiveIsNotDead
    <2>10. Session!Finish(SessionSeen # Idle /\ SessionSeen' # Idle)
        BY <2>5, <2>9 DEF Session!Finish, AnswerSeen
    <2>11. /\ SessionSeen.pending = 0 /\ SessionSeen.sample # NoToken
           /\ SessionSeen' = [tokens |-> Append(SessionSeen.tokens, SessionSeen.sample),
                              pending |-> 1, sample |-> SessionSeen.sample]
        BY <2>1, <2>6, <2>7, <2>8
    <2>12. Session!Seed
        BY <2>10, <2>11 DEF Session!Seed, SessionSeen, LiveSession
    <2>13. QED
        BY <2>12
<1>6. QED
    BY <1>3, <1>4, <1>5

\* A reset begins, or is turned away.
LEMMA BeginResetMapped ==
    ASSUME InStep, BeginReset
    PROVE  Session!Refuse \/ UNCHANGED Session!sessionVars
<1>1. pc = "enter" /\ UNCHANGED <<tokens, sample, poisoned, frontiers>>
    BY DEF BeginReset, sessVars, engineVars
<1>2. VisiblePending = Pending /\ frame.txn = NoTxn
    BY <1>1, VisibleFacts DEF Outside, InStep, RequestInStep
<1>3. \/ \E st \in Endings : End(st)
      \/ pc' = "reset" /\ frame' = frame
    <2>1. Requested => Checked \in Endings
        BY DEF Requested, Endings
    <2>2. "failed" \in Endings
        BY DEF Endings
    <2>3. QED
        BY <2>1, <2>2 DEF BeginReset
<1>4. VisiblePending' = VisiblePending
    <2>1. pc' = "idle" \/ frame'.txn = NoTxn
        BY <1>2, <1>3 DEF End
    <2>2. VisiblePending' = Pending'
        BY <2>1 DEF VisiblePending
    <2>3. QED
        BY <1>1, <1>2, <2>2 DEF Pending
<1>5. CASE \E st \in Endings : End(st)
    <2>1. pc' = "idle" /\ status' \in Endings
        BY <1>5 DEF End
    <2>2. Session!Refuse
        BY <1>1, <1>4, <2>1, Refused
    <2>3. QED
        BY <2>2
<1>6. CASE pc' = "reset" /\ frame' = frame
    <2>1. UNCHANGED Session!sessionVars
        BY <1>1, <1>4, <1>6, Unnoticed
    <2>2. QED
        BY <2>1
<1>7. QED
    BY <1>3, <1>5, <1>6

\* Both stages have been reset, or the executor fails closed.
LEMMA ResetMapped ==
    ASSUME InStep, GetReset
    PROVE  Session!ResetSession \/ Session!Refuse
<1>1. pc = "reset" /\ ~poisoned
    BY Healthy DEF GetReset, Outside
<1>2. \/ Reset /\ tokens' = <<>> /\ sample' = NoToken /\ poisoned' = poisoned /\ End("ok")
      \/ poisoned' = TRUE /\ End("failed")
    BY DEF GetReset
<1>3. CASE poisoned' = TRUE /\ End("failed")
    <2>1. pc' = "idle" /\ status' \in Endings
        BY <1>3 DEF End, Endings
    <2>2. Session!Refuse
        BY <1>1, <1>3, <2>1, Refused
    <2>3. QED
        BY <2>2
<1>4. CASE Reset /\ tokens' = <<>> /\ sample' = NoToken /\ poisoned' = poisoned /\ End("ok")
    <2>1. pc' = "idle" /\ status' = "ok"
        BY <1>4 DEF End
    <2>2. Pending' = 0
        BY <1>4 DEF Reset, ZeroFrontiers, Pending
    <2>3. VisiblePending' = 0
        BY <2>1, <2>2 DEF VisiblePending
    <2>4. AnswerSeen = "busy" /\ AnswerSeen' = "ok"
        BY <1>1, <2>1 DEF AnswerSeen
    <2>5. SessionSeen = LiveSession /\ SessionSeen' = LiveSession'
        BY <1>1, <1>4 DEF SessionSeen
    <2>6. LiveSession' = [tokens |-> <<>>, pending |-> 0, sample |-> NoToken]
        BY <1>4, <2>3 DEF LiveSession
    <2>7. Session!Finish(SessionSeen # Idle)
        BY <2>4, <2>5, LiveIsNotDead DEF Session!Finish, AnswerSeen
    <2>8. Session!ResetSession
        BY <2>5, <2>6, <2>7 DEF Session!ResetSession, SessionSeen, LiveSession
    <2>9. QED
        BY <2>8
<1>5. QED
    BY <1>2, <1>3, <1>4

\* Stage 0 has closed the transaction, or the executor fails closed.
LEMMA HalfMapped ==
    ASSUME InStep, InStep', StatusExact, GetCommit0 \/ GetRollback0
    PROVE  Session!Refuse \/ UNCHANGED Session!sessionVars
<1>1. pc \in {"commit0", "rollback0"} /\ UNCHANGED <<tokens, sample>>
    BY DEF GetCommit0, GetRollback0
<1>2. pc \in InTxn \cup Committing /\ pc # "idle"
    BY <1>1 DEF InTxn, Committing, RollingBack
<1>3. \/ /\ pc' \in {"commit1", "rollback1"} /\ UNCHANGED <<poisoned, frame>>
      \/ poisoned' = TRUE /\ \E st \in Endings : End(st)
    <2>1. "failed" \in Endings
        BY DEF Endings
    <2>2. pc = "rollback0" => status \in Endings
        BY DEF StatusExact, RollingBack
    <2>3. QED
        BY <2>1, <2>2 DEF GetCommit0, GetRollback0
<1>4. CASE pc' \in {"commit1", "rollback1"} /\ UNCHANGED <<poisoned, frame>>
    <2>1. UNCHANGED Session!sessionVars
        BY <1>1, <1>2, <1>4, InsideMapped
    <2>2. QED
        BY <2>1
<1>5. CASE poisoned' = TRUE /\ \E st \in Endings : End(st)
    <2>1. pc' = "idle" /\ status' \in Endings
        BY <1>5 DEF End
    <2>2. Session!Refuse
        BY <1>2, <1>5, <2>1, Refused
    <2>3. QED
        BY <2>2
<1>6. QED
    BY <1>3, <1>4, <1>5

\* A rolled-back transaction leaves the session as it was.
LEMMA RollbackMapped ==
    ASSUME InStep, InStep', StatusExact, ExactInStep, GetRollback1
    PROVE  Session!Refuse
<1>1. /\ pc = "rollback1" /\ pc \in InTxn /\ pc \in RollingBack /\ UNCHANGED <<tokens, sample>> /\ End(status)
      /\ poisoned' = TRUE \/ Rollback
    BY DEF GetRollback1, InTxn, RollingBack
<1>2. pc' = "idle" /\ status' \in Endings
    BY <1>1 DEF End, StatusExact
<1>3. ~poisoned
    BY <1>1, Healthy DEF Outside
<1>4. CASE poisoned' = TRUE
    BY <1>1, <1>2, <1>4, Refused
<1>5. CASE poisoned' # TRUE
    <2>1. poisoned' \in BOOLEAN
        BY DEF InStep, RequestInStep
    <2>2. poisoned' = FALSE /\ poisoned = FALSE
        BY <1>3, <1>5, <2>1 DEF InStep, RequestInStep
    <2>3. VisiblePending = Len(tokens) - frame.txn.base_target
        <3>1. frame.txn.base_canonical = Len(tokens)
            BY <1>1, <1>3, ExactFacts DEF FrameExact
        <3>2. QED
            BY <1>1, <3>1, VisibleFacts
    <2>4. frontiers'.canonical = Len(tokens)
        BY <1>1, <1>2, <2>2 DEF InStep, FrameInStep, Outside
    <2>5. frontiers'.target = frontiers.target /\ frontiers.target = txn.base_target
        BY <1>1, <1>5 DEF Rollback, InStep, EngineInv, EngineTypeOK, OpenTxnFitsFrontiers
    <2>6. frame.txn.base_target = txn.base_target
        BY <1>1 DEF InStep, FrameInStep
    <2>7. VisiblePending' = Pending'
        BY <1>2 DEF VisiblePending
    <2>8. VisiblePending' = VisiblePending
        BY <2>3, <2>4, <2>5, <2>6, <2>7 DEF Pending
    <2>9. QED
        BY <1>1, <1>2, <2>2, <2>8, Refused
<1>6. QED
    BY <1>4, <1>5

\* What the commit of both stages gives the caller.
LEMMA CommitMoves ==
    ASSUME InStep, ExactInStep, GetCommit1
    PROVE  /\ pc = "commit1" /\ ~poisoned
           /\ \/ poisoned' = TRUE /\ End("failed")
              \/ /\ tokens' = Recorded(frame, tokens, CommitOf(frame)) /\ sample' = frame.next
                 /\ poisoned' = poisoned /\ End("ok") /\ UNCHANGED frontiers
           /\ IsSeq(tokens) /\ EvalInStep(frame, tokens) /\ CommitOf(frame) \in 1..Len(frame.eval)
           /\ frontiers.target = frame.txn.base_target + CommitOf(frame)
           /\ frontiers.canonical = Len(tokens) + AppendedBy(frame)
                                    + (IF frame.op = "append" THEN 0 ELSE CommitOf(frame))
           /\ VisiblePending = Len(tokens) - frame.txn.base_target
           /\ frame.op = "append" => frame.arg \in Seq(Vocab) /\ Len(frame.arg) \in Counts
           /\ frame.next = Greedy(Given(frame, tokens, CommitOf(frame)))
           /\ frame.op # "append" =>
                /\ Verified(frame, tokens, CommitOf(frame) - 1) /\ NoStops(frame, CommitOf(frame) - 1)
<1>1. pc = "commit1" /\ pc \in Committing /\ pc \notin Outside /\ pc # "idle"
    BY DEF GetCommit1, Committing, Outside
<1>2. ~poisoned
    BY <1>1, Healthy
<1>3. /\ IsSeq(tokens) /\ EvalInStep(frame, tokens) /\ CommitOf(frame) \in 1..Len(frame.eval)
      /\ frontiers.target = frame.txn.base_target + CommitOf(frame)
      /\ frontiers.canonical = Len(tokens) + AppendedBy(frame) + txn.publish
      /\ txn.publish = IF frame.op = "append" THEN 0 ELSE CommitOf(frame)
    BY <1>1 DEF InStep, FrameInStep
<1>4. FrameExact("commit1", frame, tokens)
    BY <1>1, <1>2, ExactFacts
<1>5. /\ frame.txn.base_canonical = Len(tokens)
      /\ frame.txn.kind = "decode" => frame.txn.evaluated = 1
      /\ frame.next = Greedy(Given(frame, tokens, CommitOf(frame)))
      /\ frame.txn.kind = "speculative" =>
            Verified(frame, tokens, frame.commit - 1) /\ NoStops(frame, frame.commit - 1)
    BY <1>4 DEF FrameExact, Committing, Deciding
<1>6. VisiblePending = Len(tokens) - frame.txn.base_target
    BY <1>1, <1>5, VisibleFacts
<1>7. frame.op = "append" => frame.arg \in Seq(Vocab) /\ Len(frame.arg) \in Counts
    BY <1>1, RequestFacts DEF InStep, RequestInStep
<1>8. frame.op # "append" =>
          Verified(frame, tokens, CommitOf(frame) - 1) /\ NoStops(frame, CommitOf(frame) - 1)
    <2>1. CASE frame.txn.kind = "speculative"
        BY <1>5, <2>1 DEF CommitOf
    <2>2. CASE frame.op # "append" /\ frame.txn.kind # "speculative"
        <3>1. frame.txn.kind = "decode"
            BY <1>3, <2>2 DEF EvalInStep
        <3>2. CommitOf(frame) = 1
            BY <1>5, <3>1 DEF CommitOf
        <3>3. CommitOf(frame) - 1 = 0
            BY <3>2
        <3>4. Verified(frame, tokens, 0) /\ NoStops(frame, 0)
            BY DEF Verified, NoStops
        <3>5. QED
            BY <3>3, <3>4
    <2>3. QED
        BY <2>1, <2>2
<1>9. \/ poisoned' = TRUE /\ End("failed")
      \/ /\ tokens' = Recorded(frame, tokens, txn.publish) /\ sample' = frame.next
         /\ poisoned' = poisoned /\ End("ok") /\ UNCHANGED frontiers
    BY DEF GetCommit1, Recorded, engineVars
<1>10. Recorded(frame, tokens, txn.publish) = Recorded(frame, tokens, CommitOf(frame))
    BY <1>3 DEF Recorded
<1>11. QED
    BY <1>1, <1>2, <1>3, <1>5, <1>6, <1>7, <1>8, <1>9, <1>10

\* An append takes effect in one step.
LEMMA AppendMapped ==
    ASSUME InStep, ExactInStep, GetCommit1, End("ok"), frame.op = "append",
           tokens' = Recorded(frame, tokens, CommitOf(frame)), sample' = frame.next,
           poisoned' = poisoned, UNCHANGED frontiers
    PROVE  Session!AppendTokens
<1> DEFINE f == frame
           n == CommitOf(frame)
           new == tokens'
<1>1. /\ pc = "commit1" /\ ~poisoned
      /\ IsSeq(tokens) /\ EvalInStep(f, tokens) /\ n \in 1..Len(f.eval)
      /\ frontiers.target = f.txn.base_target + n
      /\ frontiers.canonical = Len(tokens) + AppendedBy(f) + (IF f.op = "append" THEN 0 ELSE n)
      /\ f.arg \in Seq(Vocab) /\ Len(f.arg) \in Counts
      /\ f.next = Greedy(Given(f, tokens, n))
    BY CommitMoves
<1>2. pc' = "idle" /\ status' = "ok"
    BY DEF End
<1>3. /\ Len(new) = Len(tokens) + Len(f.arg) /\ SubSeq(new, 1, Len(tokens)) = tokens
      /\ Len(new) = f.txn.base_target + n /\ new = Given(f, tokens, n)
    BY <1>1, AppendedRows
<1>4. AppendedBy(f) = Len(f.arg)
    BY DEF AppendedBy
<1>5. Len(tokens) \in Nat /\ Len(f.arg) \in Nat /\ Len(f.arg) >= 1 /\ n \in Nat /\ f.txn.base_target \in Nat
    <2>1. Len(tokens) \in Nat /\ Len(f.eval) \in Nat
        BY <1>1, LenProperties DEF IsSeq, EvalInStep
    <2>2. QED
        BY <1>1, <2>1, SessionTxnAssumption DEF Counts, EvalInStep
<1> HIDE DEF n, new
<1>6. Len(new) > Len(tokens)
    BY <1>3, <1>5
<1>7. Pending' = 0
    <2>1. frontiers' = frontiers
        OBVIOUS
    <2>2. f.op = "append"
        OBVIOUS
    <2>3. frontiers.canonical = Len(tokens) + Len(f.arg) + 0
        BY <1>1, <1>4, <2>2
    <2>4. frontiers.canonical = Len(new)
        BY <1>3, <1>5, <2>3
    <2>5. frontiers.target = Len(new) /\ Len(new) \in Nat
        <3>1. frontiers.target = f.txn.base_target + n
            BY <1>1
        <3>2. Len(new) = f.txn.base_target + n
            BY <1>3
        <3>3. f.txn.base_target + n \in Nat
            BY <1>5
        <3>4. QED
            BY <3>1, <3>2, <3>3
    <2>6. Pending' = Len(new) - Len(new)
        BY <2>1, <2>4, <2>5 DEF Pending
    <2>7. QED
        BY <2>5, <2>6
<1>8. VisiblePending' = 0
    BY <1>2, <1>7 DEF VisiblePending
<1>9. AnswerSeen = "busy" /\ AnswerSeen' = "ok"
    BY <1>1, <1>2 DEF AnswerSeen
<1>10. SessionSeen = LiveSession /\ SessionSeen' = LiveSession'
    BY <1>1 DEF SessionSeen
<1>11. LiveSession' = [tokens |-> new, pending |-> 0, sample |-> Greedy(new)]
    BY <1>1, <1>3, <1>8 DEF LiveSession, new
<1>12. LiveSession.tokens = tokens /\ LiveSession'.tokens = new
    BY <1>11 DEF LiveSession
<1>13. Session!Finish(SessionSeen # Idle /\ SessionSeen' # Idle)
    BY <1>9, <1>10, LiveIsNotDead DEF Session!Finish, AnswerSeen
<1>14. /\ Len(SessionSeen'.tokens) > Len(SessionSeen.tokens)
       /\ SubSeq(SessionSeen'.tokens, 1, Len(SessionSeen.tokens)) = SessionSeen.tokens
       /\ SessionSeen' = [tokens |-> SessionSeen'.tokens, pending |-> 0,
                          sample |-> Greedy(SessionSeen'.tokens)]
    BY <1>3, <1>6, <1>10, <1>11, <1>12
<1>15. QED
    BY <1>13, <1>14 DEF Session!AppendTokens, SessionSeen, LiveSession

\* So does a decode, however many tokens it publishes.
LEMMA GenerateMapped ==
    ASSUME InStep, ExactInStep, GetCommit1, End("ok"), frame.op # "append",
           tokens' = Recorded(frame, tokens, CommitOf(frame)), sample' = frame.next,
           poisoned' = poisoned, UNCHANGED frontiers
    PROVE  Session!Generate
<1> DEFINE f == frame
           n == CommitOf(frame)
           new == tokens'
           bt == f.txn.base_target
           old == Len(tokens)
<1>1. /\ pc = "commit1" /\ ~poisoned
      /\ IsSeq(tokens) /\ EvalInStep(f, tokens) /\ n \in 1..Len(f.eval)
      /\ frontiers.target = bt + n
      /\ frontiers.canonical = old + AppendedBy(f) + (IF f.op = "append" THEN 0 ELSE n)
      /\ VisiblePending = old - bt
      /\ f.next = Greedy(Given(f, tokens, n))
      /\ Verified(f, tokens, n - 1) /\ NoStops(f, n - 1)
    BY CommitMoves
<1>2. pc' = "idle" /\ status' = "ok"
    BY DEF End
<1>3. /\ Len(new) = old + n /\ SubSeq(new, 1, old) = tokens
      /\ \A j \in 1..n : SubSeq(new, 1, bt + j) = Given(f, tokens, j)
      /\ \A j \in 1..(n - 1) : new[old + j] = f.eval[j + 1]
      /\ new[old + n] = f.next
      /\ old = bt + 1
    <2>1. f.op # "append" /\ new = Recorded(f, tokens, n) /\ n = CommitOf(f)
        OBVIOUS
    <2>2. IsSeq(tokens) /\ EvalInStep(f, tokens) /\ n \in 1..Len(f.eval)
        BY <1>1
    <2> HIDE DEF f, n, new
    <2>3. QED
        BY <2>1, <2>2, GeneratedRows
<1>4. AppendedBy(f) = 0
    BY DEF AppendedBy
<1>5. old \in Nat /\ n \in Nat /\ n >= 1 /\ bt \in Nat
    <2>1. old \in Nat /\ Len(f.eval) \in Nat
        BY <1>1, LenProperties DEF IsSeq, EvalInStep
    <2>2. QED
        BY <1>1, <2>1 DEF EvalInStep
<1> HIDE DEF n, new, bt, old
<1>6. Len(new) > old
    BY <1>3, <1>5
<1>7. Pending' = 1
    <2>1. frontiers'.canonical = old + 0 + n /\ frontiers'.target = bt + n
        BY <1>1, <1>4 DEF f
    <2>2. (old + 0 + n) - (bt + n) = 1
        BY <1>3, <1>5
    <2>3. QED
        BY <2>1, <2>2 DEF Pending
<1>8. VisiblePending' = 1 /\ VisiblePending = 1
    <2>1. VisiblePending' = 1
        BY <1>2, <1>7 DEF VisiblePending
    <2>2. old - bt = 1
        BY <1>3, <1>5
    <2>3. QED
        BY <1>1, <2>1, <2>2
<1>9. ASSUME NEW i \in (old + 1)..Len(new)
      PROVE  /\ new[i] = Greedy(SubSeq(new, 1, i - 1))
             /\ i # Len(new) => new[i] \notin StopTokens
    <2> DEFINE j == i - old
    <2>1. j \in 1..n /\ i = old + j /\ i - 1 = bt + j
        BY <1>3, <1>5
    <2>2. SubSeq(new, 1, i - 1) = Given(f, tokens, j)
        BY <1>3, <2>1
    <2> HIDE DEF j
    <2>3. CASE j = n
        <3>1. new[i] = f.next /\ i = Len(new)
            BY <1>3, <2>1, <2>3
        <3>2. QED
            BY <1>1, <2>2, <2>3, <3>1
    <2>4. CASE j # n
        <3>1. j \in 1..(n - 1)
            BY <1>5, <2>1, <2>4
        <3>2. new[i] = f.eval[j + 1]
            BY <1>3, <2>1, <3>1
        <3>3. f.eval[j + 1] = Greedy(Given(f, tokens, j)) /\ f.eval[j + 1] \notin StopTokens
            BY <1>1, <3>1 DEF Verified, NoStops
        <3>4. QED
            BY <2>2, <3>2, <3>3
    <2>5. QED
        BY <2>3, <2>4
<1>10. \A i \in (old + 1)..(Len(new) - 1) : new[i] \notin StopTokens
    <2>1. ASSUME NEW i \in (old + 1)..(Len(new) - 1) PROVE new[i] \notin StopTokens
        <3>1. i \in (old + 1)..Len(new) /\ i # Len(new)
            BY <1>3, <1>5
        <3>2. QED
            BY <1>9, <3>1
    <2>2. QED
        BY <2>1
<1>11. new[Len(new)] = f.next
    BY <1>3
<1>12. AnswerSeen = "busy" /\ AnswerSeen' = "ok"
    BY <1>1, <1>2 DEF AnswerSeen
<1>13. SessionSeen = LiveSession /\ SessionSeen' = LiveSession'
    BY <1>1 DEF SessionSeen
<1>14. LiveSession' = [tokens |-> new, pending |-> 1, sample |-> new[Len(new)]]
    BY <1>8, <1>11 DEF LiveSession, new, f
<1>15. LiveSession.tokens = tokens /\ LiveSession'.tokens = new /\ LiveSession.pending = 1
    BY <1>8, <1>14 DEF LiveSession
<1>16. Session!Finish(SessionSeen # Idle /\ SessionSeen' # Idle)
    BY <1>12, <1>13, LiveIsNotDead DEF Session!Finish, AnswerSeen
<1>17. /\ SessionSeen.pending = 1
       /\ SessionSeen.tokens = tokens /\ SessionSeen'.tokens = new /\ Len(tokens) = old
       /\ SessionSeen' = [tokens |-> new, pending |-> 1, sample |-> new[Len(new)]]
    BY <1>13, <1>14, <1>15 DEF old
<1>18. /\ Len(SessionSeen'.tokens) > Len(SessionSeen.tokens)
       /\ SubSeq(SessionSeen'.tokens, 1, Len(SessionSeen.tokens)) = SessionSeen.tokens
    BY <1>3, <1>6, <1>17
<1>19. \A i \in (Len(SessionSeen.tokens) + 1)..Len(SessionSeen'.tokens) :
           SessionSeen'.tokens[i] = Greedy(SubSeq(SessionSeen'.tokens, 1, i - 1))
    BY <1>9, <1>17
<1>20. \A i \in (Len(SessionSeen.tokens) + 1)..(Len(SessionSeen'.tokens) - 1) :
           SessionSeen'.tokens[i] \notin StopTokens
    BY <1>10, <1>17
<1>21. SessionSeen' = [tokens |-> SessionSeen'.tokens, pending |-> 1,
                       sample |-> SessionSeen'.tokens[Len(SessionSeen'.tokens)]]
    BY <1>17
<1>22. QED
    BY <1>16, <1>17, <1>18, <1>19, <1>20, <1>21 DEF Session!Generate, SessionSeen, LiveSession

\* The commit of both stages is the step in which the session takes effect.
LEMMA CommitMapped ==
    ASSUME InStep, ExactInStep, GetCommit1
    PROVE  Session!AppendTokens \/ Session!Generate \/ Session!Refuse
<1>1. /\ pc = "commit1"
      /\ \/ poisoned' = TRUE /\ End("failed")
         \/ /\ tokens' = Recorded(frame, tokens, CommitOf(frame)) /\ sample' = frame.next
            /\ poisoned' = poisoned /\ End("ok") /\ UNCHANGED frontiers
    BY CommitMoves
<1>2. CASE poisoned' = TRUE /\ End("failed")
    <2>1. pc' = "idle" /\ status' \in Endings
        BY <1>2 DEF End, Endings
    <2>2. Session!Refuse
        BY <1>1, <1>2, <2>1, Refused
    <2>3. QED
        BY <2>2
<1>3. CASE /\ tokens' = Recorded(frame, tokens, CommitOf(frame)) /\ sample' = frame.next
           /\ poisoned' = poisoned /\ End("ok") /\ UNCHANGED frontiers
    <2>1. CASE frame.op = "append"
        <3>1. Session!AppendTokens
            BY <1>3, <2>1, AppendMapped
        <3>2. QED
            BY <3>1
    <2>2. CASE frame.op # "append"
        <3>1. Session!Generate
            BY <1>3, <2>2, GenerateMapped
        <3>2. QED
            BY <3>1
    <2>3. QED
        BY <2>1, <2>2
<1>4. QED
    BY <1>1, <1>2, <1>3

\* A step inside a transaction, short of its end.
InsideStep ==
    \/ GetPrefetch \/ GetDraft \/ CheckChunk \/ GetStage0 \/ GetCheckpoint \/ GetStage1
    \/ GetReconcile \/ GetLookahead \/ SealTransaction
    \/ AcknowledgeStage(0) \/ AcknowledgeStage(1) \/ DecideTransaction \/ CommitTransaction

\* The workers, the cancel lane and the clock leave the session alone.
AsideStep ==
    \/ TakeTask(0) \/ TakeTask(1) \/ CompleteTask(0) \/ CompleteTask(1)
    \/ RequestCancel \/ DeadlinePasses \/ UNCHANGED vars

\* A step that leaves the coordinator, the engine and the session as they are.
LEMMA AsideMapped ==
    ASSUME AsideStep
    PROVE  UNCHANGED Session!sessionVars
<1>1. UNCHANGED <<engineVars, sessVars, coordVars>>
    BY DEF AsideStep, TakeTask, CompleteTask, RequestCancel, DeadlinePasses, vars
<1>2. UNCHANGED <<tokens, sample, poisoned, pc, frame, status, frontiers>>
    BY <1>1 DEF engineVars, sessVars, coordVars
<1>3. VisiblePending' = VisiblePending
    BY <1>2 DEF VisiblePending, Pending
<1>4. QED
    BY <1>2, <1>3, Unnoticed

\* The owner closes the executor.
LEMMA FailClosedMapped == FailClosed => Session!Die
<1> SUFFICES ASSUME FailClosed PROVE Session!Die
    OBVIOUS
<1>1. poisoned' = TRUE /\ UNCHANGED <<pc, status>>
    BY DEF FailClosed, coordVars
<1>2. SessionSeen' = Idle /\ AnswerSeen' = AnswerSeen
    BY <1>1 DEF SessionSeen, AnswerSeen
<1>3. QED
    BY <1>2 DEF Session!Die, SessionSeen, AnswerSeen, LiveSession

\* Every step of the executor is a step of its session, or one the caller does
\* not see.
LEMMA SessionStep ==
    ASSUME SessionInv, SessionInv', [DualNext]_vars
    PROVE  [Session!SessionNext]_(Session!sessionVars)
<1>1. InStep /\ InStep' /\ ExactInStep /\ StatusExact
    <2>1. DualInv /\ DualInv' /\ ExactInStep /\ StatusExact
        BY DEF SessionInv
    <2>2. InStep
        BY <2>1, InvIsInStep
    <2>3. InStep'
        BY <2>1 DEF DualInv, InStep, WorkInStep, StagesInStep
    <2>4. QED
        BY <2>1, <2>2, <2>3
<1>2. \/ AsideStep \/ InsideStep \/ RefuseRequest \/ BeginTransaction \/ GetCommit0 \/ GetCommit1
      \/ GetRollback0 \/ GetRollback1 \/ SeedDecode \/ BeginReset \/ GetReset
      \/ (\E r \in Requests : Request(r[1], r[2]))
      \/ FailClosed
    BY CoordinatorCases DEF AsideStep, InsideStep
<1>3. CASE AsideStep
    BY <1>3, AsideMapped
<1>4. CASE InsideStep
    <2>1. /\ pc \in InTxn \cup Committing /\ pc' # "idle" /\ frame'.txn = frame.txn
          /\ UNCHANGED <<tokens, sample, poisoned>>
        BY <1>1, <1>4, InsideTransaction DEF InsideStep
    <2>2. UNCHANGED Session!sessionVars
        BY <1>1, <2>1, InsideMapped
    <2>3. QED
        BY <2>2
<1>5. CASE BeginTransaction
    BY <1>1, <1>5, BeginMapped
<1>6. CASE RefuseRequest \/ GetRollback1
    <2>1. Session!Refuse
        BY <1>1, <1>6, RefuseMapped, RollbackMapped
    <2>2. QED
        BY <2>1 DEF Session!SessionNext
<1>7. CASE GetCommit0 \/ GetRollback0
    <2>1. Session!Refuse \/ UNCHANGED Session!sessionVars
        BY <1>1, <1>7, HalfMapped
    <2>2. QED
        BY <2>1 DEF Session!SessionNext
<1>8. CASE BeginReset
    <2>1. Session!Refuse \/ UNCHANGED Session!sessionVars
        BY <1>1, <1>8, BeginResetMapped
    <2>2. QED
        BY <2>1 DEF Session!SessionNext
<1>9. CASE GetCommit1
    <2>1. Session!AppendTokens \/ Session!Generate \/ Session!Refuse
        BY <1>1, <1>9, CommitMapped
    <2>2. QED
        BY <2>1 DEF Session!SessionNext
<1>10. CASE SeedDecode
    <2>1. Session!Seed \/ Session!Refuse
        BY <1>1, <1>10, SeedMapped
    <2>2. QED
        BY <2>1 DEF Session!SessionNext
<1>11. CASE GetReset
    <2>1. Session!ResetSession \/ Session!Refuse
        BY <1>1, <1>11, ResetMapped
    <2>2. QED
        BY <2>1 DEF Session!SessionNext
<1>12. CASE \E r \in Requests : Request(r[1], r[2])
    <2>1. Session!Call
        BY <1>1, <1>12, RequestMapped
    <2>2. QED
        BY <2>1 DEF Session!SessionNext
<1>13. CASE FailClosed
    <2>1. Session!Die
        BY <1>13, FailClosedMapped
    <2>2. QED
        BY <2>1 DEF Session!SessionNext
<1>14. QED
    BY <1>2, <1>3, <1>4, <1>5, <1>6, <1>7, <1>8, <1>9, <1>10, <1>11, <1>12, <1>13

\* The executor is a token session on every run and for every instance: a request
\* has its whole effect in the step that answers it "ok" and none otherwise; what
\* a decode publishes, drafts and rollbacks in between or not, are the greedy
\* choices of the target model, with a stop token only in the last place.
THEOREM ExecutorIsASession == DualSpec => ImplementsTokenSession
<1>1. DualInit => Session!SessionInit
    <2> SUFFICES ASSUME DualInit PROVE Session!SessionInit
        OBVIOUS
    <2>1. /\ poisoned = FALSE /\ pc = "idle" /\ status = "none" /\ tokens = <<>> /\ sample = NoToken
          /\ VisiblePending = 0
        BY DEF DualInit, VisiblePending, Pending, EngineInit, ZeroFrontiers
    <2>2. QED
        BY <2>1 DEF Session!SessionInit
<1>2. SessionInv /\ SessionInv' /\ [DualNext]_vars => [Session!SessionNext]_(Session!sessionVars)
    BY SessionStep
<1>3. QED
    BY <1>1, <1>2, SessionInvariant, PTL DEF DualSpec, ImplementsTokenSession, Session!SessionSpec

-----------------------------------------------------------------------------
(* The executor's health.                                                  *)

\* The answers somebody waits for: of a transaction that is given up, the
\* rollbacks alone.
Awaited(at, call) ==
    \/ at \in Opening
    \/ at \in RollingBack /\ call = "rollback"
    \/ at \in Committing /\ call = "commit"
    \/ at = "reset"

NoFailures(at, fu) == \A k \in DOMAIN fu : Awaited(at, k[2]) => fu[k].st \notin {"failed", "malformed"}

\* Stage 0 has the checkpoint a rejected draft falls back on.
CheckpointInStep(at, f, fu, b) ==
    /\ /\ f.txn.kind = "speculative" /\ NextOf(f) < f.txn.evaluated
       /\ \/ at \in {"stage1", "reconcile", "lookahead"}
          \/ at = "checkpoint" /\ Arrived(fu, 0, "checkpoint", NextOf(f))
       => b.ckpt = NextOf(f)
    /\ /\ f.extent < f.txn.evaluated
       /\ \/ at \in Deciding
          \/ at = "commit0" /\ ~Answered(fu, 0, "commit", CommitOf(f))
       => b.ckpt = f.extent

HealthInStep ==
    /\ ~poisoned
    /\ pc \in RollingBack => status # "failed"
    /\ NoFailures(pc, fut)
    /\ CheckpointInStep(pc, frame, fut, backend[0])

\* A request ends, and the executor is as healthy as before.
LEMMA OverHealthy ==
    ASSUME HealthInStep, poisoned' = poisoned, NEW st, End(st)
    PROVE  HealthInStep'
<1>1. pc' = "idle" /\ fut' = <<>>
    BY DEF End
<1>2. ~poisoned'
    BY DEF HealthInStep
<1>3. NoFailures(pc', fut')
    BY <1>1 DEF NoFailures
<1>4. CheckpointInStep(pc', frame', fut', backend'[0])
    BY <1>1 DEF CheckpointInStep, Deciding
<1>5. pc' \notin RollingBack
    BY <1>1 DEF RollingBack
<1>6. QED
    BY <1>2, <1>3, <1>4, <1>5 DEF HealthInStep

\* A stage that holds the rows before a chunk takes the chunk.
LEMMA HoldsAccepts ==
    ASSUME NEW f, NEW base, NEW b, NEW n, Within(b, base, f.txn, f.eval),
           Len(base) = f.txn.base_target, f.txn.epoch \in Nat \ {0}, Holds(b, f, n)
    PROVE  ExecuteAccepted(b, f.txn, n)
<1>1. CASE n = 0
    <2>1. b.prov = 0
        BY <1>1 DEF Holds
    <2>2. b = AtRest(base, f.txn.epoch - 1)
        BY <2>1 DEF Within
    <2>3. b.epoch = f.txn.epoch - 1 /\ b.rows = base
        BY <2>2, RestFacts
    <2>4. f.txn.epoch > f.txn.epoch - 1
        OBVIOUS
    <2>5. f.txn.epoch > b.epoch /\ f.txn.base_target = Len(b.rows)
        BY <2>3, <2>4
    <2>6. QED
        BY <1>1, <2>1, <2>5 DEF ExecuteAccepted
<1>2. CASE n # 0
    BY <1>2 DEF Holds, ExecuteAccepted
<1>3. QED
    BY <1>1, <1>2

\* One that holds neither an older nor a foreign transaction rolls this one back.
LEMMA WithinRollsBack ==
    ASSUME NEW b, NEW base, NEW t, NEW eval, Within(b, base, t, eval), t.epoch \in Nat \ {0}
    PROVE  RollbackAccepted(b, t.epoch)
<1>1. CASE b = AtRest(base, t.epoch - 1)
    <2>1. b.epoch = t.epoch - 1 /\ b.prov = 0
        BY <1>1, RestFacts
    <2>2. t.epoch > t.epoch - 1
        OBVIOUS
    <2>3. QED
        BY <2>1, <2>2 DEF RollbackAccepted
<1>2. CASE b.prov = t.epoch
    BY <1>2 DEF RollbackAccepted
<1>3. QED
    BY <1>1, <1>2 DEF Within

\* The chunks of a transaction that is not given up are accepted.
LEMMA ChunkAccepted ==
    ASSUME InStep, ExactInStep, ~poisoned, NEW s \in Stages, NEW t, t = running[s], pc \in Opening,
           Plain(pc, frame, s, t), t.call \in Executes, ~Answered(fut, s, t.call, t.n)
    PROVE  Accepts(s, backend[s], t)
<1> DEFINE f == frame
           b == backend[s]
           n == t.n
           base == SubSeq(tokens, 1, f.txn.base_target)
<1>1. CallContext(pc, f, tokens, s, b, t)
    BY ContextHolds
<1>2. /\ IsSeq(f.eval) /\ Len(f.eval) = f.txn.evaluated /\ f.txn.epoch \in Nat \ {0}
      /\ Within(b, base, f.txn, f.eval) /\ TaskExact(f, tokens, t)
    BY <1>1 DEF CallContext
<1>3. t.txn = f.txn /\ PlainCall(pc, f, s, t.call, n)
    BY DEF Plain
<1>4. t.call = ExecuteOf(s) /\ n = NextRun(pc, f, s) /\ pc \in Working
    BY <1>3 DEF PlainCall, ExecuteOf, NextRun, Stages, Working, Opening, Executes
<1>5. RowsCounted(pc, f, fut, s, b)
    BY DEF ExactInStep, StageExact
<1>6. Holds(b, f, n)
    BY <1>4, <1>5 DEF RowsCounted
<1>7. Len(base) = f.txn.base_target
    <2>1. EngineInv /\ FrameInStep /\ pc \in InTxn \cup Committing
        BY OpeningFacts
    <2>2. Len(tokens) \in Nat /\ f.txn.base_target \in 0..Len(tokens) /\ IsSeq(tokens)
        BY <2>1, FrameFacts DEF FrameInStep
    <2>3. 0 \in 0..Len(tokens) /\ f.txn.base_target \in 0..Len(tokens)
        BY <2>2
    <2>4. QED
        BY <2>2, <2>3, PrefixGrows
<1> HIDE DEF base
<1>8. ExecuteAccepted(b, f.txn, n)
    BY <1>2, <1>6, <1>7, HoldsAccepts
<1>9. t.call = "execute1" => BoundaryMatches(t.boundary, t.txn, n, Len(t.toks))
    <2> SUFFICES ASSUME t.call = "execute1" PROVE BoundaryMatches(t.boundary, t.txn, n, Len(t.toks))
        OBVIOUS
    <2>1. t.boundary = Boundary(f, tokens, n)
        BY <1>2 DEF TaskExact
    <2> DEFINE b2 == Executed(b, t.txn, t.toks)
    <2>2. AfterCall(s, b, t, b2)
        BY <1>3, <1>8 DEF AfterCall
    <2> HIDE DEF b2
    <2>3. Len(t.toks) = ChunkLen(f, n)
        BY <1>1, <2>2, ExecuteLeaves
    <2>4. QED
        BY <1>3, <2>1, <2>3 DEF BoundaryMatches, Boundary
<1>10. QED
    BY <1>3, <1>8, <1>9 DEF Accepts, Executes

\* So is the checkpoint.
LEMMA CheckpointIsAccepted ==
    ASSUME InStep, ExactInStep, ~poisoned, NEW t, pc \in Opening,
           Plain(pc, frame, 0, t), t.call = "checkpoint"
    PROVE  CheckpointAccepted(backend[0], t.txn.epoch, t.n) /\ pc = "checkpoint" /\ t.n = NextOf(frame)
<1>1. pc = "checkpoint" /\ t.n = NextOf(frame) /\ t.txn = frame.txn
    BY DEF Plain, PlainCall, Opening, RollingBack
<1>2. RowsCounted(pc, frame, fut, 0, backend[0]) /\ FrameExact(pc, frame, tokens)
    BY ExactFacts
<1>3. Holds(backend[0], frame, NextOf(frame)) /\ frame.txn.kind = "speculative"
    BY <1>1, <1>2 DEF RowsCounted, FrameExact
<1>4. NextOf(frame) \in Nat /\ NextOf(frame) > 0
    <2>1. frame.txn.evaluated \in Nat /\ frame.off \in 0..(frame.txn.evaluated - 1)
          /\ NextOf(frame) \in (frame.off + 1)..frame.txn.evaluated
        BY OpeningFacts
    <2>2. QED
        BY <2>1
<1>5. QED
    BY <1>1, <1>3, <1>4 DEF Holds, CheckpointAccepted

\* And the commit: all rows are there, or as many as were verified, or the one row
\* that stage 0 ran ahead by, behind its checkpoint.
LEMMA CommitIsAccepted ==
    ASSUME ~PleStage0, InStep, ExactInStep, HealthInStep, NEW s \in Stages, NEW t,
           Closing(pc, frame, s, t), t.call = "commit", ~Answered(fut, s, t.call, t.n)
    PROVE  CommitAccepted(backend[s], s, t.txn.epoch, t.n)
<1> DEFINE f == frame
           b == backend[s]
           n == t.n
<1>1. /\ pc = "commit0" \/ (pc = "commit1" /\ s = 1)
      /\ n = CommitOf(f) /\ t.txn = f.txn /\ pc \in Committing
    BY DEF Closing, ClosingCall, Committing
<1>2. RowsCounted(pc, f, fut, s, b) /\ FrameExact(pc, f, tokens) /\ CheckpointInStep(pc, f, fut, backend[0])
    BY ExactFacts DEF HealthInStep, ExactInStep, StageExact
<1>3. Holds(b, f, Extent(f, s))
    BY <1>1, <1>2 DEF RowsCounted
<1>4. /\ f.extent \in 1..f.txn.evaluated
      /\ IF f.txn.kind = "speculative"
         THEN f.commit \in 1..f.extent /\ (f.extent < f.txn.evaluated => f.commit = f.extent)
         ELSE f.extent = f.txn.evaluated
    BY <1>1, <1>2 DEF FrameExact
<1>5. f.txn.evaluated \in Nat
    BY <1>1, FrameFacts DEF InStep
<1>6. /\ n \in 1..f.extent /\ f.extent \in Nat
      /\ f.extent < f.txn.evaluated => n = f.extent /\ f.txn.kind = "speculative"
    <2>1. CASE f.txn.kind = "speculative"
        BY <1>1, <1>4, <1>5, <2>1 DEF CommitOf
    <2>2. CASE f.txn.kind # "speculative"
        BY <1>1, <1>4, <1>5, <2>2 DEF CommitOf
    <2>3. QED
        BY <2>1, <2>2
<1>7. /\ s = 0 /\ f.extent < f.txn.evaluated => Extent(f, s) = f.extent + 1
      /\ ~(s = 0 /\ f.extent < f.txn.evaluated) => Extent(f, s) = f.extent
    BY DEF Extent
<1>8. s = 0 /\ f.extent < f.txn.evaluated => b.ckpt = f.extent
    BY <1>1, <1>2 DEF CheckpointInStep
<1> HIDE DEF f, b, n
<1>9. Extent(f, s) # 0
    BY <1>4, <1>5, <1>7
<1>10. /\ b.prov = f.txn.epoch /\ b.expected = f.txn.evaluated /\ b.kind = f.txn.kind
       /\ Len(b.ptoks) = Extent(f, s)
    BY <1>3, <1>9 DEF Holds
<1>11. n \in 1..Len(b.ptoks)
    BY <1>4, <1>5, <1>6, <1>7, <1>10
<1>12. \/ Len(b.ptoks) = b.expected
       \/ b.kind = "speculative" /\ Len(b.ptoks) = n
       \/ b.kind = "speculative" /\ Len(b.ptoks) = n + 1 /\ b.ckpt = n
    <2>1. CASE f.extent < f.txn.evaluated /\ s = 0
        BY <1>6, <1>7, <1>8, <1>10, <2>1
    <2>2. CASE f.extent < f.txn.evaluated /\ s # 0
        BY <1>6, <1>7, <1>10, <2>2
    <2>3. CASE ~(f.extent < f.txn.evaluated)
        <3>1. f.extent = f.txn.evaluated
            BY <1>4, <1>5, <2>3
        <3>2. QED
            BY <1>7, <1>10, <2>3, <3>1
    <2>4. QED
        BY <2>1, <2>2, <2>3
<1>13. t.txn.epoch = b.prov
    BY <1>1, <1>10 DEF f
<1>14. CommitAccepted(b, s, t.txn.epoch, n)
    BY <1>11, <1>12, <1>13 DEF CommitAccepted
<1>15. QED
    BY <1>14 DEF b, n

\* Without faults, a call that somebody waits for is accepted.
LEMMA AwaitedAccepted ==
    ASSUME ~PleStage0, InStep, ExactInStep, HealthInStep, NEW s \in Stages, NEW t, t = running[s], t # Idle,
           Plain(pc, frame, s, t) \/ Closing(pc, frame, s, t), Awaited(pc, t.call)
    PROVE  Accepts(s, backend[s], t)
<1>0. ~poisoned /\ ~Answered(fut, s, t.call, t.n)
    <2>1. ~poisoned
        BY DEF HealthInStep
    <2>2. WorkUnanswered(fut, s, running[s], queue[s])
        BY <2>1, Healthy
    <2>3. QED
        BY <2>1, <2>2 DEF WorkUnanswered, Answered
<1>1. CASE Plain(pc, frame, s, t)
    <2>1. t.call \in LoopCalls /\ pc \in Opening
        BY <1>1, CallKinds DEF Awaited, LoopCalls, RollingBack, Committing, Opening
    <2>2. CASE t.call \in Executes
        BY <1>0, <1>1, <2>1, <2>2, ChunkAccepted
    <2>3. CASE t.call = "checkpoint"
        <3>1. s = 0
            BY <1>1, <2>1, <2>3 DEF Plain, PlainCall, Opening, Stages
        <3>2. CheckpointAccepted(backend[s], t.txn.epoch, t.n)
            BY <1>0, <1>1, <2>1, <2>3, <3>1, CheckpointIsAccepted
        <3>3. QED
            BY <2>3, <3>2 DEF Accepts
    <2>4. CASE t.call \in {"draft", "prefetch", "reconcile"}
        BY <2>4 DEF Accepts
    <2>5. QED
        BY <2>1, <2>2, <2>3, <2>4 DEF LoopCalls, Executes
<1>2. CASE Closing(pc, frame, s, t)
    <2>1. t.call \in ClosingCalls /\ ClosingCall(pc, frame, s, t.call, t.n) /\ t.txn = frame.txn
        BY <1>2, CallKinds DEF Closing
    <2>2. CASE t.call = "commit"
        <3>1. CommitAccepted(backend[s], s, t.txn.epoch, t.n)
            BY <1>0, <1>2, <2>2, CommitIsAccepted
        <3>2. QED
            BY <2>2, <3>1 DEF Accepts
    <2>3. CASE t.call = "rollback"
        <3>1. pc \in RollingBack /\ (pc = "rollback1" => s = 1) /\ t.n = 0 /\ pc \in InTxn
            BY <2>1, <2>3 DEF ClosingCall, RollingBack, InTxn
        <3>2. BackendInStep(pc, frame, tokens, fut, s, backend[s])
            BY <1>0, Healthy
        <3>3. Within(backend[s], SubSeq(tokens, 1, frame.txn.base_target), frame.txn, frame.eval)
            BY <1>0, <2>3, <3>1, <3>2 DEF BackendInStep, Closed
        <3>4. frame.txn.epoch \in Nat \ {0}
            BY <3>1, FrameFacts DEF InStep
        <3>5. RollbackAccepted(backend[s], t.txn.epoch)
            BY <2>1, <3>3, <3>4, WithinRollsBack
        <3>6. QED
            BY <2>3, <3>5 DEF Accepts
    <2>4. CASE t.call = "reset"
        <3>1. pc = "reset" /\ t.n = 0
            BY <2>1, <2>4 DEF ClosingCall
        <3>2. RowsCounted(pc, frame, fut, s, backend[s])
            BY <1>0 DEF ExactInStep, StageExact
        <3>3. backend[s].prov = 0
            BY <1>0, <2>4, <3>1, <3>2 DEF RowsCounted
        <3>4. QED
            BY <2>4, <3>3 DEF Accepts, ResetAccepted
    <2>5. QED
        BY <2>1, <2>2, <2>3, <2>4 DEF ClosingCalls
<1>3. QED
    BY <1>1, <1>2

\* One answer more is no failure, if that one is none.
LEMMA NoFailuresMore ==
    ASSUME NEW at, NEW fu, NEW s, NEW t, NEW res, NEW fu2, NoFailures(at, fu), Added(fu, s, t, res, fu2),
           Awaited(at, t.call) => res.st \notin {"failed", "malformed"}
    PROVE  NoFailures(at, fu2)
<1> DEFINE k0 == <<s, t.call, t.n>>
<1>1. DOMAIN fu2 = DOMAIN fu \cup {k0} /\ fu2[k0] = res /\ \A k \in DOMAIN fu : k # k0 => fu2[k] = fu[k]
    BY DEF Added
<1>2. k0[2] = t.call
    OBVIOUS
<1> HIDE DEF k0
<1>3. ASSUME NEW k \in DOMAIN fu2, Awaited(at, k[2]) PROVE fu2[k].st \notin {"failed", "malformed"}
    <2>1. CASE k = k0
        BY <1>1, <1>2, <1>3, <2>1
    <2>2. CASE k # k0
        <3>1. k \in DOMAIN fu /\ fu2[k] = fu[k]
            BY <1>1, <2>2
        <3>2. QED
            BY <1>3, <3>1 DEF NoFailures
    <2>3. QED
        BY <2>1, <2>2
<1>4. QED
    BY <1>3 DEF NoFailures

\* What a worker does while the checkpoint matters.
LEMMA CheckpointKept ==
    ASSUME NEW at, NEW f, NEW fu, NEW fu2, NEW b, NEW b2, NEW s, NEW t, NEW res,
           CheckpointInStep(at, f, fu, b), Added(fu, s, t, res, fu2), b2.ckpt = b.ckpt,
           s # 0 \/ t.call # "checkpoint" \/ res.st \notin Values
    PROVE  CheckpointInStep(at, f, fu2, b2)
<1>1. ASSUME Arrived(fu2, 0, "checkpoint", NextOf(f)) PROVE Arrived(fu, 0, "checkpoint", NextOf(f))
    <2> DEFINE k == <<0, "checkpoint", NextOf(f)>>
    <2>1. k \in DOMAIN fu2 /\ fu2[k].st \in Values
        BY <1>1 DEF Arrived, Answered
    <2>2. CASE k = <<s, t.call, t.n>>
        <3>1. s = 0 /\ t.call = "checkpoint" /\ fu2[k] = res
            BY <2>2 DEF Added
        <3>2. QED
            BY <2>1, <3>1
    <2>3. CASE k # <<s, t.call, t.n>>
        BY <2>1, <2>3 DEF Added, Arrived, Answered
    <2>4. QED
        BY <2>2, <2>3
<1>2. ~Answered(fu2, 0, "commit", CommitOf(f)) => ~Answered(fu, 0, "commit", CommitOf(f))
    BY DEF Added, Answered
<1>3. QED
    BY <1>1, <1>2 DEF CheckpointInStep

\* A worker takes a task.
LEMMA TakeHealthy ==
    ASSUME InStep, HealthInStep, NEW s \in Stages, TakeTask(s)
    PROVE  HealthInStep'
<1>1. ~poisoned /\ NoFailures(pc, fut) /\ CheckpointInStep(pc, frame, fut, backend[0])
      /\ (pc \in RollingBack => status # "failed")
    BY DEF HealthInStep
<1>2. UNCHANGED <<pc, frame, tokens, poisoned, backend, status>>
    BY <1>1, TakeEffect
<1>3. CASE fut' = fut
    BY <1>1, <1>2, <1>3 DEF HealthInStep
<1>4. CASE \E t, res :
              /\ fut' = Answer(s, t, res) /\ res.st \in {"cancelled", "deadline"}
              /\ t.call \in ChecksToken
    <2>1. PICK t, res : /\ fut' = Answer(s, t, res) /\ res.st \in {"cancelled", "deadline"}
                        /\ t.call \in ChecksToken
        BY <1>4
    <2>2. Added(fut, s, t, res, fut')
        BY <2>1, AnswerFacts DEF Added
    <2>3. res.st \notin {"failed", "malformed"} /\ t.call # "checkpoint"
        BY <2>1 DEF ChecksToken
    <2> DEFINE fu2 == fut'
               b == backend[0]
    <2>4. Added(fut, s, t, res, fu2) /\ b.ckpt = b.ckpt /\ CheckpointInStep(pc, frame, fut, b)
        BY <1>1, <2>2
    <2> HIDE DEF fu2, b
    <2>5. NoFailures(pc, fu2)
        BY <1>1, <2>3, <2>4, NoFailuresMore
    <2>6. CheckpointInStep(pc, frame, fu2, b)
        BY <2>3, <2>4, CheckpointKept
    <2>7. QED
        BY <1>1, <1>2, <2>5, <2>6 DEF HealthInStep, fu2, b
<1>5. QED
    BY <1>1, <1>3, <1>4, TakeEffect

\* The checkpoint of stage 0 after a call of either stage.
LEMMA CheckpointMoves ==
    ASSUME ~PleStage0, InStep, ExactInStep, HealthInStep, NEW s \in Stages, NEW t, NEW res, NEW b2, NEW fu2,
           CallContext(pc, frame, tokens, s, backend[s], t), CallEnded(s, backend[s], t, b2, res),
           Added(fut, s, t, res, fu2), NEW c, c = IF s = 0 THEN b2 ELSE backend[0]
    PROVE  CheckpointInStep(pc, frame, fu2, c)
<1> DEFINE f == frame
           b == backend[0]
<1>1. CheckpointInStep(pc, f, fut, b)
    BY DEF HealthInStep
<1>2. CASE s = 1
    <2>1. c = b /\ s # 0
        BY <1>2
    <2>2. c.ckpt = b.ckpt
        BY <2>1
    <2> HIDE DEF f, b
    <2>3. QED
        BY <1>1, <2>1, <2>2, CheckpointKept DEF f
<1>3. CASE s = 0 /\ pc \in Opening
    <2>1. Plain(pc, f, s, t)
        BY <1>3 DEF CallContext, Closing, ClosingCall, Opening
    <2>2. /\ Within(b, SubSeq(tokens, 1, f.txn.base_target), f.txn, f.eval)
          /\ c = b2 /\ (c = b \/ AfterCall(s, b, t, c))
        BY <1>3 DEF CallContext, CallEnded
    <2>3. t.call \in {"execute0", "prefetch", "checkpoint"}
        BY <1>3, <2>1 DEF Plain, PlainCall, Opening, RollingBack
    <2>4. CASE t.call = "execute0"
        <3>1. c.ckpt = b.ckpt
            <4>1. AfterCall(s, backend[s], t, b2) => b2.ckpt = backend[s].ckpt
                BY <1>3, <2>4, ExecuteLeaves DEF Executes
            <4>2. QED
                BY <1>3, <2>2, <4>1
        <3> HIDE DEF f, b
        <3>2. QED
            BY <1>1, <2>4, <3>1, CheckpointKept DEF f
    <2>5. CASE t.call = "prefetch"
        <3>1. c.ckpt = b.ckpt
            BY <2>2, <2>5 DEF AfterCall
        <3> HIDE DEF f, b
        <3>2. QED
            BY <1>1, <2>5, <3>1, CheckpointKept DEF f
    <2>6. CASE t.call = "checkpoint"
        <3>1. pc = "checkpoint" /\ t.n = NextOf(f)
            BY <1>3, <2>1, <2>6 DEF Plain, PlainCall, Opening, RollingBack
        <3>2. ASSUME Arrived(fu2, 0, "checkpoint", NextOf(f)) PROVE c.ckpt = NextOf(f)
            <4>1. res.st \in Values
                BY <1>3, <2>6, <3>1, <3>2 DEF Arrived, Added
            <4>2. c = Checkpointed(b, t.n)
                BY <1>3, <2>2, <2>6, <4>1 DEF CallEnded, AfterCall
            <4>3. DOMAIN b = {"rows", "epoch", "prov", "base", "expected", "kind", "ptoks", "ckpt"}
                BY <2>2, RestFacts, BackendFields DEF Within
            <4> HIDE DEF b
            <4>4. c = [b EXCEPT !.ckpt = t.n]
                BY <4>2 DEF Checkpointed
            <4>5. c.ckpt = t.n
                BY <4>3, <4>4
            <4>6. QED
                BY <3>1, <4>5
        <3>3. pc \notin Deciding \cup {"commit0", "stage1", "reconcile", "lookahead"}
            BY <3>1 DEF Deciding
        <3>4. QED
            BY <3>2, <3>3 DEF CheckpointInStep
    <2>7. QED
        BY <2>3, <2>4, <2>5, <2>6
<1>4. CASE s = 0 /\ pc \notin Opening
    <2>1. pc \notin Deciding /\ pc \notin {"stage1", "reconcile", "lookahead", "checkpoint"}
        BY <1>4 DEF CallContext, Plain, PlainCall, Closing, ClosingCall, Deciding, Opening
    <2>2. pc = "commit0" => t.call = "commit" /\ t.n = CommitOf(f)
        BY <1>4 DEF CallContext, Plain, PlainCall, Closing, ClosingCall
    <2>3. pc = "commit0" => Answered(fu2, 0, "commit", CommitOf(f))
        BY <1>4, <2>2 DEF Answered, Added
    <2>4. QED
        BY <2>1, <2>3 DEF CheckpointInStep
<1>5. QED
    BY <1>2, <1>3, <1>4 DEF Stages

\* A worker finishes one.
LEMMA CompleteHealthy ==
    ASSUME ~Faults, ~PleStage0, InStep, ExactInStep, HealthInStep, NEW s \in Stages, CompleteTask(s)
    PROVE  HealthInStep'
<1> DEFINE t == running[s]
           b2 == backend'[s]
<1>1. ~poisoned /\ NoFailures(pc, fut) /\ (pc \in RollingBack => status # "failed")
    BY DEF HealthInStep
<1>2. /\ UNCHANGED <<pc, frame, tokens, poisoned, status>>
      /\ \A r \in Stages : r # s => backend'[r] = backend[r]
      /\ Plain(pc, frame, s, t) \/ Closing(pc, frame, s, t)
      /\ \E res : /\ fut' = Answer(s, t, res)
                  /\ CallEnded(s, backend[s], t, b2, res)
                  /\ ~Faults /\ Accepts(s, backend[s], t) => res.st \notin {"failed", "malformed"}
    BY <1>1, CompleteEffect
<1>3. t = running[s] /\ t # Idle
    BY DEF CompleteTask
<1> HIDE DEF t, b2
<1>4. PICK res : /\ fut' = Answer(s, t, res)
                 /\ CallEnded(s, backend[s], t, b2, res)
                 /\ ~Faults /\ Accepts(s, backend[s], t) => res.st \notin {"failed", "malformed"}
    BY <1>2
<1>5. Awaited(pc, t.call) => res.st \notin {"failed", "malformed"}
    BY <1>2, <1>3, <1>4, AwaitedAccepted
<1> DEFINE fu2 == fut'
<1>6. Added(fut, s, t, res, fu2)
    BY <1>4, AnswerFacts DEF Added
<1>7. CallContext(pc, frame, tokens, s, backend[s], t)
    BY <1>1, <1>2, <1>3, ContextHolds
<1> DEFINE c == backend'[0]
<1>8. c = IF s = 0 THEN b2 ELSE backend[0]
    BY <1>2 DEF b2, Stages
<1> HIDE DEF fu2, c
<1>9. NoFailures(pc, fu2)
    BY <1>1, <1>5, <1>6, NoFailuresMore
<1>10. CheckpointInStep(pc, frame, fu2, c)
    BY <1>4, <1>6, <1>7, <1>8, CheckpointMoves
<1>11. QED
    BY <1>1, <1>2, <1>9, <1>10 DEF HealthInStep, fu2, c

\* The answers that are there are no failures, wherever the coordinator goes.
LEMMA NoFailuresKept ==
    ASSUME InStep, ~poisoned, NoFailures(pc, fut), fut' = fut,
           pc' \in Opening => pc \in Opening \cup Outside, pc' = "reset" => pc \in Outside
    PROVE  NoFailures(pc', fut')
<1>1. CASE pc \in Outside
    <2>1. DOMAIN fut = {}
        BY <1>1, OutsideFacts
    <2>2. QED
        BY <2>1 DEF NoFailures
<1>2. CASE pc \notin Outside
    <2>1. AnswersInStep(pc, frame, fut)
        BY Healthy
    <2>2. ASSUME NEW k \in DOMAIN fut, Awaited(pc', k[2]) PROVE Awaited(pc, k[2])
        <3>1. AnswerInStep(pc, frame, k[2], k[3])
            BY <2>1 DEF AnswersInStep
        <3>2. /\ k[2] = "rollback" => pc \in RollingBack
              /\ k[2] = "commit" => pc \in Committing
            BY <3>1 DEF AnswerInStep
        <3>3. QED
            BY <1>2, <2>2, <3>2 DEF Awaited
    <2>3. QED
        BY <2>2 DEF NoFailures
<1>3. QED
    BY <1>1, <1>2

\* An awaited answer is a value, or the token was tripped.
LEMMA AwaitedAnswer ==
    ASSUME ExactInStep, HealthInStep, NEW s, NEW c, NEW n, Answered(fut, s, c, n), Awaited(pc, c)
    PROVE  LET st == fut[<<s, c, n>>].st IN
           /\ st \in {"ok", "cancelled", "deadline"}
           /\ c \notin ChecksToken => st = "ok"
<1> DEFINE k == <<s, c, n>>
<1>1. ~poisoned /\ NoFailures(pc, fut)
    BY DEF HealthInStep
<1>2. AnswersExact(pc, frame, tokens, fut)
    BY <1>1, ExactFacts
<1>3. AnswerExact(pc, frame, tokens, c, n, fut[k]) /\ fut[k].st \in {"ok", "malformed"} \cup Endings
    BY <1>2, AnswerIsExact
<1>4. k \in DOMAIN fut /\ k[2] = c
    BY DEF Answered
<1>5. fut[k].st \notin {"failed", "malformed"}
    BY <1>1, <1>4 DEF NoFailures
<1>6. c \notin ChecksToken => fut[k].st \notin {"cancelled", "deadline"}
    BY <1>3 DEF AnswerExact
<1>7. QED
    BY <1>3, <1>5, <1>6 DEF Endings

\* A transaction is given up for the token's sake.
LEMMA ThrowHealthy ==
    ASSUME InStep, HealthInStep, NEW st, Throw(st), st \in {"cancelled", "deadline"}, poisoned' = poisoned
    PROVE  HealthInStep'
<1>1. pc' = "rollback0" /\ status' = st /\ fut' = fut
    BY DEF Throw
<1>2. ~poisoned /\ NoFailures(pc, fut)
    BY DEF HealthInStep
<1>3. NoFailures(pc', fut')
    BY <1>1, <1>2, NoFailuresKept DEF Opening
<1>4. CheckpointInStep(pc', frame', fut', backend'[0])
    BY <1>1 DEF CheckpointInStep, Deciding
<1>5. QED
    BY <1>1, <1>2, <1>3, <1>4 DEF HealthInStep

\* The coordinator moves on, with the checkpoint if it needs one.
LEMMA MoveHealthy ==
    ASSUME InStep, HealthInStep, UNCHANGED <<poisoned, status, fut, backend>>,
           pc' \in Opening => pc \in Opening \cup Outside, pc' = "reset" => pc \in Outside,
           pc' \in RollingBack => pc \in RollingBack,
           CheckpointInStep(pc', frame', fut, backend[0])
    PROVE  HealthInStep'
<1>1. ~poisoned /\ NoFailures(pc, fut) /\ (pc \in RollingBack => status # "failed")
    BY DEF HealthInStep
<1>2. NoFailures(pc', fut')
    BY <1>1, NoFailuresKept
<1>3. QED
    BY <1>1, <1>2 DEF HealthInStep

\* Where it needs none.
LEMMA NoCheckpoint ==
    ASSUME NEW at, NEW f, NEW fu, NEW b,
           at \notin {"stage1", "reconcile", "lookahead", "checkpoint", "commit0"} \cup Deciding
    PROVE  CheckpointInStep(at, f, fu, b)
    BY DEF CheckpointInStep

\* The answers without a value: the prefetch, the draft, the reconciliation.
LEMMA PlainAnswersHealthy ==
    ASSUME InStep, ExactInStep, HealthInStep, GetPrefetch \/ GetDraft \/ GetReconcile
    PROVE  HealthInStep'
<1>1. PICK r :
        /\ r.st \in {"ok", "cancelled", "deadline"}
        /\ \/ Throw(r.st) /\ r.st # "ok" /\ poisoned' = poisoned
           \/ /\ UNCHANGED <<poisoned, status, fut, backend>> /\ pc' = "chunk" /\ pc \in Opening
    <2>1. CASE GetPrefetch
        <3> DEFINE r == fut[<<0, "prefetch", 0>>]
        <3>1. /\ Answered(fut, 0, "prefetch", 0) /\ pc \in Opening
              /\ \/ Throw(r.st) /\ r.st # "ok" /\ poisoned' = poisoned
                 \/ UNCHANGED <<poisoned, status, fut, backend>> /\ pc' = "chunk"
            BY <2>1 DEF GetPrefetch, Ready, Got, Answered, Opening, sessVars
        <3>2. r.st \in {"ok", "cancelled", "deadline"}
            BY <3>1, AwaitedAnswer DEF Awaited
        <3> HIDE DEF r
        <3>3. QED
            BY <3>1, <3>2
    <2>2. CASE GetDraft
        <3> DEFINE r == fut[<<1, "draft", Len(frame.eval) - 1>>]
        <3>1. /\ Answered(fut, 1, "draft", Len(frame.eval) - 1) /\ pc \in Opening
              /\ \/ Throw(r.st) /\ r.st # "ok" /\ poisoned' = poisoned
                 \/ UNCHANGED <<poisoned, status, fut, backend>> /\ pc' = "chunk"
            BY <2>2 DEF GetDraft, Ready, Got, Answered, Opening, sessVars
        <3>2. r.st \in {"ok", "cancelled", "deadline"}
            BY <3>1, AwaitedAnswer DEF Awaited
        <3> HIDE DEF r
        <3>3. QED
            BY <3>1, <3>2
    <2>3. CASE GetReconcile
        <3> DEFINE r == fut[<<1, "reconcile", frame.off>>]
        <3>1. /\ Answered(fut, 1, "reconcile", frame.off) /\ pc \in Opening
              /\ \/ Throw(r.st) /\ r.st # "ok" /\ poisoned' = poisoned
                 \/ UNCHANGED <<poisoned, status, fut, backend>> /\ pc' = "chunk"
            BY <2>3 DEF GetReconcile, Ready, Got, Answered, Opening, sessVars
        <3>2. r.st \in {"ok", "cancelled", "deadline"}
            BY <3>1, AwaitedAnswer DEF Awaited
        <3> HIDE DEF r
        <3>3. QED
            BY <3>1, <3>2
    <2>4. QED
        BY <2>1, <2>2, <2>3
<1>2. CASE Throw(r.st) /\ r.st # "ok" /\ poisoned' = poisoned
    <2>1. r.st \in {"cancelled", "deadline"}
        BY <1>1, <1>2
    <2> DEFINE st == r.st
    <2> HIDE DEF st
    <2>2. Throw(st) /\ st \in {"cancelled", "deadline"} /\ poisoned' = poisoned
        BY <1>2, <2>1 DEF st
    <2>3. QED
        BY <2>2, ThrowHealthy
<1>3. CASE UNCHANGED <<poisoned, status, fut, backend>> /\ pc' = "chunk" /\ pc \in Opening
    <2>1. CheckpointInStep(pc', frame', fut, backend[0])
        BY <1>3, NoCheckpoint DEF Deciding
    <2>2. QED
        BY <1>3, <2>1, MoveHealthy DEF RollingBack
<1>4. QED
    BY <1>1, <1>2, <1>3

\* The coordinator's own looks at the token.
LEMMA LooksHealthy ==
    ASSUME InStep, HealthInStep, CheckChunk \/ SealTransaction
    PROVE  HealthInStep'
<1>1. poisoned' = poisoned
    BY DEF CheckChunk, SealTransaction, sessVars
<1>2. CASE Requested
    <2>1. Throw(Checked) /\ Checked \in {"cancelled", "deadline"}
        BY <1>2 DEF CheckChunk, SealTransaction, Requested
    <2>2. QED
        BY <1>1, <2>1, ThrowHealthy
<1>3. CASE ~Requested /\ CheckChunk
    <2>1. UNCHANGED <<poisoned, status, fut, backend>> /\ pc' = "stage0" /\ pc = "chunk"
        BY <1>3 DEF CheckChunk, sessVars
    <2>2. CheckpointInStep(pc', frame', fut, backend[0])
        BY <2>1, NoCheckpoint DEF Deciding
    <2>3. QED
        BY <2>1, <2>2, MoveHealthy DEF Opening, RollingBack
<1>4. CASE ~Requested /\ SealTransaction
    <2>1. UNCHANGED <<poisoned, status, fut, backend>> /\ pc' = "ack0" /\ pc = "seal" /\ frame' = Truncated(frame)
        BY <1>4 DEF SealTransaction, sessVars
    <2>2. frame'.extent = frame.extent /\ frame'.txn = frame.txn
        <3>1. IsFrame(frame)
            BY DEF InStep, RequestInStep
        <3>2. QED
            BY <2>1, <3>1, FrameFields DEF Truncated
    <2>3. CheckpointInStep("seal", frame, fut, backend[0])
        BY <2>1 DEF HealthInStep
    <2>4. CheckpointInStep("ack0", frame', fut, backend[0])
        BY <2>2, <2>3 DEF CheckpointInStep, Deciding
    <2>5. QED
        BY <2>1, <2>4, MoveHealthy DEF Opening, RollingBack
<1>5. QED
    BY <1>2, <1>3, <1>4

\* What closes a transaction needs no checkpoint, once stage 0 has committed.
LEMMA ClosedNoCheckpoint ==
    ASSUME NEW f, NEW fu, NEW b, NEW at, at \in {"chunk", "commit1", "reset"} \cup RollingBack
    PROVE  CheckpointInStep(at, f, fu, b)
    BY NoCheckpoint DEF Deciding, RollingBack

\* A boundary of stage 0 is the one the coordinator expects.
LEMMA BoundaryFits ==
    ASSUME NEW f, NEW ts, NEW n
    PROVE  BoundaryMatches(Boundary(f, ts, n), f.txn, n, ChunkLen(f, n))
    BY DEF Boundary, BoundaryMatches

\* Stage 0's answer.
LEMMA Stage0Healthy ==
    ASSUME InStep, ExactInStep, HealthInStep, GetStage0
    PROVE  HealthInStep'
<1> DEFINE off == frame.off
           r == fut[<<0, "execute0", off>>]
           st == IF r.st \notin {"ok", "malformed"} THEN r.st
                 ELSE IF Requested THEN Checked ELSE r.st
           good == st = "ok" /\ BoundaryMatches(r.value, frame.txn, off, ChunkLen(frame, off))
<1>0. /\ pc = "stage0" /\ pc \in Opening /\ Answered(fut, 0, "execute0", off)
      /\ UNCHANGED <<poisoned, backend>>
    BY DEF GetStage0, Opening, Ready, Answered, sessVars
<1>1. /\ ~good => Throw(IF st = "ok" THEN "failed" ELSE st)
      /\ good => /\ UNCHANGED <<frame, status, fut>>
                 /\ pc' = IF MoreRows /\ Verifying THEN "checkpoint" ELSE "stage1"
    BY DEF GetStage0, Got
<1>2. r.st \in {"ok", "cancelled", "deadline"}
    BY <1>0, AwaitedAnswer DEF Awaited
<1>3. st \in {"ok", "cancelled", "deadline"} /\ (st = "ok" => r.st = "ok")
    BY <1>2 DEF Requested
<1>4. ~poisoned
    BY DEF HealthInStep
<1>5. CASE st # "ok"
    <2> DEFINE x == st
    <2>1. Throw(x) /\ x \in {"cancelled", "deadline"}
        BY <1>1, <1>3, <1>5
    <2> HIDE DEF x
    <2>2. QED
        BY <1>0, <2>1, ThrowHealthy
<1>6. CASE st = "ok"
    <2>1. AnswerExact(pc, frame, tokens, "execute0", off, r)
        BY <1>0, <1>4, ExactFacts, AnswerIsExact
    <2>2. r.value = Boundary(frame, tokens, off)
        BY <1>0, <1>3, <1>6, <2>1 DEF AnswerExact, Values
    <2>3. good
        BY <1>6, <2>2, BoundaryFits
    <2>4. UNCHANGED <<frame, status, fut>> /\ pc' = (IF MoreRows /\ Verifying THEN "checkpoint" ELSE "stage1")
        BY <1>1, <2>3
    <2> HIDE DEF good
    <2>5. (MoreRows <=> NextOf(frame) < frame.txn.evaluated)
        BY <1>0, OpeningFacts
    <2>6. ~Arrived(fut, 0, "checkpoint", NextOf(frame))
        <3>1. ~AnswerInStep(pc, frame, "checkpoint", NextOf(frame))
            BY <1>0, OpeningFacts DEF AnswerInStep, Opening
        <3>2. QED
            BY <1>0, <3>1, OpeningFacts, NotAnswered DEF Arrived
    <2>7. CheckpointInStep(pc', frame, fut, backend[0])
        BY <2>4, <2>5, <2>6 DEF CheckpointInStep, Deciding, Verifying
    <2>8. QED
        BY <1>0, <2>4, <2>7, MoveHealthy DEF Opening, RollingBack
<1>7. QED
    BY <1>5, <1>6

\* The checkpoint's.
LEMMA CheckpointHealthy ==
    ASSUME InStep, ExactInStep, HealthInStep, GetCheckpoint
    PROVE  HealthInStep'
<1> DEFINE r == fut[<<0, "checkpoint", NextOffset>>]
<1>0. /\ pc = "checkpoint" /\ pc \in Opening /\ Answered(fut, 0, "checkpoint", NextOffset)
      /\ UNCHANGED <<poisoned, backend>>
    BY DEF GetCheckpoint, Opening, Ready, Answered, sessVars
<1>1. r.st = "ok"
    BY <1>0, AwaitedAnswer DEF Awaited, ChecksToken
<1>2. UNCHANGED <<frame, status, fut>> /\ pc' = "stage1"
    BY <1>1 DEF GetCheckpoint, Got
<1>3. NextOffset = NextOf(frame)
    BY DEF NextOffset, NextOf
<1>4. Arrived(fut, 0, "checkpoint", NextOf(frame))
    BY <1>0, <1>1, <1>3 DEF Arrived, Values
<1>5. CheckpointInStep("checkpoint", frame, fut, backend[0])
    BY <1>0 DEF HealthInStep
<1>6. CheckpointInStep("stage1", frame, fut, backend[0])
    BY <1>4, <1>5 DEF CheckpointInStep, Deciding
<1>7. QED
    BY <1>0, <1>2, <1>6, MoveHealthy DEF Opening, RollingBack

\* Stage 1's.
LEMMA Stage1Healthy ==
    ASSUME InStep, ExactInStep, HealthInStep, GetStage1
    PROVE  HealthInStep'
<1> DEFINE r == fut[<<1, "execute1", frame.off>>]
           st == IF r.st \notin {"ok", "malformed"} THEN r.st
                 ELSE IF Requested THEN Checked ELSE r.st
           f == frame
           g == frame'
<1>0. /\ pc = "stage1" /\ pc \in Opening /\ Answered(fut, 1, "execute1", frame.off)
      /\ UNCHANGED <<poisoned, backend>> /\ IsFrame(frame)
    <2>1. pc = "stage1" /\ Answered(fut, 1, "execute1", frame.off) /\ UNCHANGED <<poisoned, backend>>
        BY DEF GetStage1, Ready, Answered, sessVars
    <2>2. QED
        BY <2>1 DEF InStep, RequestInStep, Opening
<1>1. r.st \in {"ok", "cancelled", "deadline"}
    BY <1>0, AwaitedAnswer DEF Awaited
<1>2. st \in {"ok", "cancelled", "deadline"}
    BY <1>1 DEF Requested
<1>3. \/ st # "ok" /\ Throw(st)
      \/ /\ UNCHANGED <<status, fut>> /\ g.txn = f.txn /\ g.extent = f.extent /\ g.eval = f.eval
         /\ \/ pc' \in {"reconcile", "lookahead"} /\ g.off = f.off
            \/ pc' = "chunk"
            \/ pc' = "seal"
    <2> DEFINE x == r
               y == st
    <2>1. x = fut[<<1, "execute1", frame.off>>]
          /\ y = IF x.st \notin {"ok", "malformed"} THEN x.st ELSE IF Requested THEN Checked ELSE x.st
        OBVIOUS
    <2>2. y = st
        OBVIOUS
    <2> HIDE DEF x, y
    <2>3. \/ y # "ok" /\ Throw(y)
          \/ /\ UNCHANGED <<status, fut>> /\ g.txn = f.txn /\ g.extent = f.extent /\ g.eval = f.eval
             /\ \/ pc' \in {"reconcile", "lookahead"} /\ g.off = f.off
                \/ pc' = "chunk"
                \/ pc' = "seal"
        BY <1>0, <2>1, Stage1Moves
    <2>4. QED
        BY <2>2, <2>3
<1>4. CASE st # "ok" /\ Throw(st)
    <2> DEFINE x == st
    <2>1. Throw(x) /\ x \in {"cancelled", "deadline"}
        BY <1>2, <1>4
    <2> HIDE DEF x
    <2>2. QED
        BY <1>0, <2>1, ThrowHealthy
<1>5. CASE /\ UNCHANGED <<status, fut>> /\ g.txn = f.txn /\ g.extent = f.extent /\ g.eval = f.eval
           /\ pc' \in {"reconcile", "lookahead"} /\ g.off = f.off
    <2>1. NextOf(g) = NextOf(f)
        BY <1>5, SameRows DEF NextOf
    <2>2. CheckpointInStep("stage1", f, fut, backend[0])
        BY <1>0 DEF HealthInStep
    <2> HIDE DEF f, g
    <2>3. CheckpointInStep(pc', g, fut, backend[0])
        BY <1>5, <2>1, <2>2 DEF CheckpointInStep, Deciding
    <2>4. CheckpointInStep(pc', frame', fut, backend[0])
        BY <2>3 DEF g
    <2>5. QED
        BY <1>0, <1>5, <2>4, MoveHealthy DEF Opening, RollingBack
<1>6. CASE UNCHANGED <<status, fut>> /\ pc' = "chunk"
    <2>1. CheckpointInStep(pc', frame', fut, backend[0])
        BY <1>6, ClosedNoCheckpoint
    <2>2. QED
        BY <1>0, <1>6, <2>1, MoveHealthy DEF Opening, RollingBack
<1>7. CASE UNCHANGED <<status, fut>> /\ pc' = "seal" /\ g.txn = f.txn /\ g.extent = f.extent
    <2>1. f.extent = f.txn.evaluated /\ f.txn.evaluated \in Nat
        <3>1. ~poisoned
            BY DEF HealthInStep
        <3>2. FrameExact("stage1", f, tokens)
            BY <1>0, <3>1, ExactFacts
        <3>3. QED
            BY <1>0, <3>2, OpeningFacts DEF FrameExact, Working, Opening
    <2>2. ~(g.extent < g.txn.evaluated)
        BY <1>7, <2>1
    <2> HIDE DEF f, g
    <2>3. CheckpointInStep("seal", g, fut, backend[0])
        BY <2>2 DEF CheckpointInStep, Deciding
    <2>4. CheckpointInStep(pc', frame', fut, backend[0])
        BY <1>7, <2>3 DEF g
    <2>5. QED
        BY <1>0, <1>7, <2>4, MoveHealthy DEF Opening, RollingBack
<1>8. QED
    BY <1>3, <1>4, <1>5, <1>6, <1>7

\* The row stage 0 was ahead by.
LEMMA LookaheadHealthy ==
    ASSUME InStep, ExactInStep, HealthInStep, GetLookahead
    PROVE  HealthInStep'
<1> DEFINE f == frame
           g == frame'
           n == NextOf(f)
           r == fut[<<0, "execute0", n>>]
<1>0. /\ pc = "lookahead" /\ pc \in Opening /\ Answered(fut, 0, "execute0", n) /\ NextOffset = n
      /\ UNCHANGED <<poisoned, backend>>
    BY DEF GetLookahead, Opening, Ready, Answered, sessVars, NextOffset, NextOf
<1>1. r.st \in {"ok", "cancelled", "deadline"}
    BY <1>0, AwaitedAnswer DEF Awaited
<1>2. CASE r.st # "ok"
    <2> DEFINE x == r.st
    <2>1. Throw(x) /\ x \in {"cancelled", "deadline"}
        BY <1>0, <1>1, <1>2 DEF GetLookahead, Got
    <2> HIDE DEF x
    <2>2. QED
        BY <1>0, <2>1, ThrowHealthy
<1>3. CASE r.st = "ok"
    <2>1. frame' = [frame EXCEPT !.extent = n, !.commit = n] /\ pc' = "seal" /\ UNCHANGED <<status, fut>>
        BY <1>0, <1>3 DEF GetLookahead, Got
    <2>2. IsFrame(frame)
        BY DEF InStep, RequestInStep
    <2>3. g.txn = f.txn /\ g.extent = n
        BY <2>1, <2>2, FrameFields
    <2>4. CheckpointInStep("lookahead", f, fut, backend[0])
        BY <1>0 DEF HealthInStep
    <2>5. f.txn.kind = "speculative" /\ n < f.txn.evaluated
        <3>1. ~poisoned
            BY DEF HealthInStep
        <3>2. FrameExact("lookahead", f, tokens)
            BY <1>0, <3>1, ExactFacts
        <3>3. QED
            BY <1>0, <3>2, OpeningFacts DEF FrameExact, FrameInStep
    <2>6. backend[0].ckpt = n
        BY <2>4, <2>5 DEF CheckpointInStep
    <2> HIDE DEF f, g, n
    <2>7. CheckpointInStep("seal", g, fut, backend[0])
        BY <2>3, <2>6 DEF CheckpointInStep, Deciding
    <2>8. CheckpointInStep(pc', frame', fut, backend[0])
        BY <2>1, <2>7 DEF g
    <2>9. QED
        BY <1>0, <2>1, <2>8, MoveHealthy DEF Opening, RollingBack
<1>4. QED
    BY <1>2, <1>3

\* From the seal to the commit of the stages.
LEMMA DecideHealthy ==
    ASSUME InStep, HealthInStep,
           AcknowledgeStage(0) \/ AcknowledgeStage(1) \/ DecideTransaction \/ CommitTransaction
    PROVE  HealthInStep'
<1>1. /\ UNCHANGED <<poisoned, status, fut, backend, frame>>
      /\ pc \in {"ack0", "ack1", "decide", "commit"}
      /\ pc' \in {"ack1", "decide", "commit", "commit0"}
    BY DEF AcknowledgeStage, DecideTransaction, CommitTransaction, sessVars, workVars
<1>2. CheckpointInStep(pc, frame, fut, backend[0])
    BY DEF HealthInStep
<1>3. CheckpointInStep(pc', frame, fut, backend[0])
    BY <1>1, <1>2 DEF CheckpointInStep, Deciding
<1>4. QED
    BY <1>1, <1>3, MoveHealthy DEF Opening, RollingBack

\* The answers that close a transaction, and a reset, are all "ok".
LEMMA CloseHealthy ==
    ASSUME InStep, ExactInStep, HealthInStep, GetCommit0 \/ GetCommit1 \/ GetRollback0 \/ GetRollback1 \/ GetReset
    PROVE  HealthInStep'
<1>0. ~poisoned /\ (pc \in RollingBack => status # "failed")
    BY DEF HealthInStep
<1>1. /\ \A s, n : Answered(fut, s, "commit", n) /\ pc \in Committing => fut[<<s, "commit", n>>].st = "ok"
      /\ \A s, n : Answered(fut, s, "rollback", n) /\ pc \in RollingBack => fut[<<s, "rollback", n>>].st = "ok"
      /\ \A s, n : Answered(fut, s, "reset", n) /\ pc = "reset" => fut[<<s, "reset", n>>].st = "ok"
    BY AwaitedAnswer DEF Awaited, ChecksToken
<1>2. CASE GetCommit0 \/ GetRollback0
    <2>1. /\ UNCHANGED <<poisoned, status, fut, backend>> /\ pc' \in {"commit1", "rollback1"}
          /\ pc' = "rollback1" => pc = "rollback0"
        BY <1>1, <1>2 DEF GetCommit0, GetRollback0, Got, Ready, Answered, Committing, RollingBack
    <2>2. CheckpointInStep(pc', frame', fut, backend[0])
        BY <2>1, ClosedNoCheckpoint DEF RollingBack
    <2>3. QED
        BY <2>1, <2>2, MoveHealthy DEF Opening, RollingBack
<1>3. CASE GetCommit1
    <2>1. poisoned' = poisoned /\ End("ok")
        BY <1>1, <1>3 DEF GetCommit1, Got, Ready, Answered, Committing
    <2>2. QED
        BY <1>0, <2>1, OverHealthy
<1>4. CASE GetRollback1
    <2>1. poisoned' = (status = "failed" /\ FatalFailures) /\ End(status) /\ pc = "rollback1"
        BY <1>1, <1>4 DEF GetRollback1, Got, Ready, Answered, RollingBack
    <2>2. poisoned' = FALSE
        BY <1>0, <2>1 DEF RollingBack
    <2>3. poisoned' = poisoned
        BY <1>0, <2>2 DEF InStep, RequestInStep
    <2>4. QED
        BY <1>0, <2>1, <2>3, OverHealthy
<1>5. CASE GetReset
    <2>1. poisoned' = poisoned /\ End("ok")
        BY <1>1, <1>5 DEF GetReset, Got, Ready, Answered
    <2>2. QED
        BY <1>0, <2>1, OverHealthy
<1>6. QED
    BY <1>2, <1>3, <1>4, <1>5

\* A request comes in, and is turned away or begun.
LEMMA EnterHealthy ==
    ASSUME InStep, HealthInStep,
           RefuseRequest \/ SeedDecode \/ BeginTransaction \/ BeginReset \/ \E q \in Requests : Request(q[1], q[2])
    PROVE  HealthInStep'
<1>0. ~poisoned
    BY DEF HealthInStep
<1>1. CASE RefuseRequest
    <2>1. poisoned' = poisoned /\ End(Refusal(frame))
        BY <1>1 DEF RefuseRequest, sessVars
    <2>2. QED
        BY <2>1, OverHealthy
<1>2. CASE SeedDecode
    <2>1. poisoned' = poisoned /\ (End("failed") \/ End(Checked) \/ End("ok"))
        BY <1>2 DEF SeedDecode
    <2>2. QED
        BY <2>1, OverHealthy
<1>3. CASE BeginTransaction
    <2>1. /\ UNCHANGED <<poisoned, status, fut, backend>> /\ pc = "enter"
          /\ pc' \in {"prefetch", "draft", "chunk"}
        BY <1>3, BeginFrame
    <2>2. CheckpointInStep(pc', frame', fut, backend[0])
        BY <2>1, NoCheckpoint DEF Deciding
    <2>3. QED
        BY <2>1, <2>2, MoveHealthy DEF Outside, RollingBack
<1>4. CASE BeginReset
    <2>1. /\ pc = "enter" /\ UNCHANGED <<poisoned, backend>>
          /\ \/ End("failed")
             \/ End(Checked)
             \/ pc' = "reset" /\ UNCHANGED <<status, fut>>
        BY <1>4 DEF BeginReset, sessVars
    <2>2. CASE End("failed") \/ End(Checked)
        BY <2>1, <2>2, OverHealthy
    <2>3. CASE pc' = "reset" /\ UNCHANGED <<status, fut>>
        <3>1. CheckpointInStep(pc', frame', fut, backend[0])
            BY <2>3, ClosedNoCheckpoint
        <3>2. QED
            BY <2>1, <2>3, <3>1, MoveHealthy DEF Outside, Opening, RollingBack
    <2>4. QED
        BY <2>1, <2>2, <2>3
<1>5. CASE \E q \in Requests : Request(q[1], q[2])
    <2>1. pc = "idle" /\ pc' = "enter" /\ UNCHANGED <<poisoned, fut, backend>>
        BY <1>5 DEF Request, sessVars, workVars
    <2>2. DOMAIN fut = {}
        BY <1>0, <2>1, OutsideFacts DEF Outside
    <2>3. NoFailures(pc', fut')
        BY <2>1, <2>2 DEF NoFailures
    <2>4. CheckpointInStep(pc', frame', fut', backend'[0])
        BY <2>1, NoCheckpoint DEF Deciding
    <2>5. ~poisoned' /\ pc' \notin RollingBack
        BY <1>0, <2>1 DEF RollingBack
    <2>6. QED
        BY <2>3, <2>4, <2>5 DEF HealthInStep
<1>6. QED
    BY <1>1, <1>2, <1>3, <1>4, <1>5

\* One step.
LEMMA HealthStep ==
    ASSUME ~Faults, ~PleStage0, SessionInv, HealthInStep, [DualNext]_vars
    PROVE  HealthInStep'
<1>1. InStep /\ ExactInStep
    BY InvIsInStep DEF SessionInv
<1>2. CASE RequestCancel \/ DeadlinePasses \/ UNCHANGED vars
    <2>1. UNCHANGED <<poisoned, pc, frame, status, fut, backend>>
        BY <1>2 DEF RequestCancel, DeadlinePasses, vars, sessVars, coordVars, workVars
    <2>2. QED
        BY <2>1 DEF HealthInStep
<1>3. CASE RefuseRequest \/ SeedDecode \/ BeginTransaction \/ BeginReset \/ \E q \in Requests : Request(q[1], q[2])
    BY <1>1, <1>3, EnterHealthy
<1>4. CASE GetPrefetch \/ GetDraft \/ GetReconcile \/ CheckChunk \/ SealTransaction
    BY <1>1, <1>4, PlainAnswersHealthy, LooksHealthy
<1>5. CASE GetStage0 \/ GetCheckpoint \/ GetStage1 \/ GetLookahead
    BY <1>1, <1>5, Stage0Healthy, CheckpointHealthy, Stage1Healthy, LookaheadHealthy
<1>6. CASE AcknowledgeStage(0) \/ AcknowledgeStage(1) \/ DecideTransaction \/ CommitTransaction
    BY <1>1, <1>6, DecideHealthy
<1>7. CASE GetCommit0 \/ GetCommit1 \/ GetRollback0 \/ GetRollback1 \/ GetReset
    BY <1>1, <1>7, CloseHealthy
<1>8. CASE TakeTask(0) \/ TakeTask(1) \/ CompleteTask(0) \/ CompleteTask(1)
    BY <1>1, <1>8, TakeHealthy, CompleteHealthy DEF Stages
<1>9. CASE FailClosed
    BY <1>9 DEF FailClosed
<1>10. QED
    BY <1>2, <1>3, <1>4, <1>5, <1>6, <1>7, <1>8, <1>9, CoordinatorCases

\* With backends that do not fail on their own and stage 0 undecorated, the
\* executor never fails closed: cancellations, deadlines, rejected drafts, stop
\* tokens and chunked appends, in whatever order, are part of normal operation.
\* (Behind the PLE decorator it does: see the run dual_ple.)
THEOREM HealthyWithoutBackendFaults ==
    ASSUME ~PleStage0
    PROVE  DualSpec => []HealthyWithoutFaults
<1>1. CASE Faults
    <2>1. HealthyWithoutFaults
        BY <1>1 DEF HealthyWithoutFaults
    <2>2. QED
        BY <2>1, PTL
<1>2. CASE ~Faults
    <2>1. DualInit => HealthInStep
        BY DEF DualInit, HealthInStep, NoFailures, CheckpointInStep, RollingBack, Deciding
    <2>2. SessionInv /\ HealthInStep /\ [DualNext]_vars => HealthInStep'
        BY <1>2, HealthStep
    <2>3. HealthInStep => HealthyWithoutFaults
        BY DEF HealthInStep, HealthyWithoutFaults
    <2>4. QED
        BY <2>1, <2>2, <2>3, SessionInvariant, PTL DEF DualSpec
<1>3. QED
    BY <1>1, <1>2
=============================================================================
