-------------------------- MODULE DualStageProofs ---------------------------
(***************************************************************************)
(* Theorems about DualStage, for every vocabulary, context limit, chunk    *)
(* size, draft width and fault policy.                                     *)
(*                                                                         *)
(* The inductive invariant DualInv ties four things together: the token's  *)
(* seal and the place of the coordinator (SealedInStep), the request and   *)
(* the engine's transaction (RequestInStep, FrameInStep), the tasks a      *)
(* worker still owes and the answers given (WorkInOrder, WorkUnanswered,   *)
(* AnswersInStep), and the rows a backend holds (BackendInStep).  The      *)
(* sections follow that order; the theorems are stated at the end, except  *)
(* the one about the seal, which needs SealedInStep alone.                 *)
(***************************************************************************)
EXTENDS DualStage, SessionTxnProofs, SequenceTheorems, FiniteSetTheorems

-----------------------------------------------------------------------------
(* Sequences, answers and queues.                                          *)

\* Sequences of any elements.
LEMMA SeqIsSeq ==
    ASSUME NEW S, NEW s \in Seq(S)
    PROVE  IsSeq(s)
<1>1. s = [i \in 1..Len(s) |-> s[i]] /\ DOMAIN s = 1..Len(s) /\ Len(s) \in Nat
    OBVIOUS
<1>2. QED
    BY <1>1 DEF IsSeq

\* The empty queue.
LEMMA EmptyIsSeq == IsSeq(<<>>) /\ Len(<<>>) = 0
<1>1. <<>> \in Seq({}) /\ Len(<<>>) = 0
    OBVIOUS
<1>2. QED
    BY <1>1, SeqIsSeq

\* The elements of a sequence form a set.
LEMMA IsSeqFacts ==
    ASSUME NEW s, IsSeq(s)
    PROVE  \E S : s \in Seq(S)
    BY DEF IsSeq

\* An answer is recorded under its key and changes no other.
LEMMA AnswerFacts ==
    ASSUME NEW s, NEW t, NEW r
    PROVE  LET k == <<s, t.call, t.n>>  fu == Answer(s, t, r) IN
           /\ DOMAIN fu = DOMAIN fut \cup {k}
           /\ fu[k] = r
           /\ \A m \in DOMAIN fut : m # k => fu[m] = fut[m]
    BY DEF Answer

\* The short sequences of tasks a worker has.
LEMMA ShortSeqs ==
    /\ \A t : <<>> \o <<t>> = <<t>> /\ Tail(<<t>>) = <<>> /\ Head(<<t>>) = t /\ Len(<<t>>) = 1
    /\ \A t, u : Tail(<<t, u>>) = <<u>> /\ Head(<<t, u>>) = t /\ <<t>> \o <<u>> = <<t, u>>
                  /\ Len(<<t, u>>) = 2 /\ Append(<<t>>, u) = <<t, u>>
    /\ \A t : <<t>> \o <<>> = <<t>> /\ Append(<<>>, t) = <<t>>
    /\ <<>> \o <<>> = <<>> /\ Len(<<>>) = 0
<1>1. \A t : <<>> \o <<t>> = <<t>>
    OBVIOUS
<1>2. \A t : Tail(<<t>>) = <<>> 
    OBVIOUS
<1>3. \A t : Head(<<t>>) = t /\ Len(<<t>>) = 1
    OBVIOUS
<1>4. \A t, u : Tail(<<t, u>>) = <<u>>
    OBVIOUS
<1>5. \A t, u : Head(<<t, u>>) = t  /\ Len(<<t, u>>) = 2
    OBVIOUS
<1>6. ASSUME NEW t, NEW u PROVE Append(<<t>>, u) = <<t, u>> /\ <<t>> \o <<u>> = <<t, u>>
    <2>1. <<t>> \in Seq({t, u}) /\ <<u>> \in Seq({t, u}) /\ <<t, u>> \in Seq({t, u})
        OBVIOUS
    <2>2. /\ Append(<<t>>, u) \in Seq({t, u}) /\ Len(Append(<<t>>, u)) = 2
          /\ Append(<<t>>, u)[1] = t /\ Append(<<t>>, u)[2] = u
        BY <2>1, AppendProperties
    <2>3. /\ <<t>> \o <<u>> \in Seq({t, u}) /\ Len(<<t>> \o <<u>>) = 2
          /\ (<<t>> \o <<u>>)[1] = t /\ (<<t>> \o <<u>>)[2] = u
        BY <2>1, ConcatProperties
    <2>4. ASSUME NEW s \in Seq({t, u}), Len(s) = 2, s[1] = t, s[2] = u PROVE s = <<t, u>>
        <3>1. \A i \in 1..2 : i = 1 \/ i = 2
            OBVIOUS
        <3>2. QED
            BY <2>1, <2>4, <3>1, SeqEqual
    <2>5. QED
        BY <2>2, <2>3, <2>4
<1>8.  \A t : <<t>> \o <<>> = <<t>>
    OBVIOUS
<1>9.  \A t : Append(<<>>, t) = <<t>>
    OBVIOUS
<1>10. <<>> \o <<>> = <<>> /\ Len(<<>>) = 0
    OBVIOUS
<1>11. QED
    BY <1>1, <1>2, <1>3, <1>4, <1>5, <1>6, <1>8, <1>9, <1>10
-----------------------------------------------------------------------------
(* A worker's tasks.                                                       *)

\* No task of a worker is taken for the idle worker.
LEMMA TasksAreNotIdle ==
    ASSUME NEW at, NEW f, NEW s, NEW t, Plain(at, f, s, t) \/ Closing(at, f, s, t)
    PROVE  t # Idle /\ t.call # "idle" /\ t.txn = f.txn
<1>1. t.call # "idle" /\ t.txn = f.txn
    BY DEF Plain, Closing, PlainCall, ClosingCall
<1>2. Idle.call = "idle"
    BY DEF Idle
<1>3. QED
    BY <1>1, <1>2

\* A worker takes or refuses its oldest task.
LEMMA WorkTake ==
    ASSUME NEW at, NEW f, NEW s, NEW q, WorkInOrder(at, f, s, Idle, q), q # <<>>
    PROVE  /\ Plain(at, f, s, Head(q)) \/ Closing(at, f, s, Head(q))
           /\ WorkInOrder(at, f, s, Head(q), Tail(q))
           /\ WorkInOrder(at, f, s, Idle, Tail(q))
           /\ Len(q) \in Nat /\ Len(q) >= 1 /\ q[1] = Head(q)
           /\ Len(Tail(q)) = Len(q) - 1
           /\ \A i \in 1..Len(Tail(q)) : Tail(q)[i] = q[i + 1] /\ i + 1 \in 1..Len(q)
<1>1. CASE Len(q) = 1 /\ q = <<q[1]>> /\ Alone(at, f, s, q[1])
    <2>1. Head(q) = q[1] /\ Tail(q) = <<>> /\ Len(<<>>) = 0
        BY <1>1, ShortSeqs
    <2>2. q[1] # Idle
        BY <1>1, TasksAreNotIdle DEF Alone
    <2>3. QED
        BY <1>1, <2>1, <2>2 DEF WorkInOrder, Alone
<1>2. CASE Len(q) = 2 /\ q = <<q[1], q[2]>> /\ Plain(at, f, s, q[1]) /\ Closing(at, f, s, q[2])
    <2> DEFINE a == q[1]  b == q[2]
    <2>0. q = <<a, b>>
        BY <1>2
    <2> HIDE DEF a, b
    <2>a. Head(q) = a /\ Tail(q) = <<b>>
        BY <2>0, ShortSeqs
    <2>1. Head(q) = q[1] /\ Tail(q) = <<q[2]>>
        BY <2>a DEF a, b
    <2>2. q[1] # Idle
        BY <1>2, TasksAreNotIdle
    <2>3. Len(Tail(q)) = 1 /\ Tail(q)[1] = q[2]
        BY <2>1
    <2>4. /\ WorkInOrder(at, f, s, Head(q), Tail(q))
          /\ WorkInOrder(at, f, s, Idle, Tail(q))
        BY <1>2, <2>1, <2>2, <2>3 DEF WorkInOrder, Alone
    <2>5. QED
        BY <1>2, <2>1, <2>3, <2>4
<1>3. QED
    BY <1>1, <1>2 DEF WorkInOrder

\* A worker is done with the task it runs.
LEMMA WorkDone ==
    ASSUME NEW at, NEW f, NEW s, NEW r, NEW q, WorkInOrder(at, f, s, r, q), r # Idle
    PROVE  /\ WorkInOrder(at, f, s, Idle, q)
           /\ Plain(at, f, s, r) \/ Closing(at, f, s, r)
    BY DEF WorkInOrder, Alone

\* The coordinator gives a worker without work a task.
LEMMA WorkSubmit ==
    ASSUME NEW at, NEW f, NEW s, NEW t, Alone(at, f, s, t)
    PROVE  WorkInOrder(at, f, s, Idle, <<>> \o <<t>>) /\ WorkInOrder(at, f, s, Idle, Append(<<>>, t))
<1>1. <<>> \o <<t>> = <<t>> /\ Append(<<>>, t) = <<t>> /\ Len(<<t>>) = 1 /\ <<t>>[1] = t
    BY ShortSeqs
<1>2. QED
    BY <1>1 DEF WorkInOrder

\* Before the commit point a worker owes one task of the chunk loop at most.
LEMMA WorkBeforeSeal ==
    ASSUME NEW at \in Opening \cup {"ack0", "ack1", "decide", "commit"}, NEW f, NEW s, NEW r, NEW q,
           WorkInOrder(at, f, s, r, q)
    PROVE  \/ r = Idle /\ q = <<>>
           \/ r = Idle /\ Len(q) = 1 /\ q = <<q[1]>> /\ Plain(at, f, s, q[1])
           \/ r # Idle /\ q = <<>> /\ Plain(at, f, s, r)
<1>1. \A t : ~Closing(at, f, s, t)
    BY DEF Closing, ClosingCall, Opening
<1>2. QED
    BY <1>1 DEF WorkInOrder, Alone

\* An exception: a rollback behind what the worker owes.
LEMMA WorkThrow ==
    ASSUME NEW at \in Opening, NEW f, NEW s \in Stages, NEW r, NEW q, NEW t,
           WorkInOrder(at, f, s, r, q), Closing("rollback0", f, s, t),
           at \in {"prefetch", "draft"} => f.off = 0
    PROVE  WorkInOrder("rollback0", f, s, r, q \o <<t>>)
<1>1. ASSUME NEW u, Plain(at, f, s, u) PROVE Plain("rollback0", f, s, u)
    <2>1. PlainCall("rollback0", f, s, u.call, u.n)
        BY <1>1 DEF Plain, PlainCall, Opening, Stages
    <2>2. QED
        BY <1>1, <2>1 DEF Plain
<1>2. CASE r = Idle /\ q = <<>>
    BY <1>2, WorkSubmit DEF Alone
<1>3. CASE r = Idle /\ Len(q) = 1 /\ q = <<q[1]>> /\ Plain(at, f, s, q[1])
    <2>1. q \o <<t>> = <<q[1], t>>
        BY <1>3, ShortSeqs
    <2>2. /\ Len(<<q[1], t>>) = 2 /\ <<q[1], t>>[1] = q[1] /\ <<q[1], t>>[2] = t
        OBVIOUS
    <2>3. Plain("rollback0", f, s, q[1])
        BY <1>1, <1>3
    <2>4. QED
        BY <1>3, <2>1, <2>2, <2>3 DEF WorkInOrder
<1>4. CASE r # Idle /\ q = <<>> /\ Plain(at, f, s, r)
    <2>1. q \o <<t>> = <<t>> /\ Len(<<t>>) = 1 /\ <<t>>[1] = t
        BY <1>4, ShortSeqs
    <2>2. Plain("rollback0", f, s, r)
        BY <1>1, <1>4
    <2>3. QED
        BY <1>4, <2>1, <2>2 DEF WorkInOrder
<1>5. QED
    BY <1>2, <1>3, <1>4, WorkBeforeSeal

\* A worker whose only possible task has been answered has nothing to do.
LEMMA WorkAnswered ==
    ASSUME NEW at, NEW f, NEW fu, NEW s, NEW r, NEW q, NEW call, NEW n,
           WorkInOrder(at, f, s, r, q), WorkUnanswered(fu, s, r, q),
           Answered(fu, s, call, n),
           \/ /\ at \notin RollingBack \cup Committing \cup {"reset"}
              /\ \A c, m : PlainCall(at, f, s, c, m) => c = call /\ m = n
           \/ /\ at \in RollingBack \cup Committing \cup {"reset"}
              /\ \A c, m : ClosingCall(at, f, s, c, m) => c = call /\ m = n
    PROVE  r = Idle /\ q = <<>>
<1>1. \/ r = Idle /\ q = <<>>
      \/ \E t : /\ \/ Closing(at, f, s, t)
                   \/ Plain(at, f, s, t) /\ at \notin RollingBack
                /\ <<s, t.call, t.n>> \notin DOMAIN fu
    <2>1. CASE r = Idle /\ Len(q) = 1 /\ Alone(at, f, s, q[1])
        <3>1. <<s, q[1].call, q[1].n>> \notin DOMAIN fu
            BY <2>1 DEF WorkUnanswered
        <3>2. QED
            BY <2>1, <3>1 DEF Alone
    <2>2. CASE r # Idle /\ Alone(at, f, s, r)
        BY <2>2 DEF WorkUnanswered, Alone
    <2>3. CASE Len(q) = 2 /\ Closing(at, f, s, q[2])
        <3>1. <<s, q[2].call, q[2].n>> \notin DOMAIN fu
            BY <2>3 DEF WorkUnanswered
        <3>2. QED
            BY <2>3, <3>1
    <2>4. CASE Len(q) = 1 /\ Closing(at, f, s, q[1])
        <3>1. <<s, q[1].call, q[1].n>> \notin DOMAIN fu
            BY <2>4 DEF WorkUnanswered
        <3>2. QED
            BY <2>4, <3>1
    <2>5. QED
        BY <2>1, <2>2, <2>3, <2>4 DEF WorkInOrder
<1>2. ASSUME NEW t, <<s, t.call, t.n>> \notin DOMAIN fu,
             Closing(at, f, s, t) \/ (Plain(at, f, s, t) /\ at \notin RollingBack)
      PROVE  FALSE
    <2>0. ~(t.call = call /\ t.n = n)
        BY <1>2 DEF Answered
    <2>1. CASE at \notin RollingBack \cup Committing \cup {"reset"}
        <3>1. ~Closing(at, f, s, t)
            BY <2>1 DEF Closing, ClosingCall, RollingBack, Committing
        <3>2. QED
            BY <1>2, <2>0, <2>1, <3>1 DEF Plain
    <2>2. CASE at \in RollingBack \cup Committing \cup {"reset"}
        <3>1. at \notin RollingBack => ~Plain(at, f, s, t)
            BY <2>2 DEF Plain, PlainCall, RollingBack, Committing
        <3>2. QED
            BY <1>2, <2>0, <2>2, <3>1 DEF Closing
    <2>3. QED
        BY <2>1, <2>2
<1>3. QED
    BY <1>1, <1>2
-----------------------------------------------------------------------------
(* A backend inside a transaction.                                         *)

\* A backend that rests, field by field.
LEMMA RestFacts ==
    ASSUME NEW ts, NEW e
    PROVE  LET b == AtRest(ts, e) IN
           /\ DOMAIN b = DOMAIN FreshBackend
           /\ b.rows = ts /\ b.epoch = e /\ b.prov = 0 /\ b.ptoks = <<>>
    BY DEF AtRest, FreshBackend

\* Its fields.
LEMMA BackendFields ==
    DOMAIN FreshBackend = {"rows", "epoch", "prov", "base", "expected", "kind", "ptoks", "ckpt"}
    BY DEF AtRest, FreshBackend

\* The chunk submit_stage0 cuts lies inside the transaction.
LEMMA ChunkFacts ==
    ASSUME NEW f, f.txn.evaluated \in Nat, NEW n \in 0..(f.txn.evaluated - 1)
    PROVE  /\ ChunkLen(f, n) \in 1..(f.txn.evaluated - n)
           /\ f.txn.kind # "append" => ChunkLen(f, n) = 1
           /\ n + ChunkLen(f, n) \in (n + 1)..f.txn.evaluated
<1>1. ChunkOf(f.txn.kind) \in Nat \ {0} /\ (f.txn.kind # "append" => ChunkOf(f.txn.kind) = 1)
    BY DualStageAssumption DEF ChunkOf
<1>2. QED
    BY <1>1 DEF ChunkLen

\* A prefix of the evaluated tokens grows by the next chunk.
LEMMA PrefixGrows ==
    ASSUME NEW eval, IsSeq(eval), NEW n \in 0..Len(eval), NEW m \in n..Len(eval)
    PROVE  /\ SubSeq(eval, 1, n) \o SubSeq(eval, n + 1, m) = SubSeq(eval, 1, m)
           /\ IsSeq(SubSeq(eval, 1, m)) /\ Len(SubSeq(eval, 1, m)) = m
<1>1. PICK S : eval \in Seq(S)
    BY IsSeqFacts
<1>2. Len(eval) \in Nat /\ \A i \in 1..Len(eval) : eval[i] \in S
    BY <1>1, ElementOfSeq
<1>3. SubSeq(eval, 1, m) \in Seq(S) /\ Len(SubSeq(eval, 1, m)) = m
    <2>1. \A i \in 1..m : eval[i] \in S
        BY <1>2
    <2>2. QED
        BY <1>2, <2>1, SubSeqProperties
<1>4. SubSeq(eval, 1, n) \o SubSeq(eval, n + 1, m) = SubSeq(eval, 1, m)
    BY <1>1, <1>2, ConcatAdjacentSubSeq
<1>5. QED
    BY <1>3, <1>4, SeqIsSeq

\* execute keeps a backend within its transaction, and during the draft stage 0
\* has evaluated one row at most.
LEMMA WithinExecuted ==
    ASSUME NEW f, IsSeq(f.eval), Len(f.eval) = f.txn.evaluated,
           f.txn.epoch \in Nat \ {0}, NEW ts, NEW b,
           Within(b, ts, f.txn, f.eval), NEW n \in 0..(f.txn.evaluated - 1),
           ExecuteAccepted(b, f.txn, n), NEW toks,
           toks = SubSeq(f.eval, n + 1, n + ChunkLen(f, n))
    PROVE  /\ Within(Executed(b, f.txn, toks), ts, f.txn, f.eval)
           /\ Len(Executed(b, f.txn, toks).ptoks) = n + ChunkLen(f, n)
<1> DEFINE m == n + ChunkLen(f, n)
           after == Executed(b, f.txn, toks)
<1>1. f.txn.evaluated \in Nat
    <2>1. Len(f.eval) \in Nat
        BY LenProperties DEF IsSeq
    <2>2. QED
        BY <2>1
<1>2. m \in (n + 1)..Len(f.eval) /\ m \in n..Len(f.eval) /\ n \in 0..Len(f.eval) /\ m \in Nat
    <2>1. n + ChunkLen(f, n) \in (n + 1)..f.txn.evaluated
        BY <1>1, ChunkFacts
    <2>2. QED
        BY <1>1, <2>1
<1>3. /\ SubSeq(f.eval, 1, n) \o SubSeq(f.eval, n + 1, m) = SubSeq(f.eval, 1, m)
      /\ IsSeq(SubSeq(f.eval, 1, m)) /\ Len(SubSeq(f.eval, 1, m)) = m
    BY <1>2, PrefixGrows
<1>t. toks = SubSeq(f.eval, n + 1, m)
    OBVIOUS
<1> HIDE DEF m
<1>4. ASSUME NEW c, DOMAIN c = DOMAIN FreshBackend, c.rows = ts, c.epoch = f.txn.epoch - 1,
             c.prov = f.txn.epoch, c.ptoks = SubSeq(f.eval, 1, m)
      PROVE  Within(c, ts, f.txn, f.eval) /\ Len(c.ptoks) = m
    <2>1. IsSeq(c.ptoks) /\ Len(c.ptoks) = m /\ m <= Len(f.eval)
        BY <1>2, <1>3, <1>4
    <2>2. c.ptoks = SubSeq(f.eval, 1, Len(c.ptoks))
        BY <1>4, <2>1
    <2>3. QED
        BY <1>4, <2>1, <2>2 DEF Within
<1>5. CASE b = AtRest(ts, f.txn.epoch - 1)
    <2>1. b.prov = 0 /\ n = 0
        BY <1>5, RestFacts DEF ExecuteAccepted
    <2>a. n + 1 = 1
        BY <2>1
    <2>2. toks = SubSeq(f.eval, 1, m)
        BY <1>t, <2>a
    <2>3. after = [b EXCEPT !.prov = f.txn.epoch, !.base = f.txn.base_target,
                            !.expected = f.txn.evaluated, !.kind = f.txn.kind, !.ptoks = toks]
        BY <2>1 DEF Executed
    <2>4. /\ DOMAIN after = DOMAIN FreshBackend /\ after.rows = ts /\ after.epoch = f.txn.epoch - 1
          /\ after.prov = f.txn.epoch /\ after.ptoks = toks
        <3>1. DOMAIN b = DOMAIN FreshBackend /\ b.rows = ts /\ b.epoch = f.txn.epoch - 1
            BY <1>5, RestFacts
        <3>2. QED
            BY <2>3, <3>1, BackendFields
    <2>5. QED
        BY <1>4, <2>2, <2>4 DEF m
<1>6. CASE b # AtRest(ts, f.txn.epoch - 1)
    <2>1. /\ DOMAIN b = DOMAIN FreshBackend
          /\ b.rows = ts /\ b.epoch = f.txn.epoch - 1 /\ b.prov = f.txn.epoch
          /\ b.ptoks = SubSeq(f.eval, 1, Len(b.ptoks))
        BY <1>6 DEF Within
    <2>2. b.prov # 0
        BY <2>1
    <2>3. Len(b.ptoks) = n
        BY <2>2 DEF ExecuteAccepted
    <2>4. b.ptoks \o toks = SubSeq(f.eval, 1, m)
        BY <1>3, <1>t, <2>1, <2>3
    <2>5. after = [b EXCEPT !.ptoks = b.ptoks \o toks]
        BY <2>2 DEF Executed
    <2>6. /\ DOMAIN after = DOMAIN FreshBackend /\ after.rows = ts /\ after.epoch = f.txn.epoch - 1
          /\ after.prov = f.txn.epoch /\ after.ptoks = b.ptoks \o toks
        BY <2>1, <2>5, BackendFields
    <2>7. QED
        BY <1>4, <2>4, <2>6 DEF m
<1>7. QED
    BY <1>5, <1>6

\* So do the calls that only set the checkpoint, and what a rollback leaves.
LEMMA WithinClosed ==
    ASSUME NEW f, IsSeq(f.eval), NEW ts, NEW b, Within(b, ts, f.txn, f.eval)
    PROVE  /\ \A n : b.prov = f.txn.epoch /\ f.txn.epoch # 0 =>
                 Within(Checkpointed(b, n), ts, f.txn, f.eval) /\ Checkpointed(b, n).ptoks = b.ptoks
           /\ RolledBack(b, f.txn.epoch) = AtRest(ts, f.txn.epoch)
<1>0. b.rows = ts /\ Len(f.eval) \in Nat
    BY RestFacts, LenProperties DEF Within, IsSeq
<1>1. ASSUME NEW n, b.prov = f.txn.epoch, f.txn.epoch # 0
      PROVE  Within(Checkpointed(b, n), ts, f.txn, f.eval) /\ Checkpointed(b, n).ptoks = b.ptoks
    <2> DEFINE c == Checkpointed(b, n)
    <2>1. CASE PleStage0
        BY <2>1 DEF Checkpointed
    <2>2. CASE ~PleStage0
        <3>0. b # AtRest(ts, f.txn.epoch - 1)
            BY <1>1, RestFacts
        <3>1. c = [b EXCEPT !.ckpt = n]
            BY <2>2 DEF Checkpointed
        <3>2. /\ DOMAIN b = DOMAIN FreshBackend
              /\ b.rows = ts /\ b.epoch = f.txn.epoch - 1 /\ b.prov = f.txn.epoch
              /\ IsSeq(b.ptoks) /\ Len(b.ptoks) <= Len(f.eval)
              /\ b.ptoks = SubSeq(f.eval, 1, Len(b.ptoks))
            BY <3>0 DEF Within
        <3>3. /\ DOMAIN c = DOMAIN FreshBackend
              /\ c.rows = b.rows /\ c.epoch = b.epoch /\ c.prov = b.prov /\ c.ptoks = b.ptoks
            BY <3>1, <3>2, BackendFields
        <3> HIDE DEF c
        <3>4. Within(c, ts, f.txn, f.eval) /\ c.ptoks = b.ptoks
            BY <3>2, <3>3 DEF Within
        <3>5. QED
            BY <3>4 DEF c
    <2>3. QED
        BY <2>1, <2>2
<1>2. RolledBack(b, f.txn.epoch) = AtRest(ts, f.txn.epoch)
    BY <1>0 DEF RolledBack
<1>3. QED
    BY <1>1, <1>2

\* What a commit leaves.
LEMMA WithinCommitted ==
    ASSUME NEW f, IsSeq(f.eval), NEW ts, NEW b, Within(b, ts, f.txn, f.eval), NEW s, NEW n,
           CommitAccepted(b, s, f.txn.epoch, n)
    PROVE  Committed(b, n) = AtRest(ts \o SubSeq(f.eval, 1, n), f.txn.epoch)
<1>0. b.rows = ts /\ Len(f.eval) \in Nat
    BY RestFacts, LenProperties DEF Within, IsSeq
<1>1. n \in 1..Len(b.ptoks) /\ f.txn.epoch = b.prov
    BY DEF CommitAccepted
<1>2. b # AtRest(ts, f.txn.epoch - 1)
    BY <1>1, RestFacts
<1>3. b.ptoks = SubSeq(f.eval, 1, Len(b.ptoks)) /\ Len(b.ptoks) <= Len(f.eval) /\ Len(b.ptoks) \in Nat
    BY <1>2, LenProperties DEF Within, IsSeq
<1>4. SubSeq(b.ptoks, 1, n) = SubSeq(f.eval, 1, n)
    <2>1. PICK S : f.eval \in Seq(S)
        BY IsSeqFacts
    <2>2. Len(b.ptoks) \in 1..Len(f.eval) /\ n \in 1..(Len(b.ptoks) - 1 + 1)
        BY <1>0, <1>1, <1>3
    <2>3. SubSeq(SubSeq(f.eval, 1, Len(b.ptoks)), 1, n) = SubSeq(f.eval, 1 + 1 - 1, 1 + n - 1)
        BY <1>0, <1>1, <1>3, <2>1, <2>2, SubSeqOfSubSeq
    <2>4. QED
        BY <1>1, <1>3, <2>3
<1>5. QED
    BY <1>0, <1>1, <1>4 DEF Committed
-----------------------------------------------------------------------------
(* The coordinator's steps and the seal.                                   *)

\* The actions of the coordinator, one by one.
LEMMA CoordinatorCases ==
    ASSUME DualNext
    PROVE  \/ RefuseRequest \/ BeginTransaction \/ GetPrefetch \/ GetDraft \/ CheckChunk
           \/ GetStage0 \/ GetCheckpoint \/ GetStage1 \/ GetReconcile \/ GetLookahead
           \/ SealTransaction \/ AcknowledgeStage(0) \/ AcknowledgeStage(1)
           \/ DecideTransaction \/ CommitTransaction \/ GetCommit0 \/ GetCommit1
           \/ GetRollback0 \/ GetRollback1 \/ SeedDecode \/ BeginReset \/ GetReset
           \/ TakeTask(0) \/ TakeTask(1) \/ CompleteTask(0) \/ CompleteTask(1)
           \/ (\E r \in Requests : Request(r[1], r[2]))
           \/ RequestCancel \/ DeadlinePasses \/ FailClosed
    BY DEF DualNext, Coordinator, Worker, Stages

\* Looking at the token does not seal it, nor undo its seal.
LEMMA CheckedFacts ==
    ASSUME cancel \in {"active", "cancelled", "deadline", "sealed"}
    PROVE  /\ Checked \in {"active", "cancelled", "deadline", "sealed"}
           /\ Checked = "sealed" <=> cancel = "sealed"
           /\ Requested => Checked \in {"cancelled", "deadline"}
    BY DEF Checked, Requested

\* Each step keeps the commit point where it is, and obeys it.
LEMMA SealedStep ==
    ASSUME SealedInStep, [DualNext]_vars
    PROVE  /\ SealedInStep'
           /\ tokens' # tokens \/ (status' = "ok" /\ status = "busy") => cancel' = "sealed"
           /\ cancel = "sealed" /\ pc # "idle" => status' \notin {"cancelled", "deadline"}
<1> DEFINE Goal ==
        /\ SealedInStep'
        /\ tokens' # tokens \/ (status' = "ok" /\ status = "busy") => cancel' = "sealed"
        /\ cancel = "sealed" /\ pc # "idle" => status' \notin {"cancelled", "deadline"}
<1>a. /\ Checked \in {"active", "cancelled", "deadline", "sealed"}
      /\ Checked = "sealed" <=> cancel = "sealed"
      /\ Requested => Checked \in {"cancelled", "deadline"}
    BY CheckedFacts DEF SealedInStep
<1> USE DEF SealedInStep, Outside, Opening, Sealed, RollingBack, sessVars, coordVars, tokenVars
<1>1. CASE UNCHANGED vars
    BY <1>1 DEF vars
<1>2. CASE RefuseRequest
    <2>1. Refusal(frame) \in {"failed", Checked} /\ (Refusal(frame) = Checked => Requested)
        BY <1>2, <1>a DEF RefuseRequest, Refusal
    <2>2. QED
        BY <1>2, <1>a, <2>1 DEF RefuseRequest, End
<1>3. CASE BeginTransaction
    <2>1. /\ pc = "enter" /\ pc' \in {"prefetch", "draft", "chunk"} /\ cancel' = Checked
          /\ UNCHANGED <<tokens, status>>
        BY <1>3 DEF BeginTransaction
    <2>2. QED
        BY <1>a, <2>1
<1>4. CASE GetPrefetch
    BY <1>4, <1>a DEF GetPrefetch, Throw
<1>5. CASE GetDraft
    BY <1>5, <1>a DEF GetDraft, Throw
<1>6. CASE CheckChunk
    BY <1>6, <1>a DEF CheckChunk, Throw
<1>7. CASE GetStage0
    <2>1. /\ pc = "stage0" /\ cancel' \in {Checked, cancel} /\ UNCHANGED tokens
          /\ \/ pc' \in {"checkpoint", "stage1"} /\ UNCHANGED status
             \/ pc' = "rollback0" /\ status' # "ok"
        BY <1>7, <1>a DEF GetStage0, Throw
    <2>2. QED
        BY <1>a, <2>1
<1>8. CASE GetCheckpoint
    BY <1>8, <1>a DEF GetCheckpoint, Throw
<1>9. CASE GetStage1
    <2>1. /\ pc = "stage1" /\ cancel' \in {Checked, cancel} /\ UNCHANGED tokens
          /\ \/ pc' \in {"reconcile", "lookahead", "chunk", "seal"} /\ UNCHANGED status
             \/ pc' = "rollback0" /\ status' # "ok"
        BY <1>9, <1>a DEF GetStage1, Throw
    <2>2. QED
        BY <1>a, <2>1
<1>10. CASE GetReconcile
    BY <1>10, <1>a DEF GetReconcile, Throw
<1>11. CASE GetLookahead
    BY <1>11, <1>a DEF GetLookahead, Throw
<1>12. CASE SealTransaction
    BY <1>12, <1>a DEF SealTransaction, Throw
<1>13. ASSUME NEW s \in Stages, AcknowledgeStage(s) PROVE Goal
    BY <1>13 DEF AcknowledgeStage
<1>14. CASE DecideTransaction
    BY <1>14 DEF DecideTransaction
<1>15. CASE CommitTransaction
    BY <1>15 DEF CommitTransaction
<1>16. CASE GetCommit0
    BY <1>16 DEF GetCommit0, End
<1>17. CASE GetCommit1
    BY <1>17 DEF GetCommit1, End
<1>18. CASE GetRollback0
    BY <1>18 DEF GetRollback0, End
<1>19. CASE GetRollback1
    BY <1>19 DEF GetRollback1, End
<1>20. CASE SeedDecode
    BY <1>20, <1>a DEF SeedDecode, End
<1>21. CASE BeginReset
    BY <1>21, <1>a DEF BeginReset, End
<1>22. CASE GetReset
    BY <1>22 DEF GetReset, End
<1>23. ASSUME NEW s \in Stages, TakeTask(s) PROVE Goal
    BY <1>23, <1>a DEF TakeTask
<1>24. ASSUME NEW s \in Stages, CompleteTask(s) PROVE Goal
    <2>1. cancel' \in {cancel, Checked} /\ UNCHANGED <<pc, status, tokens>>
        BY <1>24 DEF CompleteTask
    <2>2. QED
        BY <1>a, <2>1
<1>25. ASSUME NEW r \in Requests, Request(r[1], r[2]) PROVE Goal
    BY <1>25 DEF Request
<1>26. CASE RequestCancel
    BY <1>26 DEF RequestCancel
<1>27. CASE DeadlinePasses
    BY <1>27 DEF DeadlinePasses
<1>28. CASE FailClosed
    BY <1>28 DEF FailClosed
<1>29. QED
    <2>1. 0 \in Stages /\ 1 \in Stages
        BY DEF Stages
    <2> HIDE DEF SealedInStep
    <2>2. QED
        BY <1>1, <1>2, <1>3, <1>4, <1>5, <1>6, <1>7, <1>8, <1>9, <1>10, <1>11, <1>12, <1>13,
           <1>14, <1>15, <1>16, <1>17, <1>18, <1>19, <1>20, <1>21, <1>22, <1>23, <1>24, <1>25,
           <1>26, <1>27, <1>28, <2>1, CoordinatorCases

\* seal() is the commit point, on every run and for every instance: a request
\* whose cancellation was accepted changes no token and is not answered "ok", and
\* a sealed one is never answered "cancelled" or "deadline".
THEOREM SealIsTheCommitPoint == DualSpec => SealDecides
<1>1. DualInit => SealedInStep
    BY DEF DualInit, SealedInStep, Outside, Sealed, RollingBack, Opening
<1>2. SealedInStep /\ [DualNext]_vars => SealedInStep'
    BY SealedStep
<1>3. SealedInStep /\ [DualNext]_vars =>
        [/\ tokens' # tokens \/ (status' = "ok" /\ status = "busy") => cancel' = "sealed"
         /\ cancel = "sealed" /\ pc # "idle" => status' \notin {"cancelled", "deadline"}]_vars
    BY SealedStep
<1>4. QED
    BY <1>1, <1>2, <1>3, PTL DEF DualSpec, SealDecides
-----------------------------------------------------------------------------
(* Requests and the engine.                                                *)

\* The fields of a frame.
LEMMA FrameFields ==
    ASSUME NEW f, IsFrame(f)
    PROVE  DOMAIN f = {"op", "arg", "eval", "off", "extent", "txn", "commit", "next"}
    BY DEF IsFrame, NoFrame

\* What a caller may ask for.
LEMMA RequestFacts ==
    ASSUME NEW f, <<f.op, f.arg>> \in Requests
    PROVE  /\ f.op \in Operations \cup {"seed", "reset"}
           /\ f.op = "append" => /\ f.arg \in Seq(Vocab) /\ Len(f.arg) \in Counts
           /\ f.op = "speculative" => f.arg \in 0..MaxWidth
<1>1. CASE <<f.op, f.arg>> \in {<<"append", ts>> : ts \in UNION {[1..n -> Vocab] : n \in Counts}}
    <2>1. f.op = "append" /\ \E n \in Counts : f.arg \in [1..n -> Vocab]
        BY <1>1
    <2>2. PICK n \in Counts : f.arg \in [1..n -> Vocab]
        BY <2>1
    <2>3. n \in Nat
        BY SessionTxnAssumption DEF Counts
    <2>4. f.arg \in Seq(Vocab) /\ Len(f.arg) = n
        BY <2>2, <2>3
    <2>5. QED
        BY <2>1, <2>2, <2>4 DEF Operations
<1>2. CASE <<f.op, f.arg>> \in {<<"speculative", w>> : w \in 0..MaxWidth}
    BY <1>2 DEF Operations
<1>3. CASE <<f.op, f.arg>> \in {<<op, 0>> : op \in {"decode", "seed", "reset"}}
    BY <1>3 DEF Operations
<1>4. QED
    BY <1>1, <1>2, <1>3 DEF Requests

\* The kind, the width and the tokens of an admitted request's transaction.
LEMMA AdmittedFacts ==
    ASSUME EngineTypeOK, FrontiersStayValid, NEW f, <<f.op, f.arg>> \in Requests,
           f.op \in Operations, Admissible(f)
    PROVE  /\ KindOf(f) \in Kinds /\ (KindOf(f) = "append" <=> f.op = "append")
           /\ Width(f) \in 0..MaxCount
           /\ f.op = "append" => Width(f) = 0
           /\ KindOf(f) = "decode" => Width(f) = 0
           /\ Width(f) > 0 => KindOf(f) = "speculative"
           /\ KindOf(f) = "speculative" => Width(f) > 0
           /\ f.op # "append" => Pending = 1
           /\ Pending \in {0, 1}
<1>1. /\ frontiers.canonical \in Nat /\ frontiers.target \in Nat /\ ContextLimit \in Nat
      /\ frontiers.target <= frontiers.canonical /\ MaxWidth \in 0..MaxCount /\ MaxCount \in Nat
    BY SessionTxnAssumption, DualStageAssumption
       DEF EngineTypeOK, U64, FrontiersStayValid, ValidFrontiers
<1>2. Pending \in Nat
    BY <1>1 DEF Pending
<1>3. f.op # "append" => Pending = 1 /\ frontiers.canonical < ContextLimit
    BY DEF Admissible
<1>4. f.op = "append" => Pending <= 1
    BY DEF Admissible
<1>5. Width(f) \in 0..MaxCount /\ (f.op = "append" => Width(f) = 0)
    <2>1. CASE f.op = "speculative"
        <3>1. f.arg \in 0..MaxWidth
            BY <2>1, RequestFacts
        <3>2. ContextLimit - frontiers.canonical - 1 \in Nat
            BY <1>1, <1>3, <2>1
        <3>3. QED
            BY <1>1, <2>1, <3>1, <3>2 DEF Width
    <2>2. CASE f.op # "speculative"
        BY <1>1, <2>2 DEF Width
    <2>3. QED
        BY <2>1, <2>2
<1>6. CASE f.op = "append"
    <2>1. KindOf(f) = "append"
        BY <1>6 DEF KindOf
    <2>2. QED
        BY <1>2, <1>4, <1>5, <1>6, <2>1 DEF Kinds
<1>7. CASE f.op # "append"
    <2>1. KindOf(f) = IF Width(f) > 0 THEN "speculative" ELSE "decode"
        BY <1>7 DEF KindOf
    <2>2. QED
        BY <1>3, <1>5, <1>7, <2>1 DEF Kinds
<1>8. QED
    BY <1>6, <1>7

\* A request that is not refused.
LEMMA NotRefused ==
    ASSUME NEW f, Refusal(f) = "none", cancel \in {"active", "cancelled", "deadline", "sealed"}
    PROVE  ~poisoned /\ ~Requested /\ Admissible(f) /\ EnginePrepares(f)
    BY CheckedFacts DEF Refusal

\* The tokens a request evaluates.
LEMMA EvalFacts ==
    ASSUME EngineTypeOK, FrontiersStayValid, NEW f, <<f.op, f.arg>> \in Requests,
           f.op \in Operations, Admissible(f)
    PROVE  /\ IsSeq(EvalTokens(f))
           /\ f.op = "append" => Len(EvalTokens(f)) = Len(f.arg) + Pending /\ Len(f.arg) \in Counts
           /\ f.op # "append" => /\ Len(EvalTokens(f)) = 1 + Width(f)
                                 /\ EvalTokens(f)[1] = PendingToken
           /\ Len(EvalTokens(f)) \in Rows
<1>0. /\ Pending \in {0, 1} /\ Width(f) \in Nat /\ Width(f) <= MaxCount /\ MaxCount \in Nat
    BY AdmittedFacts, SessionTxnAssumption
<1>1. CASE f.op = "append"
    <2>1. f.arg \in Seq(Vocab) /\ Len(f.arg) \in Counts
        BY <1>1, RequestFacts
    <2> DEFINE p == PendingToken
               S == Vocab \cup {p}
               head == IF Pending = 1 THEN <<p>> ELSE <<>>
    <2>2. head \in Seq(S) /\ f.arg \in Seq(S) /\ Len(head) = Pending
        <3> HIDE DEF p
        <3>1. <<p>> \in Seq(S) /\ <<>> \in Seq(S) /\ Len(<<p>>) = 1 /\ Len(<<>>) = 0
            OBVIOUS
        <3>2. f.arg \in Seq(S)
            BY <2>1
        <3>3. QED
            BY <1>0, <3>1, <3>2
    <2>3. EvalTokens(f) = head \o f.arg
        BY <1>1 DEF EvalTokens
    <2> HIDE DEF head, S
    <2>4. head \o f.arg \in Seq(S) /\ Len(head \o f.arg) = Len(head) + Len(f.arg)
        BY <2>2, ConcatProperties
    <2>5. IsSeq(EvalTokens(f))
        BY <2>3, <2>4, SeqIsSeq
    <2>6. QED
        BY <1>0, <1>1, <2>1, <2>2, <2>3, <2>4, <2>5 DEF Counts, Rows
<1>2. CASE f.op # "append"
    <2> DEFINE p == PendingToken
               S == {NoToken, p}
               tail == [i \in 1..Width(f) |-> NoToken]
    <2>2. <<p>> \in Seq(S) /\ tail \in Seq(S) /\ Len(<<p>>) = 1 /\ Len(tail) = Width(f) /\ <<p>>[1] = p
        BY <1>0
    <2>3. EvalTokens(f) = <<p>> \o tail
        BY <1>2 DEF EvalTokens
    <2> HIDE DEF tail, S
    <2>4. <<p>> \o tail \in Seq(S) /\ Len(<<p>> \o tail) = 1 + Width(f) /\ (<<p>> \o tail)[1] = p
        BY <1>0, <2>2, ConcatProperties
    <2>5. IsSeq(EvalTokens(f))
        BY <2>3, <2>4, SeqIsSeq
    <2>6. QED
        BY <1>0, <1>2, <2>3, <2>4, <2>5 DEF Rows
<1>3. QED
    BY <1>1, <1>2

\* Each step of the executor is one of the engine, or leaves it alone.
LEMMA EngineStep ==
    ASSUME EngineInv, SealedInStep, RequestInStep, [DualNext]_vars
    PROVE  [EngineNext]_engineVars
<1>0. EngineTypeOK /\ FrontiersStayValid /\ OpenTxnFitsFrontiers
    BY DEF EngineInv
<1>1. ASSUME UNCHANGED engineVars
      PROVE  [EngineNext]_engineVars
    BY <1>1
<1>a. /\ MaxCount \in Nat
      /\ active => txn.evaluated \in Rows /\ txn.kind \in Kinds /\ txn.epoch \in U64
    BY <1>0, SessionTxnAssumption DEF EngineTypeOK, OpenTxnFitsFrontiers, Rows, Kinds
<1>2. CASE BeginTransaction
    <2>1. /\ <<frame.op, frame.arg>> \in Requests /\ frame.op \in Operations
          /\ Refusal(frame) = "none" /\ cancel \in {"active", "cancelled", "deadline", "sealed"}
        BY <1>2 DEF BeginTransaction, RequestInStep, SealedInStep
    <2>2. Admissible(frame)
        BY <2>1, NotRefused
    <2>3. KindOf(frame) \in Kinds /\ (KindOf(frame) = "append" <=> frame.op = "append")
        BY <1>0, <2>1, <2>2, AdmittedFacts
    <2>4. (frame.op = "append" => Len(frame.arg) \in Counts) /\ Len(EvalTokens(frame)) \in Rows
        BY <1>0, <2>1, <2>2, EvalFacts
    <2>5. IF KindOf(frame) = "append" THEN PrepareAppendKnown(Len(frame.arg))
             ELSE Prepare(KindOf(frame), Len(EvalTokens(frame)))
        BY <1>2 DEF BeginTransaction
    <2>6. QED
        BY <2>3, <2>4, <2>5 DEF EngineNext
<1>3. CASE SealTransaction
    <2>1. CASE ShortenSpeculative(frame.extent)
        <3>1. frame.extent \in Rows
            BY <1>a, <2>1 DEF ShortenSpeculative, Rows
        <3>2. QED
            BY <2>1, <3>1 DEF EngineNext
    <2>2. QED
        BY <1>1, <1>3, <2>1 DEF SealTransaction
<1>4. ASSUME NEW s \in Stages, AcknowledgeStage(s)
      PROVE  [EngineNext]_engineVars
    <2>1. Acknowledge(s, frame.txn.epoch, txn.evaluated)
        BY <1>4 DEF AcknowledgeStage
    <2>2. txn.evaluated \in Rows /\ frame.txn.epoch \in U64
        BY <1>a, <2>1 DEF Acknowledge
    <2>3. QED
        BY <2>1, <2>2 DEF EngineNext
<1>5. CASE DecideTransaction
    <2>1. Decide(StateCommit)
        BY <1>5 DEF DecideTransaction
    <2>2. StateCommit \in Rows
        <3>0. active /\ txn.kind \in Kinds
            BY <1>a, <2>1 DEF Decide
        <3>1. CASE txn.kind = "append"
            BY <1>a, <2>1, <3>0, <3>1 DEF Decide
        <3>2. CASE txn.kind = "decode"
            BY <1>a, <2>1, <3>0, <3>2 DEF Decide, Rows
        <3>3. CASE txn.kind = "speculative"
            BY <1>a, <2>1, <3>0, <3>3 DEF Decide, Rows
        <3>4. QED
            BY <3>0, <3>1, <3>2, <3>3 DEF Kinds
    <2>3. QED
        BY <2>1, <2>2 DEF EngineNext
<1>6. CASE CommitTransaction
    BY <1>6 DEF CommitTransaction, EngineNext
<1>7. CASE GetRollback1
    BY <1>7, <1>1 DEF GetRollback1, EngineNext
<1>8. CASE SeedDecode
    BY <1>8, <1>1 DEF SeedDecode, EngineNext
<1>9. CASE GetReset
    BY <1>9, <1>1 DEF GetReset, EngineNext
<1>10. CASE GetStage0
    BY <1>1, <1>10 DEF GetStage0
<1>11. CASE GetStage1
    BY <1>1, <1>11 DEF GetStage1
<1>12. CASE UNCHANGED vars
    BY <1>12, <1>1 DEF vars
<1>13. ASSUME NEW s \in Stages, TakeTask(s) \/ CompleteTask(s)
       PROVE  [EngineNext]_engineVars
    BY <1>1, <1>13 DEF TakeTask, CompleteTask
<1>14. ASSUME RefuseRequest \/ GetPrefetch \/ GetDraft \/ CheckChunk \/ GetCheckpoint
              \/ GetReconcile \/ GetLookahead \/ GetCommit0 \/ GetCommit1 \/ GetRollback0
              \/ BeginReset \/ (\E r \in Requests : Request(r[1], r[2]))
              \/ RequestCancel \/ DeadlinePasses \/ FailClosed
       PROVE  [EngineNext]_engineVars
    <2>1. UNCHANGED engineVars
        BY <1>14 DEF RefuseRequest, GetPrefetch, GetDraft, CheckChunk, GetCheckpoint,
               GetReconcile, GetLookahead, GetCommit0, GetCommit1, GetRollback0,
               BeginReset, Request, RequestCancel, DeadlinePasses, FailClosed
    <2>2. QED
        BY <1>1, <2>1
<1>15. QED
    <2>1. 0 \in Stages /\ 1 \in Stages
        BY DEF Stages
    <2>2. QED
        BY <1>2, <1>3, <1>4, <1>5, <1>6, <1>7, <1>8, <1>9, <1>10, <1>11, <1>12, <1>13, <1>14, <2>1,
           CoordinatorCases
-----------------------------------------------------------------------------
(* The request under way.                                                  *)

\* Truncating the commit at a stop token leaves the rest of the frame alone.
LEMMA TruncatedFacts ==
    ASSUME NEW f, IsFrame(f)
    PROVE  LET g == Truncated(f) IN
           /\ IsFrame(g) /\ g.op = f.op /\ g.arg = f.arg /\ g.txn = f.txn
           /\ g.eval = f.eval /\ g.off = f.off
<1>1. CASE f.txn.kind # "speculative" \/ StopsAt(f) = {}
    BY <1>1 DEF Truncated
<1>2. CASE ~(f.txn.kind # "speculative" \/ StopsAt(f) = {})
    <2>1. PICK i, x : Truncated(f) = [f EXCEPT !.commit = i, !.next = x]
        BY <1>2 DEF Truncated
    <2>2. QED
        BY <2>1, FrameFields DEF IsFrame
<1>3. QED
    BY <1>1, <1>2

\* What the executor does when a request is admitted: the engine's transaction is
\* opened, its copy is kept in the frame, and the first tasks are submitted.
LEMMA BeginEffect ==
    ASSUME EngineInv, SealedInStep, RequestInStep, FrameInStep, BeginTransaction
    PROVE  /\ pc = "enter" /\ ~poisoned /\ ~active /\ frame.op \in Operations
           /\ <<frame.op, frame.arg>> \in Requests /\ Admissible(frame)
           /\ IsFrame(frame') /\ frame'.op = frame.op /\ frame'.arg = frame.arg
           /\ frame'.eval = EvalTokens(frame) /\ frame'.off = 0 /\ frame'.txn = txn'
           /\ txn' = [epoch |-> frontiers.epoch + 1, base_target |-> frontiers.target,
                      base_canonical |-> frontiers.canonical,
                      evaluated |-> Len(EvalTokens(frame)), commit |-> 0, publish |-> 0,
                      kind |-> KindOf(frame), status |-> "prepared"]
           /\ active' = TRUE
           /\ frontiers'.canonical = frontiers.canonical + AppendedBy(frame)
           /\ frontiers'.target = frontiers.target /\ frontiers'.epoch = frontiers.epoch
           /\ UNCHANGED <<sessVars, status, backend, running, fut>>
<1>0. EngineTypeOK /\ FrontiersStayValid
    BY DEF EngineInv
<1>1. /\ <<frame.op, frame.arg>> \in Requests /\ frame.op \in Operations /\ pc = "enter"
      /\ Refusal(frame) = "none" /\ cancel \in {"active", "cancelled", "deadline", "sealed"}
      /\ UNCHANGED <<sessVars, status, backend, running, fut>>
      /\ IsFrame(frame) /\ frame.off = 0
    BY DEF BeginTransaction, RequestInStep, SealedInStep
<1>2. Admissible(frame) /\ ~poisoned
    BY <1>1, NotRefused
<1>3. KindOf(frame) \in Kinds /\ (KindOf(frame) = "append" <=> frame.op = "append")
    BY <1>0, <1>1, <1>2, AdmittedFacts
<1>4. /\ IF KindOf(frame) = "append" THEN PrepareAppendKnown(Len(frame.arg))
            ELSE Prepare(KindOf(frame), Len(EvalTokens(frame)))
      /\ frame' = [frame EXCEPT !.eval = EvalTokens(frame), !.extent = Len(EvalTokens(frame)),
                                !.txn = txn']
    BY DEF BeginTransaction
<1>5. /\ IsFrame(frame') /\ frame'.op = frame.op /\ frame'.arg = frame.arg
      /\ frame'.eval = EvalTokens(frame) /\ frame'.off = 0 /\ frame'.txn = txn'
    BY <1>1, <1>4, FrameFields DEF IsFrame
<1>6. CASE KindOf(frame) = "append"
    <2>1. PrepareAppendKnown(Len(frame.arg)) /\ frame.op = "append"
        BY <1>3, <1>4, <1>6
    <2>2. Len(EvalTokens(frame)) = Len(frame.arg) + Pending
        BY <1>0, <1>1, <1>2, <2>1, EvalFacts
    <2>3. frontiers' = [frontiers EXCEPT !.canonical = @ + Len(frame.arg)] /\ active' = TRUE /\ ~active
        BY <2>1 DEF PrepareAppendKnown, CanPrepareAppendKnown
    <2>4. /\ frontiers'.canonical = frontiers.canonical + Len(frame.arg)
          /\ frontiers'.target = frontiers.target /\ frontiers'.epoch = frontiers.epoch
        BY <1>0, <2>3 DEF EngineTypeOK
    <2>5. txn' = Opened(frontiers', "append", Len(frame.arg) + Pending, frontiers.canonical)
        BY <2>1 DEF PrepareAppendKnown
    <2>6. QED
        BY <1>1, <1>2, <1>5, <1>6, <2>1, <2>2, <2>3, <2>4, <2>5 DEF Opened, AppendedBy
<1>7. CASE KindOf(frame) # "append"
    <2>1. Prepare(KindOf(frame), Len(EvalTokens(frame))) /\ frame.op # "append"
        BY <1>3, <1>4, <1>7
    <2>2. /\ frontiers' = frontiers /\ active' = TRUE /\ ~active
          /\ txn' = Opened(frontiers, KindOf(frame), Len(EvalTokens(frame)), frontiers.canonical)
        BY <2>1 DEF Prepare, CanPrepare
    <2>3. frontiers.canonical + 0 = frontiers.canonical
        BY <1>0 DEF EngineTypeOK, U64
    <2>4. QED
        BY <1>1, <1>2, <1>5, <1>7, <2>1, <2>2, <2>3 DEF Opened, AppendedBy
<1>8. QED
    BY <1>6, <1>7

\* The step keeps the request, or begins or ends one.
LEMMA RequestStep ==
    ASSUME EngineInv, SealedInStep, RequestInStep, FrameInStep, [DualNext]_vars
    PROVE  RequestInStep'
<1> DEFINE Same(g) == IsFrame(g) /\ g.op = frame.op /\ g.arg = frame.arg
<1>f. IsFrame(frame) /\ IsFrame(NoFrame)
    BY DEF RequestInStep, IsFrame
<1>k. ASSUME pc \in Opening, poisoned' = poisoned, pc' \in InTxn, Same(frame')
      PROVE  RequestInStep'
    BY <1>k DEF RequestInStep, Opening, RollingBack, InTxn, Committing, Outside
<1>e. ASSUME pc' = "idle", frame' = NoFrame, poisoned' \in BOOLEAN
      PROVE  RequestInStep'
    BY <1>e, <1>f DEF RequestInStep, InTxn, Committing, Outside, Opening, RollingBack
<1>t. ASSUME NEW st, pc \in Opening, Throw(st), UNCHANGED sessVars
      PROVE  RequestInStep'
    <2>1. pc' \in InTxn /\ Same(frame') /\ poisoned' = poisoned
        BY <1>t, <1>f DEF Throw, InTxn, RollingBack, sessVars
    <2>2. QED
        BY <1>k, <1>t, <2>1
<1>p. poisoned \in BOOLEAN
    BY DEF RequestInStep
<1> USE DEF sessVars, coordVars
<1>1. CASE UNCHANGED vars
    BY <1>1 DEF vars, RequestInStep
<1>2. CASE RefuseRequest
    BY <1>2, <1>e, <1>p DEF RefuseRequest, End
<1>3. CASE BeginTransaction
    <2>1. /\ pc = "enter" /\ ~poisoned /\ frame.op \in Operations
          /\ Same(frame') /\ poisoned' = poisoned
        BY <1>3, BeginEffect
    <2>2. pc' \in {"prefetch", "draft", "chunk"}
        BY <1>3 DEF BeginTransaction
    <2>3. QED
        BY <2>1, <2>2 DEF RequestInStep, InTxn, Committing, Outside, Opening, RollingBack
<1>4. CASE GetPrefetch
    <2>1. CASE frame' = frame /\ pc' = "chunk"
        BY <1>4, <2>1, <1>k, <1>f DEF GetPrefetch, Opening, InTxn
    <2>2. QED
        BY <1>4, <2>1, <1>t DEF GetPrefetch, Opening
<1>5. CASE GetDraft
    <2> DEFINE x == <<frame.eval[1]>> \o Got(1, "draft", Len(frame.eval) - 1).value
    <2>1. CASE pc' = "chunk" /\ frame' = [frame EXCEPT !.eval = x]
        <3>1. Same(frame')
            BY <2>1, <1>f, FrameFields DEF IsFrame
        <3>2. QED
            BY <1>5, <2>1, <3>1, <1>k DEF GetDraft, Opening, InTxn
    <2>2. QED
        BY <1>5, <2>1, <1>t DEF GetDraft, Opening
<1>6. CASE CheckChunk
    <2>1. CASE frame' = frame /\ pc' = "stage0"
        BY <1>6, <2>1, <1>k, <1>f DEF CheckChunk, Opening, InTxn
    <2>2. QED
        BY <1>6, <2>1, <1>t DEF CheckChunk, Opening
<1>7. CASE GetStage0
    <2>1. CASE frame' = frame /\ pc' \in {"checkpoint", "stage1"}
        BY <1>7, <2>1, <1>k, <1>f DEF GetStage0, Opening, InTxn
    <2>2. QED
        BY <1>7, <2>1, <1>t DEF GetStage0, Opening
<1>8. CASE GetCheckpoint
    <2>1. CASE frame' = frame /\ pc' = "stage1"
        BY <1>8, <2>1, <1>k, <1>f DEF GetCheckpoint, Opening, InTxn
    <2>2. QED
        BY <1>8, <2>1, <1>t DEF GetCheckpoint, Opening
<1>9. CASE GetStage1
    <2> DEFINE r == Got(1, "execute1", frame.off)
               f == [frame EXCEPT !.commit = r.value.commit, !.next = r.value.next]
    <2>1. Same(f) /\ \A x : Same([f EXCEPT !.off = x])
        BY <1>f, FrameFields DEF IsFrame
    <2>2. \/ \E st : Throw(st)
          \/ /\ pc' \in {"reconcile", "lookahead", "chunk", "seal"}
             /\ frame' = f \/ \E x : frame' = [f EXCEPT !.off = x]
        <3> HIDE DEF f
        <3>1. QED
            BY <1>9 DEF GetStage1, f
    <2>3. /\ pc = "stage1" /\ UNCHANGED sessVars
        BY <1>9 DEF GetStage1
    <2> HIDE DEF f
    <2>4. CASE \E st : Throw(st)
        BY <2>3, <2>4, <1>t DEF Opening
    <2>5. CASE pc' \in {"reconcile", "lookahead", "chunk", "seal"} /\ Same(frame')
        BY <2>3, <2>5, <1>k DEF Opening, InTxn
    <2>6. QED
        BY <2>1, <2>2, <2>4, <2>5
<1>10. CASE GetReconcile
    <2>1. CASE pc' = "chunk" /\ frame' = [frame EXCEPT !.off = NextOffset]
        <3>1. Same(frame')
            BY <2>1, <1>f, FrameFields DEF IsFrame
        <3>2. QED
            BY <1>10, <2>1, <3>1, <1>k DEF GetReconcile, Opening, InTxn
    <2>2. QED
        BY <1>10, <2>1, <1>t DEF GetReconcile, Opening
<1>11. CASE GetLookahead
    <2>1. CASE pc' = "seal" /\ frame' = [frame EXCEPT !.extent = NextOffset, !.commit = NextOffset]
        <3>1. Same(frame')
            BY <2>1, <1>f, FrameFields DEF IsFrame
        <3>2. QED
            BY <1>11, <2>1, <3>1, <1>k DEF GetLookahead, Opening, InTxn
    <2>2. QED
        BY <1>11, <2>1, <1>t DEF GetLookahead, Opening
<1>12. CASE SealTransaction
    <2>1. CASE pc' = "ack0" /\ frame' = Truncated(frame)
        <3>1. Same(frame')
            BY <2>1, <1>f, TruncatedFacts
        <3>2. QED
            BY <1>12, <2>1, <3>1, <1>k DEF SealTransaction, Opening, InTxn
    <2>2. QED
        BY <1>12, <2>1, <1>t DEF SealTransaction, Opening
<1>13. ASSUME NEW s \in Stages, AcknowledgeStage(s) PROVE RequestInStep'
    BY <1>13 DEF AcknowledgeStage, RequestInStep, InTxn, Committing, Outside, Opening, RollingBack
<1>14. CASE DecideTransaction
    BY <1>14 DEF DecideTransaction, RequestInStep, InTxn, Committing, Outside, Opening, RollingBack
<1>15. CASE CommitTransaction
    BY <1>15 DEF CommitTransaction, RequestInStep, InTxn, Committing, Outside, Opening, RollingBack
<1>16. CASE GetCommit0
    <2>1. CASE pc' = "commit1" /\ UNCHANGED <<poisoned, frame>>
        BY <1>16, <2>1 DEF GetCommit0, RequestInStep, InTxn, Committing, Outside, Opening, RollingBack
    <2>2. QED
        BY <1>16, <2>1, <1>e DEF GetCommit0, End
<1>17. CASE GetCommit1
    BY <1>17, <1>e, <1>p DEF GetCommit1, End
<1>18. CASE GetRollback0
    <2>1. CASE pc' = "rollback1" /\ UNCHANGED <<poisoned, frame>>
        BY <1>18, <2>1 DEF GetRollback0, RequestInStep, InTxn, Committing, Outside, Opening, RollingBack
    <2>2. QED
        BY <1>18, <2>1, <1>e DEF GetRollback0, End
<1>19. CASE GetRollback1
    BY <1>19, <1>e, <1>p DEF GetRollback1, End
<1>20. CASE SeedDecode
    <2>1. pc' = "idle" /\ frame' = NoFrame /\ UNCHANGED poisoned
        BY <1>20 DEF SeedDecode, End
    <2>2. QED
        BY <2>1, <1>e, <1>p
<1>21. CASE BeginReset
    <2>1. CASE pc' = "reset" /\ UNCHANGED <<frame, poisoned>> /\ ~poisoned
        BY <1>21, <2>1 DEF BeginReset, RequestInStep, InTxn, Committing, Outside, Opening, RollingBack
    <2>2. QED
        BY <1>21, <2>1, <1>e, <1>p DEF BeginReset, End
<1>22. CASE GetReset
    BY <1>22, <1>e, <1>p DEF GetReset, End
<1>23. ASSUME NEW s \in Stages, TakeTask(s) \/ CompleteTask(s) PROVE RequestInStep'
    BY <1>23 DEF TakeTask, CompleteTask, RequestInStep
<1>25. ASSUME NEW r \in Requests, Request(r[1], r[2]) PROVE RequestInStep'
    <2>1. /\ pc' = "enter" /\ frame' = [NoFrame EXCEPT !.op = r[1], !.arg = r[2]] /\ UNCHANGED poisoned
        BY <1>25 DEF Request
    <2>2. IsFrame(frame') /\ frame'.op = r[1] /\ frame'.arg = r[2] /\ frame'.txn = NoTxn /\ frame'.off = 0
        BY <2>1 DEF NoFrame, IsFrame
    <2>3. <<r[1], r[2]>> = r
        BY DEF Requests
    <2>4. QED
        BY <2>1, <2>2, <2>3, <1>p DEF RequestInStep, InTxn, Committing, Outside, Opening, RollingBack
<1>26. CASE RequestCancel
    BY <1>26 DEF RequestCancel, RequestInStep
<1>27. CASE DeadlinePasses
    BY <1>27 DEF DeadlinePasses, RequestInStep
<1>28. CASE FailClosed
    BY <1>28 DEF FailClosed, RequestInStep, Outside
<1>29. QED
    <2>1. 0 \in Stages /\ 1 \in Stages
        BY DEF Stages
    <2>2. QED
        BY <1>1, <1>2, <1>3, <1>4, <1>5, <1>6, <1>7, <1>8, <1>9, <1>10, <1>11, <1>12, <1>13,
           <1>14, <1>15, <1>16, <1>17, <1>18, <1>19, <1>20, <1>21, <1>22, <1>23, <1>25,
           <1>26, <1>27, <1>28, <2>1, CoordinatorCases
-----------------------------------------------------------------------------
(* The transaction's tokens.                                               *)

\* The coordinator's copy of an open transaction, in numbers.
LEMMA FrameFacts ==
    ASSUME EngineInv, FrameInStep, pc \in InTxn \cup Committing
    PROVE  /\ frame.txn.evaluated \in Nat \ {0} /\ Len(frame.eval) = frame.txn.evaluated
           /\ IsSeq(frame.eval) /\ frame.off \in 0..(frame.txn.evaluated - 1)
           /\ NextOf(frame) \in (frame.off + 1)..frame.txn.evaluated
           /\ frame.txn.kind # "append" => NextOf(frame) = frame.off + 1
           /\ pc \in InTxn => frame.txn.epoch \in Nat \ {0}
           /\ Len(tokens) \in Nat /\ frame.txn.base_target \in 0..Len(tokens)
<1>1. EvalInStep(frame, tokens)
    BY DEF FrameInStep
<1>2. Len(frame.eval) \in Nat /\ Len(tokens) \in Nat
    BY <1>1, LenProperties DEF EvalInStep, IsSeq, FrameInStep
<1>3. frame.txn.evaluated \in Nat \ {0} /\ frame.off \in 0..(frame.txn.evaluated - 1)
    BY <1>1, <1>2, SMTT(30) DEF EvalInStep
<1>4. /\ ChunkLen(frame, frame.off) \in 1..(frame.txn.evaluated - frame.off)
      /\ frame.txn.kind # "append" => ChunkLen(frame, frame.off) = 1
    BY <1>3, ChunkFacts
<1>5. pc \in InTxn => frame.txn.epoch \in Nat \ {0}
    <2>1. pc \in InTxn => active /\ frame.txn.epoch = txn.epoch
        BY DEF FrameInStep
    <2>2. active => txn.epoch = frontiers.epoch + 1 /\ frontiers.epoch \in Nat
        BY DEF EngineInv, OpenTxnFitsFrontiers, EngineTypeOK, U64
    <2>3. QED
        BY <2>1, <2>2
<1>6. /\ NextOf(frame) \in (frame.off + 1)..frame.txn.evaluated
      /\ frame.txn.kind # "append" => NextOf(frame) = frame.off + 1
    BY <1>3, <1>4 DEF NextOf
<1>7. QED
    BY <1>1, <1>2, <1>3, <1>5, <1>6 DEF EvalInStep

\* The pending tokens and the appended ones.
LEMMA PendingTokens ==
    ASSUME IsSeq(tokens), frontiers.canonical = Len(tokens), frontiers.target \in Nat,
           Pending \in {0, 1}, frontiers.target <= frontiers.canonical
    PROVE  /\ SubSeq(tokens, frontiers.target + 1, Len(tokens)) =
                 IF Pending = 1 THEN <<PendingToken>> ELSE <<>>
           /\ Pending = 1 => Len(tokens) = frontiers.target + 1 /\ PendingToken = tokens[Len(tokens)]
<1>1. Len(tokens) \in Nat
    BY LenProperties DEF IsSeq
<1>2. CASE Pending = 0
    <2>1. frontiers.target + 1 > Len(tokens)
        BY <1>1, <1>2 DEF Pending
    <2>2. QED
        BY <1>1, <1>2, <2>1, SubSeqEmpty
<1>3. CASE Pending = 1
    <2>1. frontiers.target + 1 = Len(tokens)
        BY <1>1, <1>3 DEF Pending
    <2>2. PICK S : tokens \in Seq(S)
        BY IsSeqFacts
    <2> DEFINE n == Len(tokens)
               u == SubSeq(tokens, n, n)
    <2>3. n \in 1..Len(tokens) /\ \A i \in n..n : tokens[i] \in S
        BY <1>1, <2>1, <2>2
    <2>4. u \in Seq(S) /\ Len(u) = 1 /\ u[1] = tokens[n]
        BY <2>3, SubSeqProperties
    <2>5. u = <<tokens[n]>>
        <3> HIDE DEF u
        <3>1. QED
            BY <2>4
    <2>6. QED
        BY <1>3, <2>1, <2>5 DEF PendingToken
<1>4. QED
    BY <1>2, <1>3

\* The tokens of the transaction that a request opens.
LEMMA BeginEval ==
    ASSUME EngineInv, SealedInStep, RequestInStep, FrameInStep, BeginTransaction
    PROVE  EvalInStep(frame', tokens)
<1>1. /\ pc = "enter" /\ ~poisoned /\ ~active /\ frame.op \in Operations
      /\ <<frame.op, frame.arg>> \in Requests /\ Admissible(frame)
      /\ frame'.op = frame.op /\ frame'.arg = frame.arg
      /\ frame'.eval = EvalTokens(frame) /\ frame'.off = 0 /\ frame'.txn = txn'
      /\ txn'.base_target = frontiers.target
      /\ txn'.evaluated = Len(EvalTokens(frame)) /\ txn'.kind = KindOf(frame)
    BY BeginEffect
<1>2. EngineTypeOK /\ FrontiersStayValid
    BY DEF EngineInv
<1>3. IsSeq(tokens) /\ frontiers.canonical = Len(tokens) /\ Len(tokens) \in Nat
    BY <1>1, LenProperties DEF FrameInStep, Outside, IsSeq
<1>4. frontiers.target \in Nat /\ frontiers.target <= frontiers.canonical
    BY <1>2 DEF EngineTypeOK, U64, FrontiersStayValid, ValidFrontiers
<1>5. /\ KindOf(frame) \in Kinds /\ (KindOf(frame) = "append" <=> frame.op = "append")
      /\ Pending \in {0, 1} /\ (frame.op # "append" => Pending = 1)
    BY <1>1, <1>2, AdmittedFacts
<1>6. /\ IsSeq(EvalTokens(frame)) /\ Len(EvalTokens(frame)) \in Rows
      /\ frame.op # "append" => EvalTokens(frame)[1] = PendingToken
    BY <1>1, <1>2, EvalFacts
<1>7. /\ SubSeq(tokens, frontiers.target + 1, Len(tokens)) =
            IF Pending = 1 THEN <<PendingToken>> ELSE <<>>
      /\ Pending = 1 => Len(tokens) = frontiers.target + 1 /\ PendingToken = tokens[Len(tokens)]
    BY <1>3, <1>4, <1>5, PendingTokens
<1>8. 0 \in 0..(Len(EvalTokens(frame)) - 1)
    BY <1>6, SessionTxnAssumption DEF Rows
<1>9. frame.op = "append" =>
        EvalTokens(frame) = SubSeq(tokens, frontiers.target + 1, Len(tokens)) \o frame.arg
    BY <1>7 DEF EvalTokens
<1>10. ASSUME NEW g, g.op = frame.op, g.arg = frame.arg, g.eval = EvalTokens(frame), g.off = 0,
              g.txn.base_target = frontiers.target,
              g.txn.evaluated = Len(EvalTokens(frame)), g.txn.kind = KindOf(frame)
       PROVE  EvalInStep(g, tokens)
    <2>1. /\ IsSeq(g.eval) /\ Len(g.eval) = g.txn.evaluated /\ g.off \in 0..(g.txn.evaluated - 1)
        BY <1>6, <1>8, <1>10
    <2>2. g.txn.base_target \in 0..Len(tokens)
        BY <1>3, <1>4, <1>10
    <2>3. g.op = "append" => /\ g.txn.kind = "append"
                             /\ g.eval = SubSeq(tokens, g.txn.base_target + 1, Len(tokens)) \o g.arg
        BY <1>5, <1>9, <1>10
    <2>4. g.op # "append" => /\ g.txn.kind \in {"decode", "speculative"}
                             /\ Len(tokens) = g.txn.base_target + 1
                             /\ g.eval[1] = tokens[Len(tokens)]
        BY <1>5, <1>6, <1>7, <1>10 DEF Kinds
    <2>5. QED
        BY <2>1, <2>2, <2>3, <2>4 DEF EvalInStep
<1>11. QED
    BY <1>1, <1>10

\* Concatenation is associative.
LEMMA ConcatAssoc ==
    ASSUME NEW A, NEW a, NEW b, NEW c, a \in Seq(A), b \in Seq(A), c \in Seq(A)
    PROVE  a \o (b \o c) = (a \o b) \o c
    BY ConcatAssociative, SMTT(30)

\* The tokens a committed transaction leaves behind.
Recorded(f, ts, n) ==
    ts \o (IF f.op = "append" THEN f.arg ELSE SubSeq(f.eval, 2, n) \o <<f.next>>)

\* They are as many as the engine counts, and the committed rows are the first of
\* them.
LEMMA RecordedFacts ==
    ASSUME NEW ts, IsSeq(ts), NEW f, EvalInStep(f, ts), CommitOf(f) \in 1..Len(f.eval),
           f.op = "append" => f.arg \in Seq(Vocab)
    PROVE  /\ IsSeq(Recorded(f, ts, CommitOf(f)))
           /\ Len(Recorded(f, ts, CommitOf(f))) =
                 Len(ts) + AppendedBy(f) + (IF f.op = "append" THEN 0 ELSE CommitOf(f))
           /\ SubSeq(Recorded(f, ts, CommitOf(f)), 1, f.txn.base_target + CommitOf(f)) =
                 SubSeq(ts, 1, f.txn.base_target) \o SubSeq(f.eval, 1, CommitOf(f))
<1> DEFINE bt == f.txn.base_target
           c == CommitOf(f)
           n == Len(ts)
           base == SubSeq(ts, 1, bt)
           R == Recorded(f, ts, c)
<1>1. PICK S : ts \in Seq(S)
    BY IsSeqFacts
<1>2. PICK E : f.eval \in Seq(E)
    BY IsSeqFacts DEF EvalInStep
<1>3. n \in Nat /\ bt \in 0..n /\ Len(f.eval) \in Nat /\ c \in 1..Len(f.eval)
    BY <1>1, <1>2 DEF EvalInStep
<1> DEFINE A == S \cup E \cup Vocab \cup {f.next}
<1>4. ts \in Seq(A) /\ f.eval \in Seq(A)
    <2>1. S \subseteq A /\ E \subseteq A
        OBVIOUS
    <2> HIDE DEF A
    <2>2. QED
        BY <1>1, <1>2, <2>1
<1>5. CASE f.op = "append"
    <2>1. f.arg \in Seq(A)
        <3>1. Vocab \subseteq A
            OBVIOUS
        <3> HIDE DEF A
        <3>2. QED
            BY <1>5, <3>1
    <2> DEFINE rest == SubSeq(ts, bt + 1, n)
    <2> HIDE DEF A
    <2>2. /\ rest \in Seq(A) /\ Len(rest) = n - bt /\ base \in Seq(A) /\ base \o rest = ts
        <3>1. \A i \in 1..n : ts[i] \in A
            BY <1>4
        <3>2. base \in Seq(A) /\ Len(base) = bt
            BY <1>3, <1>4, <3>1, SubSeqProperties
        <3>3. rest \in Seq(A) /\ Len(rest) = n - bt
            BY <1>3, <1>4, <3>1, SubSeqProperties
        <3>4. base \o rest = SubSeq(ts, 1, n)
            <4>1. 1 \in 1..(Len(ts) + 1) /\ bt \in (1 - 1)..Len(ts) /\ n \in bt..Len(ts)
                BY <1>3
            <4> HIDE DEF bt, n
            <4>2. QED
                BY <1>4, <4>1, ConcatAdjacentSubSeq
        <3>5. SubSeq(ts, 1, n) = ts
            BY <1>4, SubSeqFull
        <3>6. QED
            BY <3>2, <3>3, <3>4, <3>5
    <2>3. f.eval = rest \o f.arg /\ f.txn.kind = "append" /\ f.txn.evaluated = Len(f.eval)
        BY <1>5 DEF EvalInStep
    <2>4. Len(f.eval) = (n - bt) + Len(f.arg) /\ Len(f.arg) \in Nat
        BY <2>1, <2>2, <2>3, ConcatProperties, SMTT(30)
    <2>5. c = Len(f.eval)
        BY <2>3 DEF CommitOf
    <2>6. R = ts \o f.arg
        BY <1>5 DEF Recorded
    <2>7. R \in Seq(A) /\ Len(R) = n + Len(f.arg)
        BY <1>4, <2>1, <2>6, ConcatProperties
    <2>8. bt + c = Len(R)
        BY <1>3, <2>4, <2>5, <2>7
    <2>9. SubSeq(R, 1, bt + c) = R
        BY <2>7, <2>8, SubSeqFull
    <2>10. SubSeq(f.eval, 1, c) = rest \o f.arg
        BY <1>4, <2>3, <2>5, SubSeqFull
    <2>11. base \o (rest \o f.arg) = R
        <3> DEFINE arg == f.arg
        <3> HIDE DEF base, rest, arg
        <3>a. base \in Seq(A) /\ rest \in Seq(A) /\ arg \in Seq(A)
            BY <2>1, <2>2 DEF arg
        <3>b. base \o (rest \o arg) = (base \o rest) \o arg
            BY <3>a, ConcatAssoc
        <3>1. base \o (rest \o f.arg) = (base \o rest) \o f.arg
            BY <3>b DEF arg
        <3>2. QED
            BY <2>2, <2>6, <3>1
    <2>12. AppendedBy(f) = Len(f.arg)
        BY <1>5 DEF AppendedBy
    <2> HIDE DEF R, c, n, bt, base, rest
    <2>13. IsSeq(R)
        BY <2>7, SeqIsSeq
    <2>14. Len(R) = n + AppendedBy(f) + (IF f.op = "append" THEN 0 ELSE c)
        BY <1>3, <1>5, <2>4, <2>7, <2>12
    <2>15. SubSeq(R, 1, bt + c) = base \o SubSeq(f.eval, 1, c)
        BY <2>9, <2>10, <2>11
    <2>16. QED
        BY <2>13, <2>14, <2>15 DEF R, c, n, bt, base
<1>6. CASE f.op # "append"
    <2> DEFINE mid == SubSeq(f.eval, 2, c)
               x == <<f.next>>
    <2>0. x \in Seq(A) /\ Len(x) = 1
        OBVIOUS
    <2> HIDE DEF A, x
    <2>1. n = bt + 1 /\ f.eval[1] = ts[n]
        BY <1>6 DEF EvalInStep
    <2>2. mid \in Seq(A) /\ Len(mid) = c - 1
        <3>1. \A i \in 1..Len(f.eval) : f.eval[i] \in A
            BY <1>4
        <3>2. QED
            BY <1>3, <1>4, <3>1, SubSeqProperties
    <2>3. base \in Seq(A) /\ Len(base) = bt
        <3>1. \A i \in 1..n : ts[i] \in A
            BY <1>4
        <3>2. QED
            BY <1>3, <1>4, <3>1, SubSeqProperties
    <2>4. R = ts \o (mid \o x)
        BY <1>6 DEF Recorded, x
    <2>5. ts \o (mid \o x) = (ts \o mid) \o x
        <3> HIDE DEF mid
        <3>1. mid \in Seq(A) /\ x \in Seq(A) /\ ts \in Seq(A)
            BY <1>4, <2>0, <2>2
        <3>2. QED
            BY <3>1, ConcatAssoc
    <2>6. ts \o mid \in Seq(A) /\ Len(ts \o mid) = bt + c
        <3> HIDE DEF mid, bt, c
        <3>1. ts \o mid \in Seq(A) /\ Len(ts \o mid) = n + Len(mid)
            BY <1>4, <2>2, ConcatProperties
        <3>2. QED
            BY <1>3, <2>1, <2>2, <3>1
    <2>7. R \in Seq(A) /\ Len(R) = bt + c + 1
        <3> DEFINE u == ts \o mid
        <3> HIDE DEF u, R, bt, c
        <3>1. u \o x \in Seq(A) /\ Len(u \o x) = Len(u) + Len(x)
            BY <2>0, <2>6, ConcatProperties DEF u
        <3>2. R = u \o x
            BY <2>4, <2>5 DEF u
        <3>3. QED
            BY <2>0, <2>6, <3>1, <3>2 DEF u
    <2>8. SubSeq(R, 1, bt + c) = ts \o mid
        <3> HIDE DEF mid, bt, c, R
        <3>1. bt + c \in 1..Len(ts \o mid)
            BY <1>3, <2>6
        <3>2. SubSeq((ts \o mid) \o x, 1, bt + c) = SubSeq(ts \o mid, 1, bt + c)
            <4> DEFINE u == ts \o mid
                       k == bt + c
            <4>1. u \in Seq(A) /\ k \in 1..Len(u) /\ 1 \in 1..Len(u)
                BY <1>3, <2>6, <3>1
            <4> HIDE DEF u, k
            <4>2. SubSeq(u \o x, 1, k) = SubSeq(u, 1, k)
                BY <2>0, <4>1, SubSeqOfConcat1
            <4>3. QED
                BY <4>2 DEF u, k
        <3>3. SubSeq(ts \o mid, 1, bt + c) = ts \o mid
            BY <2>6, SubSeqFull
        <3>4. QED
            BY <2>4, <2>5, <3>2, <3>3
    <2>9. base \o SubSeq(f.eval, 1, 1) = ts
        <3>1. base \o SubSeq(ts, bt + 1, n) = SubSeq(ts, 1, n)
            <4>1. 1 \in 1..(Len(ts) + 1) /\ bt \in (1 - 1)..Len(ts) /\ n \in bt..Len(ts)
                BY <1>3
            <4> HIDE DEF bt, n
            <4>2. QED
                BY <1>4, <4>1, ConcatAdjacentSubSeq
        <3>2. SubSeq(ts, 1, n) = ts
            BY <1>4, SubSeqFull
        <3>3. ASSUME NEW u, u \in Seq(A), NEW i \in 1..Len(u)
              PROVE  SubSeq(u, i, i) = <<u[i]>>
            <4> DEFINE v == SubSeq(u, i, i)
            <4>1. \A j \in i..i : u[j] \in A
                BY <3>3
            <4>2. v \in Seq(A) /\ Len(v) = 1 /\ v[1] = u[i]
                BY <3>3, <4>1, SubSeqProperties
            <4> HIDE DEF v
            <4>3. v = <<u[i]>>
                BY <4>2
            <4>4. QED
                BY <4>3 DEF v
        <3>4. SubSeq(ts, n, n) = <<ts[n]>> /\ SubSeq(f.eval, 1, 1) = <<f.eval[1]>>
            BY <1>3, <1>4, <2>1, <3>3
        <3>5. QED
            BY <2>1, <3>1, <3>2, <3>4
    <2>10. SubSeq(f.eval, 1, 1) \o mid = SubSeq(f.eval, 1, c)
        BY <1>3, <1>4, ConcatAdjacentSubSeq
    <2>11. base \o SubSeq(f.eval, 1, c) = ts \o mid
        <3>1. SubSeq(f.eval, 1, 1) \in Seq(A)
            <4>1. \A i \in 1..Len(f.eval) : f.eval[i] \in A
                BY <1>4
            <4>2. QED
                BY <1>3, <1>4, <4>1, SubSeqProperties
        <3>2. base \o (SubSeq(f.eval, 1, 1) \o mid) = (base \o SubSeq(f.eval, 1, 1)) \o mid
            <4> DEFINE w == SubSeq(f.eval, 1, 1)
            <4> HIDE DEF base, mid, w
            <4>1. w \in Seq(A) /\ base \in Seq(A) /\ mid \in Seq(A)
                BY <2>2, <2>3, <3>1 DEF w
            <4>2. base \o (w \o mid) = (base \o w) \o mid
                BY <4>1, ConcatAssoc
            <4>3. QED
                BY <4>2 DEF w
        <3>3. QED
            BY <2>9, <2>10, <3>2
    <2>12. AppendedBy(f) = 0
        BY <1>6 DEF AppendedBy
    <2> HIDE DEF R, c, n, bt, base, mid
    <2>13. IsSeq(R)
        BY <2>7, SeqIsSeq
    <2>14. Len(R) = n + AppendedBy(f) + (IF f.op = "append" THEN 0 ELSE c)
        BY <1>3, <1>6, <2>1, <2>7, <2>12
    <2>15. SubSeq(R, 1, bt + c) = base \o SubSeq(f.eval, 1, c)
        BY <2>8, <2>11
    <2>16. QED
        BY <2>13, <2>14, <2>15 DEF R, c, n, bt, base
<1>7. QED
    BY <1>5, <1>6

\* The draft's tokens take the place of the rows it stands for.
LEMMA DraftFacts ==
    ASSUME NEW f, NEW ts, EvalInStep(f, ts), f.op # "append", NEW v, NEW g,
           v \in [1..(Len(f.eval) - 1) -> Vocab],
           g.op = f.op, g.arg = f.arg, g.txn = f.txn, g.off = f.off,
           g.eval = <<f.eval[1]>> \o v
    PROVE  /\ EvalInStep(g, ts)
           /\ g.eval[1] = f.eval[1] /\ Len(g.eval) = Len(f.eval)
<1> DEFINE e == f.eval[1]
           A == Vocab \cup {e}
<1>2. Len(f.eval) \in Nat /\ Len(f.eval) - 1 \in Nat
    <2>1. Len(f.eval) \in Nat
        BY LenProperties DEF EvalInStep, IsSeq
    <2>2. f.off \in 0..(Len(f.eval) - 1)
        BY DEF EvalInStep
    <2>3. QED
        BY <2>1, <2>2
<1>3. <<e>> \in Seq(A) /\ Len(<<e>>) = 1 /\ <<e>>[1] = e
    <2> HIDE DEF e
    <2>1. QED
        OBVIOUS
<1>4. v \in Seq(A) /\ Len(v) = Len(f.eval) - 1
    <2> DEFINE k == Len(f.eval) - 1
    <2>1. k \in Nat /\ v \in [1..k -> Vocab]
        BY <1>2
    <2> HIDE DEF k, e
    <2>2. v \in Seq(A) /\ Len(v) = k
        BY <2>1
    <2>3. QED
        BY <2>2 DEF k
<1> HIDE DEF A, e
<1>5. <<e>> \o v \in Seq(A) /\ Len(<<e>> \o v) = 1 + Len(v) /\ (<<e>> \o v)[1] = e
    BY <1>2, <1>3, <1>4, ConcatProperties
<1>6. g.eval \in Seq(A) /\ Len(g.eval) = Len(f.eval) /\ g.eval[1] = f.eval[1]
    BY <1>2, <1>4, <1>5 DEF e
<1>7. IsSeq(g.eval)
    BY <1>6, SeqIsSeq
<1>8. EvalInStep(g, ts)
    BY <1>6, <1>7 DEF EvalInStep
<1>9. QED
    BY <1>6, <1>8

\* GetStage1 without an exception: the answer is noted and the offset moves on.
LEMMA Stage1Effect ==
    ASSUME IsFrame(frame), GetStage1
    PROVE  /\ pc = "stage1" /\ Ready(1, "execute1", frame.off)
           /\ UNCHANGED <<engineVars, sessVars, backend, running>>
           /\ \/ \E st : Throw(st)
              \/ /\ IsFrame(frame') /\ frame'.op = frame.op /\ frame'.arg = frame.arg
                 /\ frame'.txn = frame.txn /\ frame'.eval = frame.eval
                 /\ fut' = fut
                 /\ \/ /\ MoreRows /\ Verifying /\ frame'.off = frame.off
                       /\ \/ pc' = "lookahead" /\ queue' = queue
                          \/ pc' = "reconcile" /\ queue' = Submitted(To(1, Task("reconcile", frame.off)))
                    \/ MoreRows /\ ~Verifying /\ pc' = "chunk" /\ frame'.off = NextOffset /\ queue' = queue
                    \/ ~MoreRows /\ pc' = "seal" /\ frame'.off = frame.off /\ queue' = queue
<1> DEFINE r == Got(1, "execute1", frame.off)
           f == [frame EXCEPT !.commit = r.value.commit, !.next = r.value.next]
           x == IF MoreRows THEN NextOffset ELSE f.off
           g == [f EXCEPT !.off = x]
           S == IF r.st \notin {"ok", "malformed"} THEN r.st
                 ELSE IF Requested THEN Checked ELSE r.st
<1>1. /\ IsFrame(f) /\ f.op = frame.op /\ f.arg = frame.arg /\ f.txn = frame.txn
      /\ f.eval = frame.eval /\ f.off = frame.off
    BY FrameFields DEF IsFrame
<1>2. /\ pc = "stage1" /\ Ready(1, "execute1", frame.off)
      /\ UNCHANGED <<engineVars, sessVars, backend, running>>
      /\ IF S # "ok" THEN Throw(S)
         ELSE /\ IF MoreRows /\ Verifying
                   THEN IF frame.eval[NextOffset + 1] = r.value.next /\ ~(r.value.next \in StopTokens)
                        THEN /\ pc' = "reconcile"
                             /\ queue' = Submitted(To(1, Task("reconcile", frame.off)))
                             /\ frame' = f
                        ELSE pc' = "lookahead" /\ frame' = f /\ UNCHANGED queue
                   ELSE /\ pc' = IF MoreRows THEN "chunk" ELSE "seal"
                        /\ frame' = g
                        /\ UNCHANGED queue
              /\ UNCHANGED <<status, fut>>
    BY Zenon DEF GetStage1
<1> HIDE DEF f, r, S, x
<1>3. /\ IsFrame(g) /\ g.op = f.op /\ g.arg = f.arg /\ g.txn = f.txn /\ g.eval = f.eval /\ g.off = x
    BY <1>1, FrameFields DEF IsFrame
<1>4. x = IF MoreRows THEN NextOffset ELSE frame.off
    BY <1>1 DEF x
<1> HIDE DEF g
<1>5. CASE S # "ok"
    BY <1>2, <1>5
<1>6. CASE S = "ok" /\ MoreRows /\ Verifying
    BY <1>1, <1>2, <1>6
<1>7. CASE S = "ok" /\ ~(MoreRows /\ Verifying)
    BY <1>1, <1>2, <1>3, <1>4, <1>7
<1>8. QED
    BY <1>5, <1>6, <1>7

\* Each step keeps the coordinator's copy of the transaction and the engine's
\* together, and the recorded tokens with the canonical frontier.
LEMMA FrameStep ==
    ASSUME EngineInv, EngineInv', SealedInStep, RequestInStep, FrameInStep,
           ~poisoned => AnswersInStep(pc, frame, fut), [DualNext]_vars
    PROVE  FrameInStep'
<1>f. IsFrame(frame)
    BY DEF RequestInStep
<1>w. pc \notin Outside => ~poisoned
    BY DEF RequestInStep
<1>s. IsSeq(tokens) /\ Len(tokens) \in Nat
    BY LenProperties DEF FrameInStep, IsSeq
<1>k. ASSUME pc \in Opening, UNCHANGED <<engineVars, tokens>>, pc' \in Opening \cup RollingBack,
             pc' \notin {"prefetch", "draft"}, EvalInStep(frame', tokens),
             frame'.op = frame.op, frame'.arg = frame.arg, frame'.txn = frame.txn,
             pc' \in {"checkpoint", "reconcile", "lookahead"} => NextOf(frame') < frame'.txn.evaluated
      PROVE  FrameInStep'
    <2>1. pc \in InTxn /\ pc' \in InTxn
        BY <1>k DEF InTxn
    <2>2. pc' \notin Outside \cup {"reset"} \cup Committing \cup {"commit"}
        BY <1>k DEF Opening, RollingBack, Outside, Committing
    <2>3. AppendedBy(frame') = AppendedBy(frame)
        BY <1>k DEF AppendedBy
    <2>4. QED
        BY <1>k, <2>1, <2>2, <2>3 DEF FrameInStep, engineVars
<1>i. pc \in InTxn \cup Committing => EvalInStep(frame, tokens)
    BY DEF FrameInStep
<1>t. ASSUME NEW st, pc \in Opening, Throw(st), UNCHANGED <<engineVars, tokens>>
      PROVE  FrameInStep'
    BY <1>t, <1>i, <1>k DEF Throw, RollingBack, InTxn
<1> USE DEF sessVars, coordVars, tokenVars, workVars
<1>1. CASE UNCHANGED vars
    BY <1>1 DEF vars, FrameInStep, engineVars
<1>e. ASSUME pc' \in {"idle", "enter", "reset"}, pc \in Outside, UNCHANGED <<engineVars, tokens, poisoned>>
      PROVE  FrameInStep'
    BY <1>e DEF FrameInStep, engineVars, Outside, InTxn, Opening, RollingBack, Committing
<1>x. ASSUME pc' = "idle", poisoned' = TRUE, UNCHANGED tokens
      PROVE  FrameInStep'
    BY <1>x DEF FrameInStep, Outside, InTxn, Opening, RollingBack, Committing
<1>2. CASE RefuseRequest
    BY <1>2, <1>e DEF RefuseRequest, End, Outside
<1>3. CASE BeginTransaction
    <2>1. /\ pc = "enter" /\ ~poisoned /\ <<frame.op, frame.arg>> \in Requests /\ Admissible(frame)
          /\ frame.op \in Operations
          /\ frame'.op = frame.op /\ frame'.arg = frame.arg
          /\ frame'.off = 0 /\ frame'.txn = txn' /\ active' = TRUE
          /\ txn'.base_canonical = frontiers.canonical /\ txn'.kind = KindOf(frame)
          /\ frontiers'.canonical = frontiers.canonical + AppendedBy(frame)
          /\ tokens' = tokens
        BY <1>3, BeginEffect
    <2>2. frontiers.canonical = Len(tokens) /\ AppendedBy(frame') = AppendedBy(frame)
        BY <2>1 DEF FrameInStep, Outside, AppendedBy
    <2>3. EvalInStep(frame', tokens)
        BY <1>3, BeginEval
    <2>4. pc' \in {"prefetch", "draft", "chunk"} /\ (pc' = "draft" => Width(frame) > 0)
        BY <1>3 DEF BeginTransaction
    <2>5. Width(frame) > 0 => KindOf(frame) = "speculative"
        BY <2>1, AdmittedFacts DEF EngineInv
    <2>6. frame'.txn.evaluated \in Nat
        <3>1. Len(frame'.eval) \in Nat /\ Len(frame'.eval) = frame'.txn.evaluated
            BY <2>3, LenProperties DEF EvalInStep, IsSeq
        <3>2. QED
            BY <3>1
    <2>7. pc' \in InTxn /\ pc' \notin Outside \cup {"reset"} \cup Committing \cup {"commit"}
        BY <2>4 DEF InTxn, Opening, RollingBack, Outside, Committing
    <2>8. QED
        BY <1>s, <2>1, <2>2, <2>3, <2>4, <2>5, <2>6, <2>7 DEF FrameInStep
<1>4. CASE GetPrefetch
    <2>1. CASE frame' = frame /\ pc' = "chunk"
        BY <1>4, <2>1, <1>k, <1>i DEF GetPrefetch, Opening, InTxn
    <2>2. QED
        BY <1>4, <2>1, <1>t DEF GetPrefetch, Opening
<1>5. CASE GetDraft
    <2> DEFINE w == Len(frame.eval) - 1
               r == Got(1, "draft", w)
    <2>0. pc = "draft" /\ Ready(1, "draft", w) /\ UNCHANGED <<engineVars, tokens>> /\ ~poisoned
        BY <1>5, <1>w DEF GetDraft, Outside
    <2>1. CASE r.st = "ok" /\ pc' = "chunk" /\ frame' = [frame EXCEPT !.eval = <<frame.eval[1]>> \o r.value]
        <3>1. r.value \in [1..w -> Vocab]
            <4> DEFINE k == <<1, "draft", w>>
            <4>1. k \in DOMAIN fut /\ fut[k] = r /\ k[2] = "draft" /\ k[3] = w
                BY <2>0 DEF Ready, Got
            <4>2. fut[k].value \in [1..k[3] -> Vocab]
                BY <2>0, <2>1, <4>1 DEF AnswersInStep
            <4>3. QED
                BY <4>1, <4>2
        <3>2. frame.op # "append" /\ EvalInStep(frame, tokens)
            BY <2>0, <1>i DEF FrameInStep, EvalInStep, InTxn, Opening
        <3>3. EvalInStep(frame', tokens) /\ frame'.op = frame.op /\ frame'.arg = frame.arg /\ frame'.txn = frame.txn
            <4>1. /\ frame'.op = frame.op /\ frame'.arg = frame.arg /\ frame'.txn = frame.txn
                  /\ frame'.off = frame.off /\ frame'.eval = <<frame.eval[1]>> \o r.value
                BY <1>f, <2>1, FrameFields
            <4>2. r.value \in [1..(Len(frame.eval) - 1) -> Vocab]
                BY <3>1
            <4> HIDE DEF r, w
            <4>3. EvalInStep(frame', tokens)
                BY <3>2, <4>1, <4>2, DraftFacts
            <4>4. QED
                BY <4>1, <4>3
        <3>4. QED
            BY <2>0, <2>1, <3>3, <1>k DEF Opening
    <2>2. CASE Throw(r.st)
        BY <2>0, <2>2, <1>t DEF Opening
    <2>3. QED
        BY <1>5, <2>1, <2>2 DEF GetDraft
<1>6. CASE CheckChunk
    <2>1. CASE frame' = frame /\ pc' = "stage0"
        BY <1>6, <2>1, <1>k, <1>i DEF CheckChunk, Opening, InTxn
    <2>2. QED
        BY <1>6, <2>1, <1>t DEF CheckChunk, Opening
<1>7. CASE GetStage0
    <2>1. CASE frame' = frame /\ (pc' = "stage1" \/ (pc' = "checkpoint" /\ MoreRows))
        BY <1>7, <2>1, <1>k, <1>i DEF GetStage0, Opening, InTxn, MoreRows, NextOffset, NextOf
    <2>2. QED
        BY <1>7, <2>1, <1>t DEF GetStage0, Opening
<1>8. CASE GetCheckpoint
    <2>1. CASE frame' = frame /\ pc' = "stage1"
        BY <1>8, <2>1, <1>k, <1>i DEF GetCheckpoint, Opening, InTxn
    <2>2. QED
        BY <1>8, <2>1, <1>t DEF GetCheckpoint, Opening
<1>9. CASE GetStage1
    <2>1. /\ pc = "stage1" /\ UNCHANGED <<engineVars, tokens>>
          /\ \/ \E st : Throw(st)
             \/ /\ frame'.op = frame.op /\ frame'.arg = frame.arg
                /\ frame'.txn = frame.txn /\ frame'.eval = frame.eval
                /\ pc' \in {"reconcile", "lookahead", "chunk", "seal"}
                /\ frame'.off = frame.off \/ (MoreRows /\ frame'.off = NextOffset)
                /\ pc' \in {"reconcile", "lookahead"} => MoreRows /\ frame'.off = frame.off
        BY <1>9, <1>f, Stage1Effect
    <2>2. pc \in Opening /\ pc \in InTxn
        BY <2>1 DEF Opening, InTxn
    <2>3. CASE \E st : Throw(st)
        BY <2>1, <2>2, <2>3, <1>t
    <2>4. CASE ~\E st : Throw(st)
        <3>1. EvalInStep(frame, tokens) /\ NextOf(frame) \in Nat
            BY <2>2, <1>i, FrameFacts
        <3>2. MoreRows => NextOffset \in 0..(frame.txn.evaluated - 1)
            BY <2>2, <3>1, FrameFacts DEF MoreRows, NextOffset, NextOf
        <3>3. EvalInStep(frame', tokens)
            BY <2>1, <2>4, <3>1, <3>2 DEF EvalInStep
        <3>4. pc' \in {"reconcile", "lookahead"} => NextOf(frame') < frame'.txn.evaluated
            BY <2>1, <2>4 DEF MoreRows, NextOffset, NextOf, ChunkLen
        <3>5. QED
            BY <2>1, <2>2, <2>4, <3>3, <3>4, <1>k DEF Opening
    <2>5. QED
        BY <2>3, <2>4
<1>10. CASE GetReconcile
    <2>0. pc = "reconcile" /\ pc \in InTxn /\ pc \in Opening /\ UNCHANGED <<engineVars, tokens>>
        BY <1>10 DEF GetReconcile, InTxn, Opening
    <2>a. MoreRows
        BY <2>0 DEF FrameInStep, MoreRows, NextOffset, NextOf
    <2>1. CASE pc' = "chunk" /\ frame' = [frame EXCEPT !.off = NextOffset]
        <3>1. /\ frame'.op = frame.op /\ frame'.arg = frame.arg
              /\ frame'.txn = frame.txn /\ frame'.eval = frame.eval /\ frame'.off = NextOffset
            BY <2>1, <1>f, FrameFields
        <3>2. EvalInStep(frame, tokens) /\ NextOffset \in 0..(frame.txn.evaluated - 1)
            BY <2>0, <2>a, <1>i, FrameFacts DEF MoreRows, NextOffset, NextOf
        <3>3. EvalInStep(frame', tokens)
            BY <3>1, <3>2 DEF EvalInStep
        <3>4. QED
            BY <2>0, <2>1, <3>1, <3>3, <1>k DEF Opening
    <2>2. QED
        BY <1>10, <2>0, <2>1, <1>t DEF GetReconcile
<1>11. CASE GetLookahead
    <2>0. pc = "lookahead" /\ pc \in InTxn /\ pc \in Opening /\ UNCHANGED <<engineVars, tokens>>
        BY <1>11 DEF GetLookahead, InTxn, Opening
    <2>1. CASE pc' = "seal" /\ frame' = [frame EXCEPT !.extent = NextOffset, !.commit = NextOffset]
        <3>1. /\ frame'.op = frame.op /\ frame'.arg = frame.arg
              /\ frame'.txn = frame.txn /\ frame'.eval = frame.eval /\ frame'.off = frame.off
            BY <2>1, <1>f, FrameFields
        <3>3. EvalInStep(frame', tokens)
            BY <2>0, <3>1, <1>i DEF EvalInStep
        <3>4. QED
            BY <2>0, <2>1, <3>1, <3>3, <1>k DEF Opening
    <2>2. QED
        BY <1>11, <2>0, <2>1, <1>t DEF GetLookahead
<1>12. CASE SealTransaction
    <2>0. pc = "seal" /\ pc \in InTxn /\ UNCHANGED <<tokens, poisoned>> /\ EvalInStep(frame, tokens)
        BY <1>12, <1>i DEF SealTransaction, InTxn, Opening
    <2>1. /\ frame'.op = frame.op /\ frame'.arg = frame.arg /\ pc' \in {"ack0", "rollback0"}
          /\ frame'.txn = frame.txn /\ frame'.eval = frame.eval /\ frame'.off = frame.off
        <3>1. CASE frame' = frame /\ pc' = "rollback0"
            BY <3>1
        <3>2. CASE frame' = Truncated(frame) /\ pc' = "ack0"
            BY <3>2, <1>f, TruncatedFacts
        <3>3. QED
            BY <1>12, <3>1, <3>2 DEF SealTransaction, Throw
    <2>2. EvalInStep(frame', tokens)
        BY <2>0, <2>1 DEF EvalInStep
    <2>3. /\ active' = active /\ frontiers' = frontiers /\ txn'.epoch = txn.epoch
          /\ txn'.base_target = txn.base_target /\ txn'.kind = txn.kind
          /\ txn'.evaluated <= txn.evaluated /\ txn'.base_canonical = txn.base_canonical
          /\ txn.evaluated \in Nat /\ txn'.evaluated \in Nat
        <3>0. txn.evaluated \in Nat
            BY DEF EngineInv, EngineTypeOK
        <3>1. CASE UNCHANGED engineVars
            BY <3>0, <3>1 DEF engineVars
        <3>2. CASE ShortenSpeculative(frame.extent)
            <4>1. /\ txn' = [txn EXCEPT !.evaluated = frame.extent] /\ UNCHANGED <<frontiers, active>>
                  /\ frame.extent \in 1..(txn.evaluated - 1)
                BY <3>2 DEF ShortenSpeculative
            <4>2. QED
                BY <3>0, <4>1 DEF EngineInv, EngineTypeOK
        <3>3. QED
            BY <1>12, <3>1, <3>2 DEF SealTransaction
    <2>4. AppendedBy(frame') = AppendedBy(frame) /\ frame.txn.evaluated \in Nat
        BY <2>0, <2>1, FrameFacts DEF AppendedBy
    <2>5. pc' \in InTxn /\ pc' \notin Outside \cup {"reset"} \cup Committing \cup {"commit"} \cup Opening
        BY <2>1 DEF InTxn, Opening, RollingBack, Outside, Committing
    <2>6. pc' \notin {"prefetch", "draft", "checkpoint", "reconcile", "lookahead"}
        BY <2>1
    <2>7. txn'.evaluated <= frame'.txn.evaluated
        BY <2>0, <2>1, <2>3, <2>4 DEF FrameInStep
    <2>8. QED
        BY <2>0, <2>1, <2>2, <2>3, <2>4, <2>5, <2>6, <2>7 DEF FrameInStep
<1>g. ASSUME pc \in {"ack0", "ack1", "decide"}, pc' \in {"ack1", "decide", "commit"},
             UNCHANGED <<frontiers, active, tokens, frame>>,
             txn'.epoch = txn.epoch, txn'.base_target = txn.base_target, txn'.kind = txn.kind,
             txn'.evaluated = txn.evaluated, txn'.base_canonical = txn.base_canonical,
             pc' = "commit" => txn'.status = "decided" /\ txn'.commit = CommitOf(frame)
      PROVE  FrameInStep'
    BY <1>g DEF FrameInStep, InTxn, Opening, RollingBack, Outside, Committing
<1>13. ASSUME NEW s \in Stages, AcknowledgeStage(s) PROVE FrameInStep'
    <2>1. /\ pc \in {"ack0", "ack1"} /\ pc' \in {"ack1", "decide"}
          /\ UNCHANGED <<frontiers, active, tokens, frame, txn>>
        BY <1>13 DEF AcknowledgeStage, Acknowledge
    <2>2. QED
        BY <2>1, <1>g
<1>14. CASE DecideTransaction
    <2>1. /\ pc = "decide" /\ pc' = "commit" /\ Decide(StateCommit) /\ UNCHANGED <<tokens, frame>>
        BY <1>14 DEF DecideTransaction
    <2>2. /\ UNCHANGED <<frontiers, active>>
          /\ txn' = [txn EXCEPT !.commit = StateCommit, !.status = "decided",
                               !.publish = IF txn.kind = "append" THEN 0 ELSE StateCommit]
        BY <2>1 DEF Decide
    <2>3. StateCommit = CommitOf(frame)
        BY DEF StateCommit, Verifying, CommitOf
    <2>4. /\ txn'.epoch = txn.epoch /\ txn'.base_target = txn.base_target /\ txn'.kind = txn.kind
          /\ txn'.evaluated = txn.evaluated /\ txn'.base_canonical = txn.base_canonical
          /\ txn'.status = "decided" /\ txn'.commit = CommitOf(frame)
        BY <2>2, <2>3 DEF EngineInv, EngineTypeOK
    <2>5. QED
        BY <2>1, <2>2, <2>4, <1>g
<1>15. CASE CommitTransaction
    <2>1. /\ pc = "commit" /\ pc' = "commit0" /\ Commit /\ UNCHANGED <<tokens, frame, poisoned>>
        BY <1>15 DEF CommitTransaction
    <2>2. /\ pc \in InTxn /\ pc' \in Committing /\ pc' \notin InTxn \cup Outside
        BY <2>1 DEF InTxn, Committing, Outside, Opening, RollingBack
    <2>3. /\ active /\ txn.status = "decided" /\ active' = FALSE /\ frontiers' = CommittedFrontiers
          /\ txn' = [txn EXCEPT !.status = "committed"]
        BY <2>1 DEF Commit
    <2>4. /\ txn.commit \in 1..txn.evaluated /\ txn.evaluated \in Nat
          /\ txn.publish = (IF txn.kind = "append" THEN 0 ELSE txn.commit)
          /\ txn.base_target = frontiers.target
        BY <2>3 DEF EngineInv, EngineTypeOK, DecisionMatchesKind, OpenTxnFitsFrontiers
    <2>5. txn'.publish = txn.publish
        BY <2>3 DEF EngineInv, EngineTypeOK
    <2>6. /\ EvalInStep(frame, tokens) /\ Len(frame.eval) = frame.txn.evaluated
          /\ frame.txn.evaluated \in Nat
        BY <2>2, <1>i, FrameFacts
    <2>7. /\ txn.commit = CommitOf(frame) /\ txn.evaluated <= frame.txn.evaluated
          /\ frame.txn.epoch = txn.epoch /\ frame.txn.base_target = txn.base_target
          /\ frame.txn.kind = txn.kind
          /\ frontiers.canonical = Len(tokens) + AppendedBy(frame)
        BY <2>1, <2>2 DEF FrameInStep
    <2>8. CommitOf(frame) \in 1..Len(frame.eval)
        BY <2>4, <2>6, <2>7
    <2>9. /\ frontiers'.epoch = txn.epoch /\ frontiers'.target = frontiers.target + txn.commit
          /\ frontiers'.canonical = frontiers.canonical + txn.publish
        BY <2>3 DEF CommittedFrontiers
    <2>10. frame.op = "append" <=> txn.kind = "append"
        BY <2>6, <2>7 DEF EvalInStep
    <2>11. QED
        BY <1>s, <2>1, <2>2, <2>3, <2>4, <2>5, <2>6, <2>7, <2>8, <2>9, <2>10 DEF FrameInStep
<1>16. CASE GetCommit0
    <2>1. CASE pc' = "commit1" /\ UNCHANGED <<poisoned, frame>>
        <3>1. pc = "commit0" /\ UNCHANGED <<engineVars, tokens>>
            BY <1>16 DEF GetCommit0
        <3>2. QED
            BY <2>1, <3>1 DEF engineVars, FrameInStep, InTxn, Opening, RollingBack, Committing, Outside
    <2>2. QED
        BY <1>16, <2>1, <1>x DEF GetCommit0, End
<1>17. CASE GetCommit1
    <2>0. /\ pc = "commit1" /\ UNCHANGED engineVars /\ StateCommit = CommitOf(frame)
          /\ pc \in Committing /\ pc' = "idle"
        BY <1>17 DEF GetCommit1, StateCommit, Verifying, CommitOf, Committing, End
    <2>1. CASE Got(1, "commit", StateCommit).st = "ok"
        <3>1. /\ EvalInStep(frame, tokens) /\ CommitOf(frame) \in 1..Len(frame.eval) /\ ~active
              /\ frontiers.canonical = Len(tokens) + AppendedBy(frame) + txn.publish
              /\ txn.publish = IF frame.op = "append" THEN 0 ELSE CommitOf(frame)
            BY <2>0 DEF FrameInStep
        <3>2. tokens' = Recorded(frame, tokens, CommitOf(frame))
            BY <1>17, <2>0, <2>1, <3>1 DEF GetCommit1, Recorded
        <3>3. frame.op = "append" => frame.arg \in Seq(Vocab)
            BY <2>0, RequestFacts DEF RequestInStep
        <3>4. IsSeq(tokens') /\ Len(tokens') = frontiers.canonical
            BY <1>s, <3>1, <3>2, <3>3, RecordedFacts
        <3>5. QED
            BY <2>0, <3>1, <3>4 DEF engineVars, FrameInStep, InTxn, Opening, RollingBack, Committing, Outside
    <2>2. QED
        BY <1>17, <2>1, <1>x DEF GetCommit1, End
<1>18. CASE GetRollback0
    <2>1. CASE pc' = "rollback1" /\ UNCHANGED <<poisoned, frame>>
        <3>1. pc = "rollback0" /\ UNCHANGED <<engineVars, tokens>>
            BY <1>18 DEF GetRollback0
        <3>2. QED
            BY <2>1, <3>1 DEF engineVars, FrameInStep, InTxn, Opening, RollingBack, Committing, Outside
    <2>2. QED
        BY <1>18, <2>1, <1>x DEF GetRollback0, End
<1>19. CASE GetRollback1
    <2>1. CASE Rollback
        <3>1. pc = "rollback1" /\ pc' = "idle" /\ UNCHANGED tokens /\ pc \in InTxn
            BY <1>19 DEF GetRollback1, End, InTxn, RollingBack
        <3>2. active' = FALSE /\ frontiers'.canonical = IF txn.kind = "append" THEN txn.base_canonical
                                                       ELSE frontiers.canonical
            BY <2>1 DEF Rollback, EngineInv, EngineTypeOK
        <3>3. /\ txn.base_canonical = Len(tokens) /\ EvalInStep(frame, tokens)
              /\ frame.txn.kind = txn.kind
              /\ frontiers.canonical = Len(tokens) + AppendedBy(frame)
            BY <3>1 DEF FrameInStep
        <3>4. frontiers'.canonical = Len(tokens)
            <4>1. CASE frame.op = "append"
                BY <3>2, <3>3, <4>1 DEF EvalInStep
            <4>2. CASE frame.op # "append"
                BY <1>s, <3>2, <3>3, <4>2 DEF EvalInStep, AppendedBy
            <4>3. QED
                BY <4>1, <4>2
        <3>5. QED
            BY <1>s, <3>1, <3>2, <3>4 DEF FrameInStep, InTxn, Opening, RollingBack, Committing, Outside
    <2>2. QED
        BY <1>19, <2>1, <1>x DEF GetRollback1, End
<1>20. CASE SeedDecode
    <2>0. pc = "enter" /\ pc' = "idle" /\ UNCHANGED poisoned
        BY <1>20 DEF SeedDecode, End
    <2>1. CASE UNCHANGED <<engineVars, tokens>>
        BY <2>0, <2>1, <1>e DEF Outside
    <2>2. CASE SeedDecodePending /\ tokens' = Append(tokens, sample) /\ ~poisoned
        <3>1. frontiers'.canonical = frontiers.canonical + 1 /\ active' = active
            BY <2>2 DEF SeedDecodePending, EngineInv, EngineTypeOK
        <3>2. frontiers.canonical = Len(tokens) /\ ~active
            BY <2>0, <2>2 DEF FrameInStep, Outside
        <3>3. IsSeq(tokens') /\ Len(tokens') = Len(tokens) + 1
            <4>1. PICK S : tokens \in Seq(S)
                BY <1>s, IsSeqFacts
            <4>2. tokens \in Seq(S \cup {sample}) /\ sample \in S \cup {sample}
                BY <4>1
            <4>3. Append(tokens, sample) \in Seq(S \cup {sample}) /\ Len(Append(tokens, sample)) = Len(tokens) + 1
                BY <4>2, AppendProperties
            <4>4. QED
                BY <2>2, <4>3, SeqIsSeq
        <3>4. QED
            BY <2>0, <3>1, <3>2, <3>3 DEF FrameInStep, InTxn, Opening, RollingBack, Committing, Outside
    <2>3. QED
        BY <1>20, <2>1, <2>2 DEF SeedDecode
<1>21. CASE BeginReset
    BY <1>21, <1>e DEF BeginReset, End, Outside
<1>22. CASE GetReset
    <2>1. CASE Reset /\ tokens' = <<>>
        <3>1. frontiers'.canonical = 0 /\ ~active'
            BY <2>1 DEF Reset, ZeroFrontiers
        <3>2. pc' = "idle" /\ IsSeq(<<>>) /\ Len(<<>>) = 0
            BY <1>22, EmptyIsSeq DEF GetReset, End
        <3>3. QED
            BY <2>1, <3>1, <3>2 DEF FrameInStep, InTxn, Opening, RollingBack, Committing, Outside
    <2>2. QED
        BY <1>22, <2>1, <1>x DEF GetReset, End
<1>23. ASSUME NEW s \in Stages, TakeTask(s) \/ CompleteTask(s) PROVE FrameInStep'
    <2>1. UNCHANGED <<engineVars, tokens, poisoned, pc, frame>>
        BY <1>23 DEF TakeTask, CompleteTask
    <2>2. QED
        BY <2>1 DEF FrameInStep, engineVars
<1>25. ASSUME NEW r \in Requests, Request(r[1], r[2]) PROVE FrameInStep'
    BY <1>25, <1>e DEF Request, Outside
<1>26. CASE RequestCancel
    BY <1>26 DEF RequestCancel, FrameInStep, engineVars
<1>27. CASE DeadlinePasses
    BY <1>27 DEF DeadlinePasses, FrameInStep, engineVars
<1>28. CASE FailClosed
    BY <1>28, <1>x DEF FailClosed
<1>29. QED
    <2>1. 0 \in Stages /\ 1 \in Stages
        BY DEF Stages
    <2>2. QED
        BY <1>1, <1>2, <1>3, <1>4, <1>5, <1>6, <1>7, <1>8, <1>9, <1>10, <1>11, <1>12, <1>13,
           <1>14, <1>15, <1>16, <1>17, <1>18, <1>19, <1>20, <1>21, <1>22, <1>23, <1>25,
           <1>26, <1>27, <1>28, <2>1, CoordinatorCases
-----------------------------------------------------------------------------
(* What a backend call leaves behind.                                      *)

\* The calls of the chunk loop, and those that end a transaction or the session.
LoopCalls == {"execute0", "execute1", "draft", "prefetch", "reconcile", "checkpoint"}
ClosingCalls == {"commit", "rollback", "reset"}

\* What an accepted call makes of a backend.
AfterCall(s, b, t, b2) ==
    \/ /\ t.call \in {"execute0", "execute1"}
       /\ ExecuteAccepted(b, t.txn, t.n) /\ b2 = Executed(b, t.txn, t.toks)
    \/ t.call \in {"draft", "prefetch", "reconcile"} /\ b2 = b
    \/ t.call = "checkpoint" /\ CheckpointAccepted(b, t.txn.epoch, t.n) /\ b2 = Checkpointed(b, t.n)
    \/ t.call = "commit" /\ CommitAccepted(b, s, t.txn.epoch, t.n) /\ b2 = Committed(b, t.n)
    \/ t.call = "rollback" /\ RollbackAccepted(b, t.txn.epoch) /\ b2 = RolledBack(b, t.txn.epoch)
    \/ t.call = "reset" /\ ResetAccepted(b) /\ b2 = FreshBackend

\* A call refuses and changes nothing, or is accepted; only an accepted one is
\* answered "ok".
LEMMA CallFacts ==
    ASSUME NEW s, NEW b, NEW t, t.call \in LoopCalls \cup ClosingCalls,
           NEW o \in CallOutcomes(s, b, t)
    PROVE  /\ DOMAIN o = {"b", "res"} /\ DOMAIN o.res = {"st", "value"}
           /\ o.b = b \/ AfterCall(s, b, t, o.b)
           /\ o.res.st = "ok" => AfterCall(s, b, t, o.b)
           /\ o.res.st = "ok" /\ t.call = "draft" => o.res.value \in [1..t.n -> Vocab]
<1> DEFINE Goal(p) == /\ DOMAIN p = {"b", "res"} /\ DOMAIN p.res = {"st", "value"}
                      /\ p.b = b \/ AfterCall(s, b, t, p.b)
                      /\ p.res.st = "ok" => AfterCall(s, b, t, p.b)
                      /\ p.res.st = "ok" /\ t.call = "draft" => p.res.value \in [1..t.n -> Vocab]
<1>1. ASSUME NEW b2, NEW v, NEW p \in {[b |-> b2, res |-> Result("ok", v)]}, AfterCall(s, b, t, b2),
             t.call = "draft" => v \in [1..t.n -> Vocab]
      PROVE  Goal(p)
    BY <1>1 DEF Result
<1>2. ASSUME NEW v, NEW p \in {[b |-> b, res |-> Result("failed", v)]} PROVE Goal(p)
    BY <1>2 DEF Result
<1>3. ASSUME NEW b2, NEW v, NEW p \in {[b |-> b2, res |-> Result("failed", v)]}, AfterCall(s, b, t, b2)
      PROVE  Goal(p)
    BY <1>3 DEF Result
<1> SUFFICES Goal(o)
    OBVIOUS
<1> HIDE DEF Goal
<1>4. CASE t.call = "execute0"
    <2> DEFINE b2 == Executed(b, t.txn, t.toks)
               v == BoundaryOf(b2, t.txn, t.n, Len(t.toks))
    <2>1. CallOutcomes(s, b, t) =
            IF ExecuteAccepted(b, t.txn, t.n)
            THEN {[b |-> b2, res |-> Result("ok", v)]}
            ELSE {[b |-> b, res |-> Result("failed", NoToken)]}
        BY <1>4 DEF CallOutcomes
    <2>2. ExecuteAccepted(b, t.txn, t.n) => AfterCall(s, b, t, b2)
        BY <1>4 DEF AfterCall
    <2> HIDE DEF b2, v
    <2>3. CASE ExecuteAccepted(b, t.txn, t.n)
        BY <1>4, <2>1, <2>2, <2>3, <1>1
    <2>4. CASE ~ExecuteAccepted(b, t.txn, t.n)
        BY <2>1, <2>4, <1>2
    <2>5. QED
        BY <2>3, <2>4
<1>5. CASE t.call = "execute1"
    <2> DEFINE b2 == Executed(b, t.txn, t.toks)
               v == StageOneOutput(b2, t.txn, t.boundary, t.final)
               m == BoundaryMatches(t.boundary, t.txn, t.n, Len(t.toks))
    <2>1. CallOutcomes(s, b, t) =
            IF ~ExecuteAccepted(b, t.txn, t.n) THEN {[b |-> b, res |-> Result("failed", NoToken)]}
            ELSE IF m THEN {[b |-> b2, res |-> Result("ok", v)]}
            ELSE {[b |-> b2, res |-> Result("failed", NoToken)]}
        BY <1>5 DEF CallOutcomes
    <2>2. ExecuteAccepted(b, t.txn, t.n) => AfterCall(s, b, t, b2)
        BY <1>5 DEF AfterCall
    <2> HIDE DEF b2, v, m
    <2>3. CASE ExecuteAccepted(b, t.txn, t.n) /\ m
        BY <1>5, <2>1, <2>2, <2>3, <1>1
    <2>4. CASE ~ExecuteAccepted(b, t.txn, t.n)
        BY <2>1, <2>4, <1>2
    <2>5. CASE ExecuteAccepted(b, t.txn, t.n) /\ ~m
        BY <2>1, <2>2, <2>5, <1>3
    <2>6. QED
        BY <2>3, <2>4, <2>5
<1>6. CASE t.call = "draft"
    <2>1. CallOutcomes(s, b, t) = UNION {{[b |-> b, res |-> Result("ok", d)]} : d \in [1..t.n -> Vocab]}
        BY <1>6 DEF CallOutcomes
    <2>2. PICK d \in [1..t.n -> Vocab] : o \in {[b |-> b, res |-> Result("ok", d)]}
        BY <2>1
    <2>3. AfterCall(s, b, t, b)
        BY <1>6 DEF AfterCall
    <2>4. QED
        BY <2>2, <2>3, <1>1
<1>7. CASE t.call \in {"prefetch", "reconcile"}
    <2>1. CallOutcomes(s, b, t) = {[b |-> b, res |-> Result("ok", NoToken)]}
        BY <1>7 DEF CallOutcomes
    <2>2. AfterCall(s, b, t, b) /\ t.call # "draft"
        BY <1>7 DEF AfterCall
    <2>3. QED
        BY <2>1, <2>2, <1>1
<1>8. CASE t.call = "checkpoint"
    <2> DEFINE c == CheckpointAccepted(b, t.txn.epoch, t.n)
               b2 == Checkpointed(b, t.n)
    <2>1. CallOutcomes(s, b, t) = IF c THEN {[b |-> b2, res |-> Result("ok", NoToken)]}
                                  ELSE {[b |-> b, res |-> Result("failed", NoToken)]}
        BY <1>8 DEF CallOutcomes
    <2>2. c => AfterCall(s, b, t, b2)
        BY <1>8 DEF AfterCall
    <2> HIDE DEF b2, c
    <2>3. CASE c
        BY <1>8, <2>1, <2>2, <2>3, <1>1
    <2>4. CASE ~c
        BY <2>1, <2>4, <1>2
    <2>5. QED
        BY <2>3, <2>4
<1>9. CASE t.call = "commit"
    <2> DEFINE c == CommitAccepted(b, s, t.txn.epoch, t.n)
               b2 == Committed(b, t.n)
    <2>1. CallOutcomes(s, b, t) = IF c THEN {[b |-> b2, res |-> Result("ok", NoToken)]}
                                  ELSE {[b |-> b, res |-> Result("failed", NoToken)]}
        BY <1>9 DEF CallOutcomes
    <2>2. c => AfterCall(s, b, t, b2)
        BY <1>9 DEF AfterCall
    <2> HIDE DEF b2, c
    <2>3. CASE c
        BY <1>9, <2>1, <2>2, <2>3, <1>1
    <2>4. CASE ~c
        BY <2>1, <2>4, <1>2
    <2>5. QED
        BY <2>3, <2>4
<1>10. CASE t.call = "rollback"
    <2> DEFINE c == RollbackAccepted(b, t.txn.epoch)
               b2 == RolledBack(b, t.txn.epoch)
    <2>1. CallOutcomes(s, b, t) = IF c THEN {[b |-> b2, res |-> Result("ok", NoToken)]}
                                  ELSE {[b |-> b, res |-> Result("failed", NoToken)]}
        BY <1>10 DEF CallOutcomes
    <2>2. c => AfterCall(s, b, t, b2)
        BY <1>10 DEF AfterCall
    <2> HIDE DEF b2, c
    <2>3. CASE c
        BY <1>10, <2>1, <2>2, <2>3, <1>1
    <2>4. CASE ~c
        BY <2>1, <2>4, <1>2
    <2>5. QED
        BY <2>3, <2>4
<1>11. CASE t.call = "reset"
    <2> DEFINE c == ResetAccepted(b)
               b2 == FreshBackend
    <2>1. CallOutcomes(s, b, t) = IF c THEN {[b |-> b2, res |-> Result("ok", NoToken)]}
                                  ELSE {[b |-> b, res |-> Result("failed", NoToken)]}
        BY <1>11 DEF CallOutcomes
    <2>2. c => AfterCall(s, b, t, b2)
        BY <1>11 DEF AfterCall
    <2> HIDE DEF b2, c
    <2>3. CASE c
        BY <1>11, <2>1, <2>2, <2>3, <1>1
    <2>4. CASE ~c
        BY <2>1, <2>4, <1>2
    <2>5. QED
        BY <2>3, <2>4
<1>12. QED
    BY <1>4, <1>5, <1>6, <1>7, <1>8, <1>9, <1>10, <1>11 DEF LoopCalls, ClosingCalls

\* A call with a fault of its own does no more.
LEMMA OutcomeFacts ==
    ASSUME NEW s, NEW b, NEW t, t.call \in LoopCalls \cup ClosingCalls, NEW all,
           all = CallOutcomes(s, b, t), NEW o \in all \cup FaultOutcomes(all, b)
    PROVE  /\ o.b = b \/ AfterCall(s, b, t, o.b)
           /\ o.res.st = "ok" => AfterCall(s, b, t, o.b)
           /\ o.res.st = "ok" /\ t.call = "draft" => o.res.value \in [1..t.n -> Vocab]
<1>0. \A p \in all : /\ DOMAIN p = {"b", "res"} /\ DOMAIN p.res = {"st", "value"}
                     /\ p.b = b \/ AfterCall(s, b, t, p.b)
                     /\ p.res.st = "ok" => AfterCall(s, b, t, p.b)
                     /\ p.res.st = "ok" /\ t.call = "draft" => p.res.value \in [1..t.n -> Vocab]
    BY CallFacts
<1>1. CASE o \in all
    BY <1>0, <1>1
<1>2. CASE o \in FaultOutcomes(all, b)
    <2>1. CASE \E b2 \in {b} \cup {p.b : p \in all} : o = [b |-> b2, res |-> Result("failed", NoToken)]
        <3>1. PICK b2 \in {b} \cup {p.b : p \in all} : o = [b |-> b2, res |-> Result("failed", NoToken)]
            BY <2>1
        <3>2. o.b = b2 /\ o.res.st = "failed"
            BY <3>1 DEF Result
        <3>3. b2 = b \/ AfterCall(s, b, t, b2)
            BY <1>0
        <3>4. QED
            BY <3>2, <3>3
    <2>2. CASE \E p \in all : o = [p EXCEPT !.res.st = "malformed"]
        <3>1. PICK p \in all : o = [p EXCEPT !.res.st = "malformed"]
            BY <2>2
        <3>2. o.b = p.b /\ o.res.st = "malformed"
            BY <1>0, <3>1
        <3>3. QED
            BY <1>0, <3>2
    <2>3. QED
        BY <1>2, <2>1, <2>2 DEF FaultOutcomes
<1>3. QED
    BY <1>1, <1>2

\* The calls of the chunk loop, and those that end a transaction.
LEMMA CallKinds ==
    ASSUME NEW at, NEW f, NEW s, NEW t
    PROVE  /\ Plain(at, f, s, t) => t.call \in LoopCalls /\ at \in Opening \cup RollingBack
           /\ Closing(at, f, s, t) => /\ t.call \in ClosingCalls
                                      /\ at \in RollingBack \cup Committing \cup {"reset"}
    BY DEF Plain, Closing, PlainCall, ClosingCall, LoopCalls, ClosingCalls, Opening, RollingBack, Committing

\* A call of the chunk loop keeps the backend within the transaction.
LEMMA PlainEffect ==
    ASSUME NEW at, NEW f, NEW s \in Stages, NEW base, NEW b, NEW b2, NEW t, Plain(at, f, s, t),
           IsSeq(f.eval), Len(f.eval) = f.txn.evaluated, f.txn.epoch \in Nat \ {0},
           Within(b, base, f.txn, f.eval), b2 = b \/ AfterCall(s, b, t, b2)
    PROVE  /\ Within(b2, base, f.txn, f.eval)
           /\ at = "draft" /\ f.off = 0 /\ f.txn.kind = "speculative" /\ Len(b.ptoks) <= 1
                => Len(b2.ptoks) <= 1
<1>0. t.call \in LoopCalls /\ t.txn = f.txn
    BY CallKinds DEF Plain
<1>1. CASE b2 = b
    BY <1>1
<1>2. CASE t.call \in {"execute0", "execute1"} /\ b2 # b
    <2>1. /\ ExecuteAccepted(b, f.txn, t.n) /\ b2 = Executed(b, f.txn, t.toks)
          /\ t.n \in 0..(f.txn.evaluated - 1) /\ t.toks = SubSeq(f.eval, t.n + 1, t.n + ChunkLen(f, t.n))
        BY <1>0, <1>2 DEF AfterCall, Plain
    <2>2. Within(b2, base, f.txn, f.eval) /\ Len(b2.ptoks) = t.n + ChunkLen(f, t.n)
        <3> DEFINE n == t.n
                   toks == t.toks
        <3>1. /\ ExecuteAccepted(b, f.txn, n) /\ n \in 0..(f.txn.evaluated - 1)
              /\ toks = SubSeq(f.eval, n + 1, n + ChunkLen(f, n)) /\ b2 = Executed(b, f.txn, toks)
            BY <2>1
        <3> HIDE DEF n, toks
        <3>2. /\ Within(Executed(b, f.txn, toks), base, f.txn, f.eval)
              /\ Len(Executed(b, f.txn, toks).ptoks) = n + ChunkLen(f, n)
            BY <3>1, WithinExecuted
        <3>3. QED
            BY <3>1, <3>2 DEF n
    <2>3. ASSUME at = "draft", f.off = 0, f.txn.kind = "speculative"
          PROVE  Len(b2.ptoks) <= 1
        <3>1. t.n = 0
            BY <1>2, <2>3 DEF Plain, PlainCall
        <3>2. f.txn.evaluated \in Nat
            BY LenProperties DEF IsSeq
        <3>3. ChunkLen(f, t.n) = 1
            BY <2>1, <2>3, <3>2, ChunkFacts
        <3>4. QED
            BY <2>2, <3>1, <3>3
    <2>4. QED
        BY <2>2, <2>3
<1>3. CASE t.call = "checkpoint" /\ b2 # b
    <2>1. CheckpointAccepted(b, f.txn.epoch, t.n) /\ b2 = Checkpointed(b, t.n)
        BY <1>0, <1>3 DEF AfterCall
    <2>2. b.prov = f.txn.epoch
        BY <1>3, <2>1 DEF CheckpointAccepted, Checkpointed
    <2>3. Within(b2, base, f.txn, f.eval) /\ b2.ptoks = b.ptoks
        BY <2>1, <2>2, WithinClosed
    <2>4. QED
        BY <2>3
<1>4. QED
    BY <1>0, <1>1, <1>2, <1>3 DEF AfterCall, LoopCalls

\* An answered call leaves the backend where the coordinator may expect it.
LEMMA StageAnswers ==
    ASSUME NEW at, NEW f, NEW ts, NEW s \in Stages, NEW fu, NEW fu2, NEW b, NEW b2, NEW t, NEW res,
           Plain(at, f, s, t) \/ Closing(at, f, s, t),
           <<s, t.call, t.n>> \notin DOMAIN fu,
           Plain(at, f, s, t) /\ at \in RollingBack => ~Answered(fu, s, "rollback", 0),
           DOMAIN fu2 = DOMAIN fu \cup {<<s, t.call, t.n>>}, fu2[<<s, t.call, t.n>>] = res,
           b2 = b \/ AfterCall(s, b, t, b2), res.st = "ok" => AfterCall(s, b, t, b2),
           BackendInStep(at, f, ts, fu, s, b),
           at \in InTxn \cup Committing => IsSeq(f.eval) /\ Len(f.eval) = f.txn.evaluated,
           at \in InTxn => f.txn.epoch \in Nat \ {0},
           at = "draft" => f.off = 0 /\ f.txn.kind = "speculative"
    PROVE  BackendInStep(at, f, ts, fu2, s, b2)
<1> DEFINE base == SubSeq(ts, 1, f.txn.base_target)
<1>1. CASE Plain(at, f, s, t)
    <2>1. t.call \in LoopCalls /\ at \in Opening \cup RollingBack
        BY <1>1, CallKinds
    <2>2. at \in InTxn /\ at \notin Committing \cup {"reset"}
        BY <2>1 DEF InTxn, Opening, RollingBack, Committing
    <2>3. ~(at = "rollback1" /\ s = 0)
        BY <1>1 DEF Plain, PlainCall
    <2>4. Within(b, base, f.txn, f.eval)
        BY <1>1, <2>2, <2>3 DEF BackendInStep, Closed
    <2>5. /\ Within(b2, base, f.txn, f.eval)
          /\ at = "draft" /\ Len(b.ptoks) <= 1 => Len(b2.ptoks) <= 1
        BY <1>1, <2>2, <2>4, PlainEffect
    <2>6. at \in RollingBack => ~Answered(fu2, s, "rollback", 0)
        BY <1>1, <2>1 DEF Answered, LoopCalls
    <2>7. QED
        BY <2>2, <2>3, <2>5, <2>6 DEF BackendInStep, Closed
<1>2. CASE Closing(at, f, s, t)
    <2>1. t.call \in ClosingCalls /\ at \in RollingBack \cup Committing \cup {"reset"} /\ t.txn = f.txn
        BY <1>2, CallKinds DEF Closing
    <2>2. CASE at \in RollingBack
        <3>1. t.call = "rollback" /\ t.n = 0 /\ ~(at = "rollback1" /\ s = 0)
            BY <1>2, <2>2 DEF Closing, ClosingCall, RollingBack
        <3>2. at \notin Committing \cup {"reset", "draft"} /\ at \in InTxn
            BY <2>2 DEF RollingBack, Committing, InTxn
        <3>3. Within(b, base, f.txn, f.eval)
            BY <2>2, <3>1 DEF BackendInStep, Closed, Answered
        <3>4. res.st = "ok" => b2 = AtRest(base, f.txn.epoch)
            <4>1. res.st = "ok" => b2 = RolledBack(b, f.txn.epoch)
                BY <2>1, <3>1 DEF AfterCall
            <4>2. RolledBack(b, f.txn.epoch) = AtRest(base, f.txn.epoch)
                BY <3>2, <3>3, WithinClosed
            <4>3. QED
                BY <4>1, <4>2
        <3>5. QED
            BY <2>2, <3>1, <3>2, <3>4 DEF BackendInStep, Closed, Answered
    <2>3. CASE at \in Committing
        <3>1. t.call = "commit" /\ t.n = CommitOf(f) /\ ~(at = "commit1" /\ s = 0)
            BY <1>2, <2>3 DEF Closing, ClosingCall, Committing
        <3>2. at \notin InTxn \cup RollingBack \cup {"reset", "draft"}
            BY <2>3 DEF RollingBack, Committing, InTxn, Opening
        <3>3. Within(b, base, f.txn, f.eval)
            BY <2>3, <3>1 DEF BackendInStep, Closed, Answered
        <3>4. res.st = "ok" => b2 = AtRest(base \o SubSeq(f.eval, 1, CommitOf(f)), f.txn.epoch)
            <4>1. res.st = "ok" => b2 = Committed(b, t.n) /\ CommitAccepted(b, s, f.txn.epoch, t.n)
                BY <2>1, <3>1 DEF AfterCall
            <4> HIDE DEF base
            <4>2. CommitAccepted(b, s, f.txn.epoch, t.n) =>
                      Committed(b, t.n) = AtRest(base \o SubSeq(f.eval, 1, t.n), f.txn.epoch)
                BY <2>3, <3>3, WithinCommitted
            <4>3. QED
                BY <3>1, <4>1, <4>2
        <3>5. QED
            BY <2>3, <3>1, <3>2, <3>4 DEF BackendInStep, Closed, Answered
    <2>4. CASE at = "reset"
        <3>1. t.call = "reset" /\ t.n = 0
            BY <1>2, <2>4 DEF Closing, ClosingCall
        <3>2. res.st = "ok" => b2 = FreshBackend
            BY <3>1 DEF AfterCall
        <3>3. at \notin InTxn \cup RollingBack \cup Committing \cup {"draft"}
            BY <2>4 DEF RollingBack, Committing, InTxn, Opening
        <3>4. QED
            BY <2>4, <3>1, <3>2, <3>3 DEF BackendInStep, Closed, Answered
    <2>5. QED
        BY <2>1, <2>2, <2>3, <2>4
<1>3. QED
    BY <1>1, <1>2

\* An answer of the other stage, or of another call, says nothing about a backend.
LEMMA StageWaits ==
    ASSUME NEW at, NEW f, NEW ts, NEW s, NEW fu, NEW fu2, NEW b,
           \A c \in ClosingCalls : \A n : Answered(fu2, s, c, n) <=> Answered(fu, s, c, n),
           \A c \in ClosingCalls : \A n : Answered(fu, s, c, n) => fu2[<<s, c, n>>] = fu[<<s, c, n>>],
           BackendInStep(at, f, ts, fu, s, b)
    PROVE  BackendInStep(at, f, ts, fu2, s, b)
<1>1. /\ "rollback" \in ClosingCalls /\ "commit" \in ClosingCalls /\ "reset" \in ClosingCalls
    BY DEF ClosingCalls
<1>2. ASSUME NEW c \in ClosingCalls, NEW n, NEW done, NEW final, NEW within,
             Closed(fu, s, c, n, done, b, final, within)
      PROVE  Closed(fu2, s, c, n, done, b, final, within)
    BY <1>2 DEF Closed
<1>3. QED
    BY <1>1, <1>2 DEF BackendInStep
-----------------------------------------------------------------------------
(* Answers.                                                                *)

\* A call that was made may be answered.
LEMMA CallIsAnswerable ==
    ASSUME NEW at \in Opening \cup RollingBack \cup Committing \cup {"reset"}, NEW f, NEW s, NEW t,
           Plain(at, f, s, t) \/ Closing(at, f, s, t),
           at \in InTxn => f.off \in Nat /\ NextOf(f) \in Nat /\ NextOf(f) > f.off
    PROVE  AnswerInStep(at, f, t.call, t.n)
<1>1. at \notin Outside /\ (at \in Opening => at \in InTxn)
    BY DEF Outside, Opening, RollingBack, Committing, InTxn
<1>2. CASE Closing(at, f, s, t)
    <2>1. /\ t.call \in ClosingCalls /\ at \notin Opening
          /\ t.call = "rollback" => at \in RollingBack
          /\ t.call = "commit" => at \in Committing
          /\ t.call = "reset" => at = "reset"
        BY <1>2 DEF Closing, ClosingCall, ClosingCalls, Opening, RollingBack, Committing
    <2>2. at # "prefetch"
        BY <2>1 DEF Opening
    <2>3. QED
        BY <1>1, <2>1, <2>2 DEF AnswerInStep
<1>3. CASE Plain(at, f, s, t)
    <2>1. PlainCall(at, f, s, t.call, t.n) /\ t.call \in LoopCalls
        BY <1>3, CallKinds DEF Plain
    <2>2. at = "prefetch" => t.call = "prefetch"
        BY <2>1 DEF PlainCall, RollingBack
    <2>3. ASSUME at \in Opening, t.call \in {"execute0", "execute1", "checkpoint", "reconcile"}
          PROVE  /\ t.n \in Nat
                 /\ t.call = "execute0" =>
                       t.n <= IF at \in {"draft", "chunk", "stage0", "checkpoint"} THEN f.off ELSE NextOf(f)
                 /\ t.call = "checkpoint" =>
                       t.n <= IF at \in {"draft", "chunk", "stage0"} THEN f.off ELSE NextOf(f)
                 /\ t.call = "execute1" =>
                       IF at \in {"draft", "chunk", "stage0"} THEN t.n < f.off ELSE t.n <= f.off
                 /\ t.call = "reconcile" =>
                       IF at \in {"reconcile", "seal"} THEN t.n <= f.off ELSE t.n < f.off
        <3>0. f.off \in Nat /\ NextOf(f) \in Nat /\ NextOf(f) > f.off
            BY <1>1, <2>3
        <3>1. CASE t.call = "execute0"
            BY <2>1, <2>3, <3>0, <3>1 DEF PlainCall, Opening
        <3>2. CASE t.call = "execute1"
            BY <2>1, <2>3, <3>0, <3>2 DEF PlainCall, Opening
        <3>3. CASE t.call = "checkpoint"
            BY <2>1, <2>3, <3>0, <3>3 DEF PlainCall, Opening
        <3>4. CASE t.call = "reconcile"
            BY <2>1, <2>3, <3>0, <3>4 DEF PlainCall, Opening
        <3>5. QED
            BY <2>3, <3>1, <3>2, <3>3, <3>4
    <2>4. t.call \notin ClosingCalls
        BY <2>1 DEF LoopCalls, ClosingCalls
    <2>5. QED
        BY <1>1, <2>2, <2>3, <2>4 DEF AnswerInStep, ClosingCalls
<1>4. QED
    BY <1>2, <1>3

\* What is left behind a task is the call that closes, and it is not answered.
LEMMA WorkBehind ==
    ASSUME NEW at, NEW f, NEW s, NEW fu, NEW t, NEW q,
           \/ q = <<>> /\ Alone(at, f, s, t)
           \/ Len(q) = 1 /\ q = <<q[1]>> /\ Plain(at, f, s, t) /\ Closing(at, f, s, q[1]),
           \A i \in 1..Len(q) : <<s, q[i].call, q[i].n>> \notin DOMAIN fu
    PROVE  /\ \A i \in 1..Len(q) : q[i].call # t.call
           /\ Plain(at, f, s, t) /\ at \in RollingBack => ~Answered(fu, s, "rollback", 0)
<1>1. CASE q = <<>> /\ Alone(at, f, s, t)
    <2>1. Len(q) = 0
        BY <1>1
    <2>2. Plain(at, f, s, t) /\ at \in RollingBack => FALSE
        <3>1. Plain(at, f, s, t) => t.call \in LoopCalls
            BY CallKinds
        <3>2. Closing(at, f, s, t) => t.call \in ClosingCalls
            BY CallKinds
        <3>3. QED
            BY <1>1, <3>1, <3>2 DEF Alone, LoopCalls, ClosingCalls
    <2>3. QED
        BY <2>1, <2>2
<1>2. CASE Len(q) = 1 /\ Plain(at, f, s, t) /\ Closing(at, f, s, q[1])
    <2>1. t.call \in LoopCalls /\ q[1].call \in ClosingCalls
        BY <1>2, CallKinds
    <2>2. \A i \in 1..Len(q) : i = 1
        BY <1>2
    <2>3. at \in RollingBack => q[1].call = "rollback" /\ q[1].n = 0
        BY <1>2 DEF Closing, ClosingCall, RollingBack
    <2>4. <<s, q[1].call, q[1].n>> \notin DOMAIN fu
        BY <1>2
    <2>5. QED
        BY <2>1, <2>2, <2>3, <2>4 DEF LoopCalls, ClosingCalls, Answered
<1>3. QED
    BY <1>1, <1>2

\* What a worker runs, or takes next, and what is behind it.
LEMMA WorkShape ==
    ASSUME NEW at, NEW f, NEW s, NEW r, NEW q, WorkInOrder(at, f, s, r, q)
    PROVE  /\ r # Idle => \/ q = <<>> /\ Alone(at, f, s, r)
                          \/ Len(q) = 1 /\ q = <<q[1]>> /\ Plain(at, f, s, r) /\ Closing(at, f, s, q[1])
           /\ r = Idle /\ q # <<>> =>
                LET h == Head(q)  l == Tail(q) IN
                \/ l = <<>> /\ Alone(at, f, s, h)
                \/ Len(l) = 1 /\ l = <<l[1]>> /\ Plain(at, f, s, h) /\ Closing(at, f, s, l[1])
<1>1. CASE r # Idle
    BY <1>1 DEF WorkInOrder
<1>2. CASE r = Idle /\ Len(q) = 1 /\ q = <<q[1]>> /\ Alone(at, f, s, q[1])
    <2>1. Head(q) = q[1] /\ Tail(q) = <<>>
        BY <1>2, ShortSeqs
    <2>2. QED
        BY <1>2, <2>1
<1>3. CASE r = Idle /\ Len(q) = 2 /\ q = <<q[1], q[2]>> /\ Plain(at, f, s, q[1]) /\ Closing(at, f, s, q[2])
    <2> DEFINE a == q[1]  c == q[2]
    <2>0. q = <<a, c>> /\ Plain(at, f, s, a) /\ Closing(at, f, s, c)
        BY <1>3
    <2> HIDE DEF a, c
    <2>1. Head(q) = a /\ Tail(q) = <<c>> /\ <<c>>[1] = c /\ Len(<<c>>) = 1
        BY <2>0, ShortSeqs
    <2>2. QED
        BY <1>3, <2>0, <2>1
<1>4. QED
    BY <1>1, <1>2, <1>3 DEF WorkInOrder

\* A stage's answer keeps its own worker and backend in step.
LEMMA OwnAnswer ==
    ASSUME EngineInv, FrameInStep, AnswersInStep(pc, frame, fut),
           NEW s \in Stages, NEW t, NEW q, NEW b2, NEW res,
           \/ q = <<>> /\ Alone(pc, frame, s, t)
           \/ Len(q) = 1 /\ q = <<q[1]>> /\ Plain(pc, frame, s, t) /\ Closing(pc, frame, s, q[1]),
           <<s, t.call, t.n>> \notin DOMAIN fut,
           \A i \in 1..Len(q) : <<s, q[i].call, q[i].n>> \notin DOMAIN fut,
           BackendInStep(pc, frame, tokens, fut, s, backend[s]),
           b2 = backend[s] \/ AfterCall(s, backend[s], t, b2),
           res.st = "ok" => AfterCall(s, backend[s], t, b2),
           res.st = "ok" /\ t.call = "draft" => res.value \in [1..t.n -> Vocab]
    PROVE  /\ AnswersInStep(pc, frame, Answer(s, t, res))
           /\ WorkUnanswered(Answer(s, t, res), s, Idle, q)
           /\ BackendInStep(pc, frame, tokens, Answer(s, t, res), s, b2)
           /\ pc \notin Outside
<1> DEFINE k == <<s, t.call, t.n>>
           fu == Answer(s, t, res)
<1>1. /\ DOMAIN fu = DOMAIN fut \cup {k} /\ fu[k] = res
      /\ \A m \in DOMAIN fut : m # k => fu[m] = fut[m]
    BY ONLY AnswerFacts, SMTT(30)
<1>2. Plain(pc, frame, s, t) \/ Closing(pc, frame, s, t)
    BY DEF Alone
<1>3. pc \in Opening \cup RollingBack \cup Committing \cup {"reset"}
    BY <1>2, CallKinds
<1>4. pc \notin Outside
    BY <1>3 DEF Opening, RollingBack, Committing, Outside
<1>5. /\ pc \in InTxn => frame.off \in Nat /\ NextOf(frame) \in Nat /\ NextOf(frame) > frame.off
      /\ pc \in InTxn \cup Committing => IsSeq(frame.eval) /\ Len(frame.eval) = frame.txn.evaluated
      /\ pc \in InTxn => frame.txn.epoch \in Nat \ {0}
    BY FrameFacts
<1>6. /\ \A i \in 1..Len(q) : q[i].call # t.call
      /\ Plain(pc, frame, s, t) /\ pc \in RollingBack => ~Answered(fut, s, "rollback", 0)
    BY WorkBehind
<1>7. AnswerInStep(pc, frame, t.call, t.n)
    BY <1>2, <1>3, <1>5, CallIsAnswerable
<1> HIDE DEF fu
<1>8. AnswersInStep(pc, frame, fu)
    <2>1. k[1] = s /\ k[2] = t.call /\ k[3] = t.n
        OBVIOUS
    <2> HIDE DEF k
    <2>2. SUFFICES ASSUME NEW m \in DOMAIN fu
                   PROVE  /\ m = <<m[1], m[2], m[3]>>
                          /\ AnswerInStep(pc, frame, m[2], m[3])
                          /\ m[2] = "draft" /\ fu[m].st = "ok" => fu[m].value \in [1..m[3] -> Vocab]
        BY DEF AnswersInStep
    <2>3. CASE m = k
        <3>1. k = <<k[1], k[2], k[3]>>
            BY DEF k
        <3>2. QED
            BY <1>1, <1>7, <2>1, <2>3, <3>1
    <2>4. CASE m # k
        BY <1>1, <2>4 DEF AnswersInStep
    <2>5. QED
        BY <2>3, <2>4
<1>9. WorkUnanswered(fu, s, Idle, q)
    <2>1. ASSUME NEW i \in 1..Len(q) PROVE <<s, q[i].call, q[i].n>> \notin DOMAIN fu
        BY <1>1, <1>6
    <2>2. QED
        BY <2>1 DEF WorkUnanswered
<1>10. BackendInStep(pc, frame, tokens, fu, s, b2)
    <2>1. pc = "draft" => frame.off = 0 /\ frame.txn.kind = "speculative"
        BY DEF FrameInStep
    <2> DEFINE b == backend[s]
    <2>2. /\ BackendInStep(pc, frame, tokens, fut, s, b) /\ (b2 = b \/ AfterCall(s, b, t, b2))
          /\ (res.st = "ok" => AfterCall(s, b, t, b2))
        OBVIOUS
    <2> HIDE DEF b
    <2>3. QED
        BY <1>1, <1>2, <1>5, <1>6, <2>1, <2>2, StageAnswers
<1>11. QED
    BY <1>4, <1>8, <1>9, <1>10 DEF fu

\* It does not touch the other stage.
LEMMA OtherAnswer ==
    ASSUME NEW s, NEW t, NEW res, NEW r, r # s,
           WorkUnanswered(fut, r, running[r], queue[r]),
           BackendInStep(pc, frame, tokens, fut, r, backend[r])
    PROVE  /\ WorkUnanswered(Answer(s, t, res), r, running[r], queue[r])
           /\ BackendInStep(pc, frame, tokens, Answer(s, t, res), r, backend[r])
<1> DEFINE k == <<s, t.call, t.n>>
           fu == Answer(s, t, res)
<1>1. /\ DOMAIN fu = DOMAIN fut \cup {k} /\ fu[k] = res
      /\ \A m \in DOMAIN fut : m # k => fu[m] = fut[m]
    BY AnswerFacts
<1>2. ASSUME NEW c, NEW n
      PROVE  /\ <<r, c, n>> \in DOMAIN fu <=> <<r, c, n>> \in DOMAIN fut
             /\ <<r, c, n>> \in DOMAIN fut => fu[<<r, c, n>>] = fut[<<r, c, n>>]
    <2>1. <<r, c, n>> # k
        OBVIOUS
    <2>2. QED
        BY <1>1, <2>1
<1> HIDE DEF fu
<1>3. WorkUnanswered(fu, r, running[r], queue[r])
    BY <1>2 DEF WorkUnanswered
<1>4. BackendInStep(pc, frame, tokens, fu, r, backend[r])
    BY <1>2, StageWaits DEF Answered
<1>5. QED
    BY <1>3, <1>4 DEF fu
-----------------------------------------------------------------------------
(* The steps of a worker.                                                  *)

\* The stages and the answers, while the executor is healthy.
StagesInStep == ~poisoned => AnswersInStep(pc, frame, fut) /\ \A s \in Stages : StageInStep(s)

\* What is left of a worker's queue.
LEMMA TailFacts ==
    ASSUME NEW q, IsSeq(q), q # <<>>
    PROVE  /\ IsSeq(Tail(q)) /\ Len(q) \in Nat /\ Len(q) >= 1 /\ Head(q) = q[1] /\ 1 \in 1..Len(q)
           /\ \A i \in 1..Len(Tail(q)) : Tail(q)[i] = q[i + 1] /\ i + 1 \in 1..Len(q)
<1>1. PICK S : q \in Seq(S)
    BY IsSeqFacts
<1>2. /\ Tail(q) \in Seq(S) /\ Len(Tail(q)) = Len(q) - 1
      /\ \A i \in 1..(Len(q) - 1) : Tail(q)[i] = q[i + 1]
    BY <1>1, HeadTailProperties
<1>3. Len(q) \in Nat /\ Len(q) >= 1 /\ Head(q) = q[1]
    BY <1>1, HeadTailProperties, LenProperties
<1>4. IsSeq(Tail(q))
    BY <1>2, SeqIsSeq
<1>5. Len(Tail(q)) = Len(q) - 1 /\ \A i \in 1..(Len(q) - 1) : i + 1 \in 1..Len(q)
    BY <1>2, <1>3
<1>6. QED
    BY <1>2, <1>3, <1>4, <1>5

\* A chunk of stage 0 is one that stage 1 has not had.
LEMMA BoundaryAnswer ==
    ASSUME BoundariesInStep, NEW s, NEW t, NEW res,
           t.call = "execute0" =>
               s = 0 /\ pc \notin Outside /\ (Plain(pc, frame, s, t) \/ Closing(pc, frame, s, t)),
           NEW k \in DOMAIN Answer(s, t, res), k[2] = "execute0"
    PROVE  /\ k = <<0, "execute0", k[3]>>
           /\ pc \notin Outside
           /\ k[3] \in {frame.off, NextOf(frame)} \/ <<1, "execute1", k[3]>> \in DOMAIN Answer(s, t, res)
<1>1. DOMAIN Answer(s, t, res) = DOMAIN fut \cup {<<s, t.call, t.n>>}
    BY ONLY AnswerFacts
<1>2. CASE k \in DOMAIN fut
    BY <1>1, <1>2 DEF BoundariesInStep
<1>3. CASE k = <<s, t.call, t.n>>
    <2>1. t.call = "execute0" /\ k[3] = t.n /\ s = 0 /\ k[2] = t.call
        BY <1>3
    <2>2. Plain(pc, frame, s, t)
        BY <2>1, CallKinds DEF ClosingCalls
    <2>3. t.n \in {frame.off, NextOf(frame)}
        BY <2>1, <2>2 DEF Plain, PlainCall
    <2>4. QED
        BY <1>3, <2>1, <2>3
<1>4. QED
    BY <1>1, <1>2, <1>3

\* A worker takes its next task.
LEMMA TakeStep ==
    ASSUME EngineInv, RequestInStep, FrameInStep, BoundariesInStep, WorkersTypeOK, StagesInStep,
           NEW s \in Stages, TakeTask(s)
    PROVE  BoundariesInStep' /\ WorkersTypeOK' /\ StagesInStep'
<1> DEFINE q == queue[s]
           t == Head(q)
           l == Tail(q)
           throws == t.call \in ChecksToken /\ Requested
<1>1. /\ running[s] = Idle /\ q # <<>> /\ queue' = [queue EXCEPT ![s] = l]
      /\ running' = IF throws THEN running ELSE [running EXCEPT ![s] = t]
      /\ fut' = IF throws THEN Answer(s, t, Result(Checked, NoToken)) ELSE fut
      /\ UNCHANGED <<pc, frame, tokens, poisoned, frontiers, backend>>
    BY DEF TakeTask, engineVars, sessVars, coordVars
<1>2. /\ IsSeq(q) /\ DOMAIN queue = Stages /\ DOMAIN running = Stages /\ DOMAIN backend = Stages
    BY DEF WorkersTypeOK
<1>3. /\ IsSeq(l) /\ Len(q) \in Nat /\ Len(q) >= 1 /\ t = q[1] /\ 1 \in 1..Len(q)
      /\ \A i \in 1..Len(l) : l[i] = q[i + 1] /\ i + 1 \in 1..Len(q)
    BY <1>1, <1>2, TailFacts
<1>4. /\ queue'[s] = l /\ DOMAIN queue' = Stages /\ DOMAIN running' = Stages
      /\ \A r \in Stages : r # s => queue'[r] = queue[r] /\ running'[r] = running[r]
      /\ throws => running'[s] = Idle
      /\ ~throws => running'[s] = t
    BY <1>1, <1>2
<1>5. WorkersTypeOK'
    <2>1. ASSUME NEW r \in Stages PROVE IsSeq(queue'[r])
        BY <1>3, <1>4 DEF WorkersTypeOK
    <2>2. QED
        BY <1>1, <1>2, <1>4, <2>1 DEF WorkersTypeOK
<1>6. ASSUME ~poisoned
      PROVE  /\ AnswersInStep(pc, frame, fut) /\ \A r \in Stages : StageInStep(r)
             /\ WorkInOrder(pc, frame, s, Idle, q) /\ WorkUnanswered(fut, s, Idle, q)
             /\ BackendInStep(pc, frame, tokens, fut, s, backend[s])
    BY <1>1, <1>6 DEF StagesInStep, StageInStep
<1>7. pc \notin Outside => ~poisoned
    BY DEF RequestInStep
<1> HIDE DEF q, t, l, throws
<1>8. ASSUME ~poisoned
      PROVE  /\ Plain(pc, frame, s, t) \/ Closing(pc, frame, s, t)
             /\ WorkInOrder(pc, frame, s, t, l) /\ WorkInOrder(pc, frame, s, Idle, l)
             /\ \/ l = <<>> /\ Alone(pc, frame, s, t)
                \/ Len(l) = 1 /\ l = <<l[1]>> /\ Plain(pc, frame, s, t) /\ Closing(pc, frame, s, l[1])
             /\ t # Idle
             /\ <<s, t.call, t.n>> \notin DOMAIN fut
             /\ \A i \in 1..Len(l) : <<s, l[i].call, l[i].n>> \notin DOMAIN fut
    <2>1. WorkInOrder(pc, frame, s, Idle, q) /\ q # <<>> /\ WorkUnanswered(fut, s, Idle, q)
        BY <1>1, <1>6, <1>8
    <2>2. /\ Plain(pc, frame, s, t) \/ Closing(pc, frame, s, t)
          /\ WorkInOrder(pc, frame, s, t, l) /\ WorkInOrder(pc, frame, s, Idle, l)
        BY <2>1, WorkTake DEF t, l
    <2>3. \/ l = <<>> /\ Alone(pc, frame, s, t)
          \/ Len(l) = 1 /\ l = <<l[1]>> /\ Plain(pc, frame, s, t) /\ Closing(pc, frame, s, l[1])
        BY <2>1, WorkShape DEF t, l
    <2>4. t # Idle
        BY <2>2, TasksAreNotIdle
    <2>5. \A i \in 1..Len(q) : <<s, q[i].call, q[i].n>> \notin DOMAIN fut
        BY <2>1 DEF WorkUnanswered
    <2>6. QED
        BY <1>3, <2>2, <2>3, <2>4, <2>5
<1>9. BoundariesInStep'
    <2>1. ASSUME NEW k \in DOMAIN fut', k[2] = "execute0"
          PROVE  /\ k = <<0, "execute0", k[3]>>
                 /\ pc \notin Outside
                 /\ k[3] \in {frame.off, NextOf(frame)} \/ <<1, "execute1", k[3]>> \in DOMAIN fut'
        <3>1. CASE ~throws
            BY <1>1, <2>1, <3>1 DEF BoundariesInStep
        <3>2. CASE throws
            <4>1. t.call = "execute0" => s = 0 /\ pc \notin Outside
                BY <1>3 DEF BoundariesInStep, Stages, q
            <4>2. fut' = Answer(s, t, Result(Checked, NoToken))
                BY <1>1, <3>2
            <4>3. QED
                BY <1>7, <1>8, <2>1, <4>1, <4>2, BoundaryAnswer
        <3>3. QED
            BY <3>1, <3>2
    <2>2. ASSUME NEW r \in Stages, r = 1 \/ pc \in Outside
          PROVE  /\ running'[r].call # "execute0"
                 /\ \A i \in 1..Len(queue'[r]) : queue'[r][i].call # "execute0"
        <3>1. CASE r # s
            BY <1>4, <2>2, <3>1 DEF BoundariesInStep
        <3>2. CASE r = s
            <4>1. /\ running[s].call # "execute0"
                  /\ \A i \in 1..Len(q) : q[i].call # "execute0"
                BY <2>2, <3>2 DEF BoundariesInStep, q
            <4>2. running'[s] = t \/ running'[s] = running[s]
                BY <1>1, <1>4
            <4>3. QED
                BY <1>3, <1>4, <3>2, <4>1, <4>2
        <3>3. QED
            BY <3>1, <3>2
    <2>3. QED
        <3>1. DOMAIN fut \subseteq DOMAIN fut'
            <4>1. ASSUME NEW res2 PROVE DOMAIN fut \subseteq DOMAIN Answer(s, t, res2)
                BY DEF Answer
            <4>2. QED
                BY <1>1, <4>1
        <3>2. pc = "reconcile" => Answered(fut', 1, "execute1", frame.off)
            BY <3>1 DEF BoundariesInStep, Answered
        <3>3. QED
            BY <1>1, <2>1, <2>2, <3>2 DEF BoundariesInStep, NextOf
<1>10. StagesInStep'
    <2>1. SUFFICES ASSUME ~poisoned
                   PROVE  /\ AnswersInStep(pc, frame, fut')
                          /\ \A r \in Stages : StageInStep(r)'
        BY <1>1 DEF StagesInStep
    <2>2. CASE ~throws
        <3>1. fut' = fut
            BY <1>1, <2>2
        <3>2. StageInStep(s)'
            <4>1. WorkInOrder(pc, frame, s, t, l)
                BY <1>8, <2>1
            <4>2. WorkUnanswered(fut, s, t, l)
                BY <1>8, <2>1 DEF WorkUnanswered
            <4>3. QED
                BY <1>1, <1>4, <1>6, <2>1, <2>2, <3>1, <4>1, <4>2 DEF StageInStep, RestsAt
        <3>3. ASSUME NEW r \in Stages, r # s PROVE StageInStep(r)'
            BY <1>1, <1>4, <1>6, <2>1, <3>1, <3>3 DEF StageInStep, RestsAt
        <3>4. QED
            BY <1>6, <2>1, <3>1, <3>2, <3>3
    <2>3. CASE throws
        <3> DEFINE res == Result(Checked, NoToken)
        <3>0. fut' = Answer(s, t, res) /\ res.st # "ok"
            BY <1>1, <2>3 DEF throws, Result, Requested
        <3> HIDE DEF res
        <3>1. /\ AnswersInStep(pc, frame, fut')
              /\ WorkUnanswered(fut', s, Idle, l)
              /\ BackendInStep(pc, frame, tokens, fut', s, backend[s])
              /\ pc \notin Outside
            BY <1>6, <1>8, <2>1, <3>0, OwnAnswer
        <3>2. StageInStep(s)'
            BY <1>1, <1>4, <1>8, <2>1, <2>3, <3>1 DEF StageInStep, RestsAt
        <3>3. ASSUME NEW r \in Stages, r # s PROVE StageInStep(r)'
            <4>1. /\ WorkInOrder(pc, frame, r, running[r], queue[r])
                  /\ WorkUnanswered(fut, r, running[r], queue[r])
                  /\ BackendInStep(pc, frame, tokens, fut, r, backend[r])
                BY <1>6, <2>1 DEF StageInStep
            <4>2. /\ WorkUnanswered(fut', r, running[r], queue[r])
                  /\ BackendInStep(pc, frame, tokens, fut', r, backend[r])
                BY <3>0, <3>3, <4>1, OtherAnswer
            <4>3. QED
                BY <1>1, <1>4, <3>1, <3>3, <4>1, <4>2 DEF StageInStep, RestsAt
        <3>4. QED
            BY <3>1, <3>2, <3>3
    <2>4. QED
        BY <2>2, <2>3
<1>11. QED
    BY <1>5, <1>9, <1>10

\* A worker finishes the task it runs.
LEMMA CompleteStep ==
    ASSUME EngineInv, RequestInStep, FrameInStep, BoundariesInStep, WorkersTypeOK, StagesInStep,
           NEW s \in Stages, CompleteTask(s)
    PROVE  BoundariesInStep' /\ WorkersTypeOK' /\ StagesInStep'
<1> DEFINE t == running[s]
           q == queue[s]
           b == backend[s]
           all == CallOutcomes(s, b, t)
<1>1. /\ t # Idle /\ running' = [running EXCEPT ![s] = Idle]
      /\ UNCHANGED <<pc, frame, tokens, poisoned, frontiers, queue>>
      /\ \E o \in all \cup FaultOutcomes(all, b) :
            LET throws == RechecksToken(s, t) /\ o.res.st = "ok" /\ Requested IN
            /\ backend' = [backend EXCEPT ![s] = o.b]
            /\ fut' = Answer(s, t, IF throws THEN Result(Checked, NoToken) ELSE o.res)
    BY DEF CompleteTask, engineVars, sessVars, coordVars
<1>2. PICK o \in all \cup FaultOutcomes(all, b) :
         /\ backend' = [backend EXCEPT ![s] = o.b]
         /\ \E res : /\ fut' = Answer(s, t, res)
                     /\ \/ res = o.res
                        \/ res = Result(Checked, NoToken) /\ Requested
    BY <1>1
<1>3. PICK res : /\ fut' = Answer(s, t, res)
                 /\ res = o.res \/ (res = Result(Checked, NoToken) /\ Requested)
    BY <1>2
<1>4. /\ DOMAIN queue = Stages /\ DOMAIN running = Stages /\ DOMAIN backend = Stages
    BY DEF WorkersTypeOK
<1>5. /\ running'[s] = Idle /\ backend'[s] = o.b /\ DOMAIN running' = Stages /\ DOMAIN backend' = Stages
      /\ \A r \in Stages : r # s => running'[r] = running[r] /\ backend'[r] = backend[r]
    BY <1>1, <1>2, <1>4
<1>6. WorkersTypeOK'
    BY <1>1, <1>4, <1>5 DEF WorkersTypeOK
<1>7. ASSUME ~poisoned
      PROVE  /\ AnswersInStep(pc, frame, fut) /\ \A r \in Stages : StageInStep(r)
             /\ WorkInOrder(pc, frame, s, t, q) /\ WorkUnanswered(fut, s, t, q)
             /\ BackendInStep(pc, frame, tokens, fut, s, b)
    BY <1>7 DEF StagesInStep, StageInStep
<1>8. pc \notin Outside => ~poisoned
    BY DEF RequestInStep
<1> HIDE DEF t, q
<1>9. ASSUME ~poisoned
      PROVE  /\ Plain(pc, frame, s, t) \/ Closing(pc, frame, s, t)
             /\ WorkInOrder(pc, frame, s, Idle, q)
             /\ \/ q = <<>> /\ Alone(pc, frame, s, t)
                \/ Len(q) = 1 /\ q = <<q[1]>> /\ Plain(pc, frame, s, t) /\ Closing(pc, frame, s, q[1])
             /\ t.call \in LoopCalls \cup ClosingCalls
             /\ <<s, t.call, t.n>> \notin DOMAIN fut
             /\ \A i \in 1..Len(q) : <<s, q[i].call, q[i].n>> \notin DOMAIN fut
    <2>1. WorkInOrder(pc, frame, s, t, q) /\ t # Idle /\ WorkUnanswered(fut, s, t, q)
        BY <1>1, <1>7, <1>9
    <2>2. /\ Plain(pc, frame, s, t) \/ Closing(pc, frame, s, t)
          /\ WorkInOrder(pc, frame, s, Idle, q)
        BY <2>1, WorkDone
    <2>3. \/ q = <<>> /\ Alone(pc, frame, s, t)
          \/ Len(q) = 1 /\ q = <<q[1]>> /\ Plain(pc, frame, s, t) /\ Closing(pc, frame, s, q[1])
        BY <2>1, WorkShape
    <2>4. t.call \in LoopCalls \cup ClosingCalls
        BY <2>2, CallKinds
    <2>5. QED
        BY <2>1, <2>2, <2>3, <2>4 DEF WorkUnanswered
<1>10. BoundariesInStep'
    <2>1. ASSUME NEW k \in DOMAIN fut', k[2] = "execute0"
          PROVE  /\ k = <<0, "execute0", k[3]>>
                 /\ pc \notin Outside
                 /\ k[3] \in {frame.off, NextOf(frame)} \/ <<1, "execute1", k[3]>> \in DOMAIN fut'
        <3>1. t.call = "execute0" => s = 0 /\ pc \notin Outside
            BY DEF BoundariesInStep, Stages, t
        <3>2. QED
            BY <1>3, <1>8, <1>9, <2>1, <3>1, BoundaryAnswer
    <2>2. ASSUME NEW r \in Stages, r = 1 \/ pc \in Outside
          PROVE  /\ running'[r].call # "execute0"
                 /\ \A i \in 1..Len(queue'[r]) : queue'[r][i].call # "execute0"
        <3>1. Idle.call # "execute0"
            BY DEF Idle
        <3>2. QED
            BY <1>1, <1>5, <2>2, <3>1 DEF BoundariesInStep
    <2>3. QED
        <3>1. DOMAIN fut \subseteq DOMAIN fut'
            <4>1. ASSUME NEW res2 PROVE DOMAIN fut \subseteq DOMAIN Answer(s, t, res2)
                BY DEF Answer
            <4>2. QED
                BY <1>3, <4>1
        <3>2. pc = "reconcile" => Answered(fut', 1, "execute1", frame.off)
            BY <3>1 DEF BoundariesInStep, Answered
        <3>3. QED
            BY <1>1, <2>1, <2>2, <3>2 DEF BoundariesInStep, NextOf
<1>11. StagesInStep'
    <2>1. SUFFICES ASSUME ~poisoned
                   PROVE  /\ AnswersInStep(pc, frame, fut')
                          /\ \A r \in Stages : StageInStep(r)'
        BY <1>1 DEF StagesInStep
    <2>2. /\ o.b = b \/ AfterCall(s, b, t, o.b)
          /\ o.res.st = "ok" => AfterCall(s, b, t, o.b)
          /\ o.res.st = "ok" /\ t.call = "draft" => o.res.value \in [1..t.n -> Vocab]
        <3> DEFINE c == b
        <3>1. all = CallOutcomes(s, c, t) /\ o \in all \cup FaultOutcomes(all, c)
            OBVIOUS
        <3> HIDE DEF all, c
        <3>2. /\ o.b = c \/ AfterCall(s, c, t, o.b)
              /\ o.res.st = "ok" => AfterCall(s, c, t, o.b)
              /\ o.res.st = "ok" /\ t.call = "draft" => o.res.value \in [1..t.n -> Vocab]
            BY <1>9, <2>1, <3>1, OutcomeFacts
        <3>3. QED
            BY <3>2 DEF c
    <2>3. /\ res.st = "ok" => AfterCall(s, b, t, o.b)
          /\ res.st = "ok" /\ t.call = "draft" => res.value \in [1..t.n -> Vocab]
        <3>1. Requested => Result(Checked, NoToken).st # "ok"
            BY DEF Result, Requested
        <3>2. QED
            BY <1>3, <2>2, <3>1
    <2>4. /\ AnswersInStep(pc, frame, fut')
          /\ WorkUnanswered(fut', s, Idle, q)
          /\ BackendInStep(pc, frame, tokens, fut', s, o.b)
          /\ pc \notin Outside
        <3> DEFINE b2 == o.b
        <3>1. /\ b2 = backend[s] \/ AfterCall(s, backend[s], t, b2)
              /\ res.st = "ok" => AfterCall(s, backend[s], t, b2)
            BY <2>2, <2>3
        <3> HIDE DEF b2, all
        <3>2. /\ AnswersInStep(pc, frame, Answer(s, t, res))
              /\ WorkUnanswered(Answer(s, t, res), s, Idle, q)
              /\ BackendInStep(pc, frame, tokens, Answer(s, t, res), s, b2)
              /\ pc \notin Outside
            BY <1>7, <1>9, <2>1, <2>3, <3>1, OwnAnswer
        <3>3. QED
            BY <1>3, <3>2 DEF b2
    <2>5. StageInStep(s)'
        BY <1>1, <1>5, <1>9, <2>1, <2>4 DEF StageInStep, RestsAt, q
    <2>6. ASSUME NEW r \in Stages, r # s PROVE StageInStep(r)'
        <3>1. /\ WorkInOrder(pc, frame, r, running[r], queue[r])
              /\ WorkUnanswered(fut, r, running[r], queue[r])
              /\ BackendInStep(pc, frame, tokens, fut, r, backend[r])
            BY <1>7, <2>1 DEF StageInStep
        <3>2. /\ WorkUnanswered(fut', r, running[r], queue[r])
              /\ BackendInStep(pc, frame, tokens, fut', r, backend[r])
            BY <1>3, <2>6, <3>1, OtherAnswer
        <3>3. QED
            BY <1>1, <1>5, <2>4, <2>6, <3>1, <3>2 DEF StageInStep, RestsAt
    <2>7. QED
        BY <2>4, <2>5, <2>6
<1>12. QED
    BY <1>6, <1>10, <1>11
-----------------------------------------------------------------------------
(* The coordinator hands out work.                                         *)

\* Nothing is appended to a queue.
LEMMA ConcatNothing ==
    ASSUME NEW q, IsSeq(q)
    PROVE  q \o <<>> = q
<1>1. PICK S : q \in Seq(S)
    BY IsSeqFacts
<1>2. QED
    BY <1>1, ConcatEmptySeq

\* A task goes to the end of a queue.
LEMMA ConcatTask ==
    ASSUME NEW q, IsSeq(q), NEW t
    PROVE  /\ IsSeq(q \o <<t>>) /\ Len(q \o <<t>>) = Len(q) + 1 /\ Len(q) \in Nat
           /\ \A i \in 1..Len(q \o <<t>>) :
                 (i \in 1..Len(q) /\ (q \o <<t>>)[i] = q[i]) \/ (q \o <<t>>)[i] = t
<1>1. PICK S : q \in Seq(S)
    BY IsSeqFacts
<1> DEFINE A == S \cup {t}
<1>2. q \in Seq(A) /\ <<t>> \in Seq(A) /\ Len(<<t>>) = 1 /\ <<t>>[1] = t /\ Len(q) \in Nat
    <2>1. \A i \in 1..Len(q) : q[i] \in A
        BY <1>1, ElementOfSeq
    <2>2. QED
        BY <1>1, <2>1
<1> HIDE DEF A
<1>3. /\ q \o <<t>> \in Seq(A) /\ Len(q \o <<t>>) = Len(q) + 1
      /\ \A i \in 1..(Len(q) + 1) : (q \o <<t>>)[i] = IF i <= Len(q) THEN q[i] ELSE <<t>>[i - Len(q)]
    BY <1>2, ConcatProperties
<1>4. IsSeq(q \o <<t>>)
    BY <1>3, SeqIsSeq
<1>5. ASSUME NEW i \in 1..(Len(q) + 1)
      PROVE  (i \in 1..Len(q) /\ (q \o <<t>>)[i] = q[i]) \/ (q \o <<t>>)[i] = t
    <2>1. CASE i <= Len(q)
        BY <1>2, <1>3, <1>5, <2>1
    <2>2. CASE i = Len(q) + 1
        <3>1. i - Len(q) = 1
            BY <1>2, <2>2
        <3>2. QED
            BY <1>2, <1>3, <1>5, <2>2, <3>1
    <2>3. QED
        BY <1>2, <1>5, <2>1, <2>2
<1>6. QED
    BY <1>2, <1>3, <1>4, <1>5

\* The queues after a submit.
LEMMA SubmittedFacts ==
    ASSUME WorkersTypeOK, NEW t, NEW s \in Stages, NEW r \in Stages
    PROVE  /\ DOMAIN Submitted(To(s, t)) = Stages /\ DOMAIN Submitted(ToBoth(t)) = Stages
           /\ r # s => Submitted(To(s, t))[r] = queue[r]
           /\ Submitted(To(s, t))[s] = queue[s] \o <<t>>
           /\ Submitted(ToBoth(t))[r] = queue[r] \o <<t>>
<1>1. queue[r] \o <<>> = queue[r]
    BY ConcatNothing DEF WorkersTypeOK
<1>2. QED
    BY <1>1 DEF Submitted, To, ToBoth

\* A worker that can owe no call has nothing to do.
LEMMA WorkNone ==
    ASSUME NEW at, NEW f, NEW s, NEW r, NEW q, WorkInOrder(at, f, s, r, q),
           \A c, m : ~PlainCall(at, f, s, c, m) /\ ~ClosingCall(at, f, s, c, m)
    PROVE  r = Idle /\ q = <<>>
    BY DEF WorkInOrder, Alone, Plain, Closing

\* A worker keeps its work while the coordinator moves on.
LEMMA WorkKept ==
    ASSUME NEW at, NEW at2, NEW f, NEW f2, NEW s, NEW r, NEW q, WorkInOrder(at, f, s, r, q),
           f2.txn = f.txn, f2.eval = f.eval, at2 \in RollingBack => at \in RollingBack,
           \A c, m : PlainCall(at, f, s, c, m) => PlainCall(at2, f2, s, c, m),
           \A c, m : ClosingCall(at, f, s, c, m) => ClosingCall(at2, f2, s, c, m)
    PROVE  WorkInOrder(at2, f2, s, r, q)
<1>1. ASSUME NEW n PROVE ChunkLen(f2, n) = ChunkLen(f, n)
    BY DEF ChunkLen
<1>2. ASSUME NEW t, Plain(at, f, s, t) PROVE Plain(at2, f2, s, t)
    BY <1>1, <1>2 DEF Plain
<1>3. ASSUME NEW t, Closing(at, f, s, t) PROVE Closing(at2, f2, s, t)
    BY <1>3 DEF Closing
<1>4. ASSUME NEW t, Alone(at, f, s, t) PROVE Alone(at2, f2, s, t)
    BY <1>2, <1>3, <1>4 DEF Alone
<1>5. QED
    BY <1>2, <1>3, <1>4 DEF WorkInOrder

\* A submitted task has not been answered.
LEMMA SubmitUnanswered ==
    ASSUME NEW fu, NEW s, NEW r, NEW q, NEW t, IsSeq(q), WorkUnanswered(fu, s, r, q),
           ~Answered(fu, s, t.call, t.n)
    PROVE  WorkUnanswered(fu, s, r, q \o <<t>>)
<1>1. \A i \in 1..Len(q \o <<t>>) :
          (i \in 1..Len(q) /\ (q \o <<t>>)[i] = q[i]) \/ (q \o <<t>>)[i] = t
    BY ConcatTask
<1>2. QED
    BY <1>1 DEF WorkUnanswered, Answered

\* A request that fails before its commit point is rolled back on both stages,
\* behind what they still have to do.
LEMMA ThrowStep ==
    ASSUME EngineInv, RequestInStep, FrameInStep, BoundariesInStep, WorkersTypeOK, StagesInStep,
           pc \in Opening, NEW st, Throw(st), UNCHANGED <<tokens, poisoned, backend, running>>
    PROVE  BoundariesInStep' /\ WorkersTypeOK' /\ StagesInStep'
<1> DEFINE t == Task("rollback", 0)
<1>1. /\ pc' = "rollback0" /\ frame' = frame /\ fut' = fut /\ queue' = Submitted(ToBoth(t))
    BY DEF Throw
<1>2. t.call = "rollback" /\ t.n = 0 /\ t.txn = frame.txn
    BY DEF Task
<1> HIDE DEF t
<1>3. ~poisoned /\ pc \in InTxn \ RollingBack /\ pc \notin RollingBack \cup Outside \cup Committing \cup {"reset"}
    BY DEF RequestInStep, Opening, Outside, InTxn, RollingBack, Committing
<1>4. /\ DOMAIN queue' = Stages /\ \A r \in Stages : IsSeq(queue[r]) /\ queue'[r] = queue[r] \o <<t>>
    <2>1. 0 \in Stages
        BY DEF Stages
    <2>2. QED
        BY <1>1, <2>1, SubmittedFacts DEF WorkersTypeOK
<1>q. ASSUME NEW r \in Stages
      PROVE  /\ IsSeq(queue'[r])
             /\ \A i \in 1..Len(queue'[r]) :
                   queue'[r][i] = t \/ \E j \in 1..Len(queue[r]) : queue'[r][i] = queue[r][j]
    <2> DEFINE q == queue[r]
    <2>1. IsSeq(q) /\ queue'[r] = q \o <<t>>
        BY <1>4
    <2> HIDE DEF q
    <2>2. /\ IsSeq(q \o <<t>>)
          /\ \A i \in 1..Len(q \o <<t>>) :
                 (i \in 1..Len(q) /\ (q \o <<t>>)[i] = q[i]) \/ (q \o <<t>>)[i] = t
        BY <2>1, ConcatTask
    <2>3. QED
        BY <2>1, <2>2 DEF q
<1>5. WorkersTypeOK'
    BY <1>4, <1>q DEF WorkersTypeOK
<1>6. BoundariesInStep'
    <2>1. ASSUME NEW r \in Stages, r = 1
          PROVE  /\ running'[r].call # "execute0"
                 /\ \A i \in 1..Len(queue'[r]) : queue'[r][i].call # "execute0"
        <3>1. /\ running[r].call # "execute0"
              /\ \A i \in 1..Len(queue[r]) : queue[r][i].call # "execute0"
            BY <2>1 DEF BoundariesInStep
        <3>2. \A i \in 1..Len(queue'[r]) : queue'[r][i] = t \/ \E j \in 1..Len(queue[r]) : queue'[r][i] = queue[r][j]
            BY <1>q
        <3>3. QED
            BY <1>2, <3>1, <3>2
    <2>2. pc' \notin Outside /\ pc' # "reconcile"
        BY <1>1 DEF Outside
    <2>3. QED
        BY <1>1, <2>1, <2>2 DEF BoundariesInStep
<1>7. StagesInStep'
    <2>1. AnswersInStep(pc, frame, fut) /\ \A r \in Stages : StageInStep(r)
        BY <1>3 DEF StagesInStep
    <2>2. AnswersInStep("rollback0", frame, fut)
        <3>1. ASSUME NEW c, NEW n, AnswerInStep(pc, frame, c, n)
              PROVE  AnswerInStep("rollback0", frame, c, n)
            BY <1>3, <3>1 DEF AnswerInStep, RollingBack, Opening, Outside
        <3>2. QED
            BY <2>1, <3>1 DEF AnswersInStep
    <2>3. ASSUME NEW r \in Stages PROVE StageInStep(r)'
        <3>1. /\ WorkInOrder(pc, frame, r, running[r], queue[r])
              /\ WorkUnanswered(fut, r, running[r], queue[r])
              /\ BackendInStep(pc, frame, tokens, fut, r, backend[r])
            BY <2>1 DEF StageInStep
        <3>2. ~Answered(fut, r, "rollback", 0)
            <4> DEFINE k == <<r, "rollback", 0>>
            <4>1. k[2] = "rollback"
                OBVIOUS
            <4>2. k \notin DOMAIN fut
                BY <1>3, <2>1, <4>1 DEF AnswersInStep, AnswerInStep
            <4>3. QED
                BY <4>2 DEF Answered
        <3>3. Closing("rollback0", frame, r, t)
            BY <1>2 DEF Closing, ClosingCall
        <3>4. pc \in {"prefetch", "draft"} => frame.off = 0
            BY DEF FrameInStep
        <3>5. WorkInOrder("rollback0", frame, r, running[r], queue[r] \o <<t>>)
            <4> DEFINE q == queue[r]
                       u == running[r]
            <4>1. WorkInOrder(pc, frame, r, u, q)
                BY <3>1
            <4> HIDE DEF q, u
            <4>2. WorkInOrder("rollback0", frame, r, u, q \o <<t>>)
                BY <3>3, <3>4, <4>1, WorkThrow
            <4>3. QED
                BY <4>2 DEF q, u
        <3>6. WorkUnanswered(fut, r, running[r], queue[r] \o <<t>>)
            BY <1>2, <1>4, <3>1, <3>2, SubmitUnanswered
        <3>7. BackendInStep("rollback0", frame, tokens, fut, r, backend[r])
            BY <1>3, <3>1, <3>2 DEF BackendInStep, Closed, RollingBack, Committing
        <3>8. RestsAt(r)'
            BY <1>1 DEF RestsAt, Outside
        <3>9. QED
            BY <1>1, <1>4, <3>5, <3>6, <3>7, <3>8 DEF StageInStep
    <2>4. QED
        BY <1>1, <2>2, <2>3 DEF StagesInStep
<1>8. QED
    BY <1>5, <1>6, <1>7

\* The coordinator moves on inside a transaction, without having been failed.
LEMMA MoveStep ==
    ASSUME EngineInv, RequestInStep, FrameInStep, BoundariesInStep, WorkersTypeOK, StagesInStep,
           pc \in InTxn \ RollingBack, pc' \in InTxn \ RollingBack, pc' # "draft",
           UNCHANGED <<tokens, poisoned, backend, running, fut>>,
           frame'.txn = frame.txn, frame'.eval = frame.eval, DOMAIN queue' = Stages,
           \A s \in Stages : /\ IsSeq(queue'[s])
                             /\ WorkInOrder(pc', frame', s, running[s], queue'[s])
                             /\ WorkUnanswered(fut, s, running[s], queue'[s]),
           \A c, n : AnswerInStep(pc, frame, c, n) => AnswerInStep(pc', frame', c, n),
           \A n \in {frame.off, NextOf(frame)} :
              n \in {frame'.off, NextOf(frame')} \/ <<1, "execute1", n>> \in DOMAIN fut,
           \A i \in 1..Len(queue'[1]) :
              queue'[1][i].call # "execute0" \/ \E j \in 1..Len(queue[1]) : queue'[1][i] = queue[1][j],
           pc' = "reconcile" => Answered(fut, 1, "execute1", frame'.off)
    PROVE  BoundariesInStep' /\ WorkersTypeOK' /\ StagesInStep'
<1>1. /\ ~poisoned /\ pc \notin Outside \cup Committing \cup {"reset"}
      /\ pc' \notin Outside \cup Committing \cup {"reset"}
    BY DEF RequestInStep, Opening, Outside, InTxn, RollingBack, Committing
<1>2. WorkersTypeOK'
    BY DEF WorkersTypeOK
<1>3. BoundariesInStep'
    <2>1. ASSUME NEW k \in DOMAIN fut, k[2] = "execute0"
          PROVE  /\ k = <<0, "execute0", k[3]>>
                 /\ k[3] \in {frame'.off, NextOf(frame')} \/ <<1, "execute1", k[3]>> \in DOMAIN fut
        BY <2>1 DEF BoundariesInStep
    <2>2. ASSUME NEW r \in Stages, r = 1
          PROVE  /\ running'[r].call # "execute0"
                 /\ \A i \in 1..Len(queue'[r]) : queue'[r][i].call # "execute0"
        BY <2>2 DEF BoundariesInStep
    <2>3. QED
        BY <1>1, <2>1, <2>2 DEF BoundariesInStep, NextOf
<1>4. StagesInStep'
    <2>1. AnswersInStep(pc, frame, fut) /\ \A r \in Stages : StageInStep(r)
        BY <1>1 DEF StagesInStep
    <2>2. AnswersInStep(pc', frame', fut)
        BY <2>1 DEF AnswersInStep
    <2>3. ASSUME NEW r \in Stages PROVE StageInStep(r)'
        <3>1. BackendInStep(pc, frame, tokens, fut, r, backend[r])
            BY <2>1 DEF StageInStep
        <3>2. BackendInStep(pc', frame', tokens, fut, r, backend[r])
            BY <1>1, <3>1 DEF BackendInStep
        <3>3. QED
            BY <1>1, <3>2 DEF StageInStep, RestsAt
    <2>4. QED
        BY <2>2, <2>3 DEF StagesInStep
<1>5. QED
    BY <1>2, <1>3, <1>4

\* What every step of the coordinator starts from and what it must keep.
WorkInStep == BoundariesInStep /\ WorkersTypeOK /\ StagesInStep
InStep == EngineInv /\ SealedInStep /\ RequestInStep /\ FrameInStep /\ WorkInStep

\* While a request is under way the executor is healthy.
LEMMA Healthy ==
    ASSUME InStep, ~poisoned \/ pc \notin Outside
    PROVE  /\ ~poisoned /\ AnswersInStep(pc, frame, fut)
           /\ \A s \in Stages : /\ StageInStep(s) /\ IsSeq(queue[s])
                                /\ WorkInOrder(pc, frame, s, running[s], queue[s])
                                /\ WorkUnanswered(fut, s, running[s], queue[s])
                                /\ BackendInStep(pc, frame, tokens, fut, s, backend[s])
    BY DEF InStep, WorkInStep, RequestInStep, StagesInStep, StageInStep, WorkersTypeOK

\* What has been answered was asked for.
LEMMA NotAnswered ==
    ASSUME AnswersInStep(pc, frame, fut), NEW s, NEW c, NEW n, ~AnswerInStep(pc, frame, c, n)
    PROVE  ~Answered(fut, s, c, n)
<1> DEFINE k == <<s, c, n>>
<1>1. k[2] = c /\ k[3] = n
    OBVIOUS
<1>2. k \notin DOMAIN fut
    BY <1>1 DEF AnswersInStep
<1>3. QED
    BY <1>2 DEF Answered

\* The two queues after a submit, one by one.
LEMMA Submits ==
    ASSUME WorkersTypeOK, NEW t
    PROVE  /\ DOMAIN Submitted(To(0, t)) = Stages /\ DOMAIN Submitted(To(1, t)) = Stages
           /\ DOMAIN Submitted(ToBoth(t)) = Stages
           /\ Submitted(To(0, t))[0] = queue[0] \o <<t>> /\ Submitted(To(0, t))[1] = queue[1]
           /\ Submitted(To(1, t))[1] = queue[1] \o <<t>> /\ Submitted(To(1, t))[0] = queue[0]
           /\ Submitted(ToBoth(t))[0] = queue[0] \o <<t>> /\ Submitted(ToBoth(t))[1] = queue[1] \o <<t>>
<1>1. 0 \in Stages /\ 1 \in Stages
    BY DEF Stages
<1>2. queue[0] \o <<>> = queue[0] /\ queue[1] \o <<>> = queue[1]
    BY <1>1, ConcatNothing DEF WorkersTypeOK
<1>3. QED
    BY <1>1, <1>2, SMTT(30) DEF Submitted, To, ToBoth

\* A stage without work stays in order.
LEMMA NoWork ==
    ASSUME NEW at, NEW f, NEW fu, NEW s, NEW r, NEW q, r = Idle, q = <<>>
    PROVE  WorkInOrder(at, f, s, r, q) /\ WorkUnanswered(fu, s, r, q) /\ IsSeq(q)
    BY EmptyIsSeq DEF WorkInOrder, WorkUnanswered

\* So does one that is given a task.
LEMMA NewWork ==
    ASSUME NEW at, NEW f, NEW fu, NEW s, NEW r, NEW q, NEW q2, NEW t, r = Idle, q = <<>>,
           Alone(at, f, s, t), ~Answered(fu, s, t.call, t.n), q2 = q \o <<t>>
    PROVE  WorkInOrder(at, f, s, r, q2) /\ WorkUnanswered(fu, s, r, q2) /\ IsSeq(q2)
<1>0. WorkUnanswered(fu, s, r, q) /\ IsSeq(q)
    BY NoWork
<1>1. q \o <<t>> = <<t>>
    BY ShortSeqs
<1>2. q2 = <<t>> /\ q2 = q \o <<t>>
    BY <1>1
<1>3. WorkInOrder(at, f, s, r, q2)
    BY <1>2, WorkSubmit
<1>4. WorkUnanswered(fu, s, r, q2)
    BY <1>0, <1>2, SubmitUnanswered
<1>5. IsSeq(q2)
    BY <1>0, <1>2, ConcatTask
<1>6. QED
    BY <1>3, <1>4, <1>5

\* The task that runs a chunk.
LEMMA ChunkTask ==
    ASSUME NEW call \in {"execute0", "execute1"}, NEW f, NEW n, NEW boundary, NEW at, NEW s,
           PlainCall(at, f, s, call, n), n \in 0..(f.txn.evaluated - 1), at \notin RollingBack
    PROVE  LET t == ExecuteTask(call, f, n, boundary) IN
           Alone(at, f, s, t) /\ t.call = call /\ t.n = n
<1> DEFINE t == ExecuteTask(call, f, n, boundary)
<1>1. t.call = call /\ t.n = n /\ t.txn = f.txn /\ t.toks = SubSeq(f.eval, n + 1, n + ChunkLen(f, n))
    BY DEF ExecuteTask
<1> HIDE DEF t
<1>2. Alone(at, f, s, t)
    BY <1>1 DEF Alone, Plain
<1>3. QED
    BY <1>1, <1>2 DEF t

\* The other tasks of a transaction.
LEMMA PlainTask ==
    ASSUME NEW call \in {"checkpoint", "reconcile", "commit", "rollback", "reset"}, NEW n, NEW at, NEW s,
           \/ PlainCall(at, frame, s, call, n) /\ at \notin RollingBack
           \/ ClosingCall(at, frame, s, call, n)
    PROVE  LET t == Task(call, n) IN Alone(at, frame, s, t) /\ t.call = call /\ t.n = n
<1> DEFINE t == Task(call, n)
<1>1. t.call = call /\ t.n = n /\ t.txn = frame.txn
    BY DEF Task
<1> HIDE DEF t
<1>2. Alone(at, frame, s, t)
    BY <1>1 DEF Alone, Plain, Closing
<1>3. QED
    BY <1>1, <1>2 DEF t

\* What stage s has to do after a step is in order, and none of it is answered.
WorkNext(s) ==
    /\ IsSeq(queue'[s])
    /\ WorkInOrder(pc', frame', s, running[s], queue'[s])
    /\ WorkUnanswered(fut, s, running[s], queue'[s])

\* It gets a task, having had none.
LEMMA StageGiven ==
    ASSUME NEW s, NEW t, running[s] = Idle, queue[s] = <<>>,
           queue'[s] = queue[s] \o <<t>> \/ queue'[s] = Append(queue[s], t),
           Alone(pc', frame', s, t), ~Answered(fut, s, t.call, t.n)
    PROVE  WorkNext(s) /\ \A i \in 1..Len(queue'[s]) : queue'[s][i] = t
<1> DEFINE q == queue[s]
           q2 == queue'[s]
           r == running[s]
           at == pc'
           f == frame'
<1>0. \A u : <<>> \o <<u>> = <<u>> /\ Append(<<>>, u) = <<u>>
    BY ShortSeqs
<1>1. /\ q2 = q \o <<t>> /\ q = <<>> /\ r = Idle /\ Alone(at, f, s, t) /\ ~Answered(fut, s, t.call, t.n)
    BY <1>0
<1> HIDE DEF q, q2, r, at, f
<1>2. /\ IsSeq(q2) /\ WorkInOrder(at, f, s, r, q2) /\ WorkUnanswered(fut, s, r, q2)
    BY <1>1, NewWork
<1>3. q2 = <<t>>
    BY <1>0, <1>1
<1>4. \A i \in 1..Len(q2) : q2[i] = t
    BY <1>3
<1>5. QED
    BY <1>2, <1>4 DEF q2, r, at, f, WorkNext

\* It has none and gets none.
LEMMA StageRests ==
    ASSUME NEW s, running[s] = Idle, queue[s] = <<>>, queue'[s] = queue[s]
    PROVE  WorkNext(s)
    BY NoWork DEF WorkNext

\* It keeps what it has.
LEMMA StageKeeps ==
    ASSUME InStep, pc \notin Outside, NEW s \in Stages, queue'[s] = queue[s],
           frame'.txn = frame.txn, frame'.eval = frame.eval, pc' \in RollingBack => pc \in RollingBack,
           \A c, m : PlainCall(pc, frame, s, c, m) => PlainCall(pc', frame', s, c, m),
           \A c, m : ClosingCall(pc, frame, s, c, m) => ClosingCall(pc', frame', s, c, m)
    PROVE  WorkNext(s)
<1>1. /\ IsSeq(queue[s]) /\ WorkInOrder(pc, frame, s, running[s], queue[s])
      /\ WorkUnanswered(fut, s, running[s], queue[s])
    BY Healthy
<1>2. WorkInOrder(pc', frame', s, running[s], queue[s])
    BY <1>1, WorkKept
<1>3. QED
    BY <1>1, <1>2 DEF WorkNext

\* It is done with the only call it owed.
LEMMA StageDone ==
    ASSUME InStep, pc \notin Outside, NEW s \in Stages, NEW call, NEW n, Answered(fut, s, call, n),
           \/ /\ pc \notin RollingBack \cup Committing \cup {"reset"}
              /\ \A c, m : PlainCall(pc, frame, s, c, m) => c = call /\ m = n
           \/ /\ pc \in RollingBack \cup Committing \cup {"reset"}
              /\ \A c, m : ClosingCall(pc, frame, s, c, m) => c = call /\ m = n
    PROVE  running[s] = Idle /\ queue[s] = <<>>
    BY Healthy, WorkAnswered

\* It owes no call.
LEMMA StageFree ==
    ASSUME InStep, ~poisoned \/ pc \notin Outside, NEW s \in Stages,
           \A c, m : ~PlainCall(pc, frame, s, c, m) /\ ~ClosingCall(pc, frame, s, c, m)
    PROVE  running[s] = Idle /\ queue[s] = <<>>
    BY Healthy, WorkNone

\* Inside run_transaction, up to the commit point.
LEMMA OpeningFacts ==
    ASSUME InStep, pc \in Opening
    PROVE  /\ EngineInv /\ RequestInStep /\ FrameInStep /\ BoundariesInStep /\ WorkersTypeOK /\ StagesInStep
           /\ pc \in InTxn \ RollingBack /\ pc \notin Outside
           /\ pc \notin RollingBack \cup Committing \cup {"reset"}
           /\ AnswersInStep(pc, frame, fut)
           /\ frame.txn.evaluated \in Nat /\ frame.off \in 0..(frame.txn.evaluated - 1)
           /\ NextOf(frame) \in (frame.off + 1)..frame.txn.evaluated
           /\ NextOffset = NextOf(frame) /\ (MoreRows <=> NextOf(frame) < frame.txn.evaluated)
           /\ \A s, c, m : ~ClosingCall(pc, frame, s, c, m)
<1>1. /\ EngineInv /\ RequestInStep /\ FrameInStep /\ BoundariesInStep /\ WorkersTypeOK /\ StagesInStep
    BY DEF InStep, WorkInStep
<1>2. /\ pc \in InTxn \ RollingBack /\ pc \notin Outside
      /\ pc \notin RollingBack \cup Committing \cup {"reset"}
    BY DEF InTxn, Opening, RollingBack, Outside, Committing
<1>3. \A s, c, m : ~ClosingCall(pc, frame, s, c, m)
    BY DEF ClosingCall, Opening
<1>4. NextOffset = NextOf(frame) /\ (MoreRows <=> NextOf(frame) < frame.txn.evaluated)
    BY DEF NextOffset, NextOf, MoreRows
<1>5. QED
    BY <1>1, <1>2, <1>3, <1>4, Healthy, FrameFacts

\* The coordinator moves on: both stages in order, nothing answered too early.
LEMMA MoveOn ==
    ASSUME InStep, pc \in Opening \cup {"ack0", "ack1", "decide"},
           pc' \in Opening \cup {"ack0", "ack1", "decide", "commit"}, pc' # "draft",
           UNCHANGED <<tokens, poisoned, backend, running, fut>>,
           frame'.txn = frame.txn, frame'.eval = frame.eval, DOMAIN queue' = Stages,
           WorkNext(0), WorkNext(1),
           \A c, n : AnswerInStep(pc, frame, c, n) => AnswerInStep(pc', frame', c, n),
           \/ frame'.off = frame.off
           \/ frame'.off = NextOf(frame) /\ Answered(fut, 1, "execute1", frame.off),
           queue'[1] = queue[1] \/ \A i \in 1..Len(queue'[1]) : queue'[1][i].call # "execute0",
           pc' = "reconcile" => Answered(fut, 1, "execute1", frame'.off)
    PROVE  WorkInStep'
<1>1. /\ EngineInv /\ RequestInStep /\ FrameInStep /\ BoundariesInStep /\ WorkersTypeOK /\ StagesInStep
    BY DEF InStep, WorkInStep
<1>2. pc \in InTxn \ RollingBack /\ pc' \in InTxn \ RollingBack
    BY DEF InTxn, Opening, RollingBack
<1>3. \A s \in Stages : /\ IsSeq(queue'[s])
                        /\ WorkInOrder(pc', frame', s, running[s], queue'[s])
                        /\ WorkUnanswered(fut, s, running[s], queue'[s])
    BY DEF WorkNext, Stages
<1>4. \A n \in {frame.off, NextOf(frame)} :
         n \in {frame'.off, NextOf(frame')} \/ <<1, "execute1", n>> \in DOMAIN fut
    <2>1. frame'.off = frame.off => NextOf(frame') = NextOf(frame)
        BY DEF NextOf, ChunkLen
    <2>2. QED
        BY <2>1 DEF Answered
<1>5. \A i \in 1..Len(queue'[1]) :
         queue'[1][i].call # "execute0" \/ \E j \in 1..Len(queue[1]) : queue'[1][i] = queue[1][j]
    OBVIOUS
<1>6. QED
    BY <1>1, <1>2, <1>3, <1>4, <1>5, MoveStep DEF WorkInStep

\* The prefetch has been answered.
LEMMA PrefetchStep ==
    ASSUME InStep, GetPrefetch
    PROVE  WorkInStep'
<1>0. /\ pc = "prefetch" /\ pc \in Opening /\ Answered(fut, 0, "prefetch", 0)
      /\ UNCHANGED <<tokens, poisoned, backend, running>>
    BY DEF GetPrefetch, Opening, Ready, Answered, sessVars
<1>1. CASE \E st : Throw(st)
    BY <1>0, <1>1, OpeningFacts, ThrowStep DEF WorkInStep
<1>2. CASE ~\E st : Throw(st)
    <2> DEFINE t == Stage0Task(frame, 0)
    <2>1. queue' = Submitted(To(0, t)) /\ pc' = "chunk" /\ UNCHANGED <<frame, fut>>
        BY <1>2 DEF GetPrefetch
    <2>2. running[0] = Idle /\ queue[0] = <<>> /\ running[1] = Idle /\ queue[1] = <<>>
        <3>1. \A c, m : PlainCall(pc, frame, 0, c, m) => c = "prefetch" /\ m = 0
            BY <1>0 DEF PlainCall
        <3>2. \A c, m : ~PlainCall(pc, frame, 1, c, m)
            BY <1>0 DEF PlainCall
        <3>3. QED
            BY <1>0, <3>1, <3>2, OpeningFacts, StageDone, StageFree DEF Stages
    <2>3. Alone("chunk", frame, 0, t) /\ t.call = "execute0" /\ t.n = 0
        <3>0. frame.off = 0 /\ 0 \in 0..(frame.txn.evaluated - 1)
            BY <1>0, OpeningFacts DEF FrameInStep
        <3>1. PlainCall("chunk", frame, 0, "execute0", 0) /\ "chunk" \notin RollingBack
            BY <3>0 DEF PlainCall, RollingBack
        <3>2. QED
            BY <3>0, <3>1, ChunkTask DEF Stage0Task
    <2> HIDE DEF t
    <2>4. ~Answered(fut, 0, "execute0", 0)
        <3>1. ~AnswerInStep(pc, frame, "execute0", 0)
            BY <1>0 DEF AnswerInStep
        <3>2. QED
            BY <1>0, <3>1, OpeningFacts, NotAnswered
    <2>5. DOMAIN queue' = Stages /\ queue'[0] = queue[0] \o <<t>> /\ queue'[1] = queue[1]
        BY <1>0, <2>1, OpeningFacts, Submits
    <2>6. WorkNext(0) /\ WorkNext(1)
        BY <2>1, <2>2, <2>3, <2>4, <2>5, StageGiven, StageRests
    <2>7. \A c, n : AnswerInStep(pc, frame, c, n) => AnswerInStep("chunk", frame, c, n)
        BY <1>0 DEF AnswerInStep, Opening, Outside
    <2>8. QED
        BY <1>0, <2>1, <2>5, <2>6, <2>7, MoveOn DEF Opening
<1>3. QED
    BY <1>1, <1>2
-----------------------------------------------------------------------------
(* The chunk loop.                                                         *)

\* The moves of the chunk loop.
Moves ==
    {<<"draft", "chunk">>, <<"chunk", "stage0">>, <<"stage0", "checkpoint">>, <<"stage0", "stage1">>,
     <<"checkpoint", "stage1">>, <<"stage1", "reconcile">>, <<"stage1", "lookahead">>,
     <<"stage1", "seal">>, <<"lookahead", "seal">>}

\* They leave the answers in step.
LEMMA AnswersMove ==
    ASSUME NEW at, NEW at2, NEW f, NEW f2, NEW c, NEW m, AnswerInStep(at, f, c, m),
           f.off \in Nat, NextOf(f) \in Nat, NextOf(f) > f.off,
           \/ f2.off = f.off /\ NextOf(f2) = NextOf(f) /\ <<at, at2>> \in Moves
           \/ f2.off = NextOf(f) /\ at \in {"stage1", "reconcile"} /\ at2 = "chunk"
    PROVE  AnswerInStep(at2, f2, c, m)
<1>1. /\ at \in Opening /\ at2 \in Opening /\ at2 # "prefetch" /\ at2 \notin Outside
      /\ at \notin Outside \cup RollingBack \cup Committing \cup {"reset"}
    BY DEF Moves, Opening, Outside, RollingBack, Committing
<1>2. c \notin {"rollback", "commit", "reset"}
    BY <1>1 DEF AnswerInStep
<1>3. c \in {"execute0", "execute1", "checkpoint", "reconcile"} => m \in Nat
    BY <1>1 DEF AnswerInStep
<1>4. CASE c = "execute0"
    <2>1. m \in Nat /\ m <= IF at \in {"draft", "chunk", "stage0", "checkpoint"} THEN f.off ELSE NextOf(f)
        BY <1>1, <1>4 DEF AnswerInStep
    <2>2. m <= IF at2 \in {"draft", "chunk", "stage0", "checkpoint"} THEN f2.off ELSE NextOf(f2)
        BY <2>1 DEF Moves
    <2>3. QED
        BY <1>1, <1>4, <2>1, <2>2 DEF AnswerInStep
<1>5. CASE c = "checkpoint"
    <2>1. m \in Nat /\ m <= IF at \in {"draft", "chunk", "stage0"} THEN f.off ELSE NextOf(f)
        BY <1>1, <1>5 DEF AnswerInStep
    <2>2. m <= IF at2 \in {"draft", "chunk", "stage0"} THEN f2.off ELSE NextOf(f2)
        BY <2>1 DEF Moves
    <2>3. QED
        BY <1>1, <1>5, <2>1, <2>2 DEF AnswerInStep
<1>6. CASE c = "execute1"
    <2>1. m \in Nat /\ IF at \in {"draft", "chunk", "stage0"} THEN m < f.off ELSE m <= f.off
        BY <1>1, <1>6 DEF AnswerInStep
    <2>2. IF at2 \in {"draft", "chunk", "stage0"} THEN m < f2.off ELSE m <= f2.off
        BY <2>1 DEF Moves
    <2>3. QED
        BY <1>1, <1>6, <2>1, <2>2 DEF AnswerInStep
<1>7. CASE c = "reconcile"
    <2>1. m \in Nat /\ IF at \in {"reconcile", "seal"} THEN m <= f.off ELSE m < f.off
        BY <1>1, <1>7 DEF AnswerInStep
    <2>2. IF at2 \in {"reconcile", "seal"} THEN m <= f2.off ELSE m < f2.off
        BY <2>1 DEF Moves
    <2>3. QED
        BY <1>1, <1>7, <2>1, <2>2 DEF AnswerInStep
<1>8. CASE c \notin {"execute0", "execute1", "checkpoint", "reconcile"}
    BY <1>1, <1>2, <1>8 DEF AnswerInStep
<1>9. QED
    BY <1>4, <1>5, <1>6, <1>7, <1>8

\* The top of the chunk loop.
LEMMA CheckStep ==
    ASSUME InStep, CheckChunk
    PROVE  WorkInStep'
<1>0. /\ pc = "chunk" /\ pc \in Opening
      /\ UNCHANGED <<tokens, poisoned, backend, running>>
    BY DEF CheckChunk, Opening, sessVars
<1>1. CASE \E st : Throw(st)
    BY <1>0, <1>1, OpeningFacts, ThrowStep DEF WorkInStep
<1>2. CASE ~\E st : Throw(st)
    <2>1. queue' = queue /\ pc' = "stage0" /\ UNCHANGED <<frame, fut>>
        BY <1>2 DEF CheckChunk
    <2>2. DOMAIN queue' = Stages /\ queue'[0] = queue[0] /\ queue'[1] = queue[1]
        BY <1>0, <2>1, OpeningFacts DEF WorkersTypeOK
    <2>3. \A s, c, m : PlainCall(pc, frame, s, c, m) => PlainCall(pc', frame', s, c, m)
        BY <1>0, <2>1 DEF PlainCall
    <2>4. WorkNext(0) /\ WorkNext(1)
        BY <1>0, <2>1, <2>2, <2>3, OpeningFacts, StageKeeps DEF Stages, RollingBack
    <2>5. \A c, n : AnswerInStep(pc, frame, c, n) => AnswerInStep("stage0", frame, c, n)
        BY <1>0, OpeningFacts, AnswersMove DEF Moves
    <2>6. QED
        BY <1>0, <2>1, <2>2, <2>4, <2>5, MoveOn DEF Opening
<1>3. QED
    BY <1>1, <1>2

\* Stage 0's checkpoint has been answered.
LEMMA CheckpointStep ==
    ASSUME InStep, GetCheckpoint
    PROVE  WorkInStep'
<1>0. /\ pc = "checkpoint" /\ pc \in Opening /\ Answered(fut, 0, "checkpoint", NextOf(frame))
      /\ UNCHANGED <<tokens, poisoned, backend, running>>
    BY DEF GetCheckpoint, Opening, Ready, Answered, sessVars, NextOffset, NextOf
<1>1. CASE \E st : Throw(st)
    BY <1>0, <1>1, OpeningFacts, ThrowStep DEF WorkInStep
<1>2. CASE ~\E st : Throw(st)
    <2> DEFINE n == NextOf(frame)
               t == Stage0Task(frame, n)
    <2>1. queue' = Submitted(To(0, t)) /\ pc' = "stage1" /\ UNCHANGED <<frame, fut>>
        BY <1>2 DEF GetCheckpoint, NextOffset, NextOf
    <2>2. running[0] = Idle /\ queue[0] = <<>>
        <3>1. \A c, m : PlainCall(pc, frame, 0, c, m) => c = "checkpoint" /\ m = n
            BY <1>0 DEF PlainCall
        <3>2. QED
            BY <1>0, <3>1, OpeningFacts, StageDone DEF Stages
    <2>3. n \in 0..(frame.txn.evaluated - 1) /\ n > frame.off /\ frame.off \in Nat /\ n < frame.txn.evaluated
        BY <1>0, OpeningFacts DEF FrameInStep
    <2>4. Alone("stage1", frame, 0, t) /\ t.call = "execute0" /\ t.n = n
        <3>1. PlainCall("stage1", frame, 0, "execute0", n) /\ "stage1" \notin RollingBack
            BY <2>3 DEF PlainCall, RollingBack
        <3>2. QED
            BY <2>3, <3>1, ChunkTask DEF Stage0Task
    <2> HIDE DEF t
    <2>5. ~Answered(fut, 0, "execute0", n)
        <3>1. ~AnswerInStep(pc, frame, "execute0", n)
            BY <1>0, <2>3 DEF AnswerInStep, Opening
        <3>2. QED
            BY <1>0, <3>1, OpeningFacts, NotAnswered
    <2>6. DOMAIN queue' = Stages /\ queue'[0] = queue[0] \o <<t>> /\ queue'[1] = queue[1]
        BY <1>0, <2>1, OpeningFacts, Submits
    <2>7. WorkNext(0)
        BY <2>1, <2>2, <2>4, <2>5, <2>6, StageGiven
    <2>8. WorkNext(1)
        <3>1. \A c, m : PlainCall(pc, frame, 1, c, m) => PlainCall(pc', frame', 1, c, m)
            BY <1>0, <2>1 DEF PlainCall
        <3>2. QED
            BY <1>0, <2>1, <2>6, <3>1, OpeningFacts, StageKeeps DEF Stages, RollingBack
    <2>9. \A c, m : AnswerInStep(pc, frame, c, m) => AnswerInStep("stage1", frame, c, m)
        BY <1>0, <2>3, AnswersMove DEF Moves
    <2>10. QED
        BY <1>0, <2>1, <2>6, <2>7, <2>8, <2>9, MoveOn DEF Opening
<1>3. QED
    BY <1>1, <1>2

\* The row accepted by stage 1 has been reconciled.
LEMMA ReconcileStep ==
    ASSUME InStep, GetReconcile
    PROVE  WorkInStep'
<1>0. /\ pc = "reconcile" /\ pc \in Opening /\ Answered(fut, 1, "reconcile", frame.off)
      /\ UNCHANGED <<tokens, poisoned, backend, running>>
    BY DEF GetReconcile, Opening, Ready, Answered, sessVars
<1>1. CASE \E st : Throw(st)
    BY <1>0, <1>1, OpeningFacts, ThrowStep DEF WorkInStep
<1>2. CASE ~\E st : Throw(st)
    <2>0. IsFrame(frame) /\ NextOffset = NextOf(frame)
        BY <1>0, OpeningFacts DEF RequestInStep
    <2>1. /\ queue' = queue /\ pc' = "chunk" /\ UNCHANGED fut
          /\ frame'.off = NextOf(frame) /\ frame'.txn = frame.txn /\ frame'.eval = frame.eval
        BY <1>2, <2>0, FrameFields DEF GetReconcile
    <2>2. running[1] = Idle /\ queue[1] = <<>>
        <3>1. \A c, m : PlainCall(pc, frame, 1, c, m) => c = "reconcile" /\ m = frame.off
            BY <1>0 DEF PlainCall
        <3>2. QED
            BY <1>0, <3>1, OpeningFacts, StageDone DEF Stages
    <2>3. NextOf(frame) \in Nat /\ NextOf(frame) > frame.off /\ frame.off \in Nat
        BY <1>0, OpeningFacts
    <2>4. DOMAIN queue' = Stages /\ queue'[0] = queue[0] /\ queue'[1] = queue[1]
        BY <1>0, <2>1, OpeningFacts DEF WorkersTypeOK
    <2>5. WorkNext(0)
        <3>1. \A c, m : PlainCall(pc, frame, 0, c, m) => PlainCall(pc', frame', 0, c, m)
            BY <1>0, <2>1 DEF PlainCall
        <3>2. QED
            BY <1>0, <2>1, <2>4, <3>1, OpeningFacts, StageKeeps DEF Stages, RollingBack
    <2>6. WorkNext(1)
        BY <2>2, <2>4, StageRests
    <2>7. \A c, m : AnswerInStep(pc, frame, c, m) => AnswerInStep(pc', frame', c, m)
        BY <1>0, <2>1, <2>3, AnswersMove
    <2>8. Answered(fut, 1, "execute1", frame.off)
        BY <1>0, OpeningFacts DEF BoundariesInStep
    <2>9. QED
        BY <1>0, <2>1, <2>4, <2>5, <2>6, <2>7, <2>8, MoveOn DEF Opening
<1>3. QED
    BY <1>1, <1>2

\* The row stage 0 was ahead by has been answered.
LEMMA LookaheadStep ==
    ASSUME InStep, GetLookahead
    PROVE  WorkInStep'
<1>0. /\ pc = "lookahead" /\ pc \in Opening /\ Answered(fut, 0, "execute0", NextOf(frame))
      /\ UNCHANGED <<tokens, poisoned, backend, running>>
    BY DEF GetLookahead, Opening, Ready, Answered, sessVars, NextOffset, NextOf
<1>1. CASE \E st : Throw(st)
    BY <1>0, <1>1, OpeningFacts, ThrowStep DEF WorkInStep
<1>2. CASE ~\E st : Throw(st)
    <2>0. IsFrame(frame)
        BY <1>0, OpeningFacts DEF RequestInStep
    <2>1. /\ queue' = queue /\ pc' = "seal" /\ UNCHANGED fut
          /\ frame'.off = frame.off /\ frame'.txn = frame.txn /\ frame'.eval = frame.eval
        BY <1>2, <2>0, FrameFields DEF GetLookahead
    <2>2. running[0] = Idle /\ queue[0] = <<>> /\ running[1] = Idle /\ queue[1] = <<>>
        <3>1. \A c, m : PlainCall(pc, frame, 0, c, m) => c = "execute0" /\ m = NextOf(frame)
            BY <1>0 DEF PlainCall
        <3>2. \A c, m : ~PlainCall(pc, frame, 1, c, m)
            BY <1>0 DEF PlainCall
        <3>3. QED
            BY <1>0, <3>1, <3>2, OpeningFacts, StageDone, StageFree DEF Stages
    <2>3. NextOf(frame) \in Nat /\ NextOf(frame) > frame.off /\ frame.off \in Nat
        BY <1>0, OpeningFacts
    <2>4. DOMAIN queue' = Stages /\ queue'[0] = queue[0] /\ queue'[1] = queue[1]
        BY <1>0, <2>1, OpeningFacts DEF WorkersTypeOK
    <2>5. WorkNext(0) /\ WorkNext(1)
        BY <2>2, <2>4, StageRests
    <2>6. NextOf(frame') = NextOf(frame)
        BY <2>1 DEF NextOf, ChunkLen
    <2>7. \A c, m : AnswerInStep(pc, frame, c, m) => AnswerInStep(pc', frame', c, m)
        BY <1>0, <2>1, <2>3, <2>6, AnswersMove DEF Moves
    <2>8. QED
        BY <1>0, <2>1, <2>4, <2>5, <2>7, MoveOn DEF Opening
<1>3. QED
    BY <1>1, <1>2

\* The commit point, and the two acknowledgements and the decision behind it.
LEMMA SealStep ==
    ASSUME InStep, SealTransaction
    PROVE  WorkInStep'
<1>0. /\ pc = "seal" /\ pc \in Opening
      /\ UNCHANGED <<tokens, poisoned, backend, running>>
    BY DEF SealTransaction, Opening, sessVars
<1>1. CASE \E st : Throw(st)
    BY <1>0, <1>1, OpeningFacts, ThrowStep DEF WorkInStep
<1>2. CASE ~\E st : Throw(st)
    <2>0. IsFrame(frame)
        BY <1>0, OpeningFacts DEF RequestInStep
    <2>1. /\ queue' = queue /\ pc' = "ack0" /\ UNCHANGED fut
          /\ frame'.off = frame.off /\ frame'.txn = frame.txn /\ frame'.eval = frame.eval
        BY <1>2, <2>0, TruncatedFacts DEF SealTransaction
    <2>2. running[0] = Idle /\ queue[0] = <<>> /\ running[1] = Idle /\ queue[1] = <<>>
        <3>1. \A s, c, m : ~PlainCall(pc, frame, s, c, m)
            BY <1>0 DEF PlainCall
        <3>2. QED
            BY <1>0, <3>1, OpeningFacts, StageFree DEF Stages
    <2>3. DOMAIN queue' = Stages /\ queue'[0] = queue[0] /\ queue'[1] = queue[1]
        BY <1>0, <2>1, OpeningFacts DEF WorkersTypeOK
    <2>4. WorkNext(0) /\ WorkNext(1)
        BY <2>2, <2>3, StageRests
    <2>5. \A c, m : AnswerInStep(pc, frame, c, m) => AnswerInStep(pc', frame', c, m)
        BY <1>0, <2>1 DEF AnswerInStep, Opening, Outside, RollingBack, Committing
    <2>6. QED
        BY <1>0, <2>1, <2>3, <2>4, <2>5, MoveOn
<1>3. QED
    BY <1>1, <1>2

\* An acknowledgement or the decision leaves the stages alone.
LEMMA AckStep ==
    ASSUME InStep, pc \in {"ack0", "ack1", "decide"}, pc' \in {"ack1", "decide", "commit"},
           UNCHANGED <<frame, tokens, poisoned, workVars>>
    PROVE  WorkInStep'
<1>1. /\ pc \notin Outside /\ (\A s, c, m : ~PlainCall(pc, frame, s, c, m) /\ ~ClosingCall(pc, frame, s, c, m))
    BY DEF Outside, PlainCall, ClosingCall
<1>2. running[0] = Idle /\ queue[0] = <<>> /\ running[1] = Idle /\ queue[1] = <<>>
    BY <1>1, StageFree DEF Stages
<1>3. UNCHANGED <<backend, running, fut>> /\ DOMAIN queue' = Stages /\ queue' = queue
    BY DEF InStep, WorkInStep, WorkersTypeOK, workVars
<1>4. WorkNext(0) /\ WorkNext(1)
    BY <1>2, <1>3, StageRests
<1>5. \A c, m : AnswerInStep(pc, frame, c, m) => AnswerInStep(pc', frame', c, m)
    BY DEF AnswerInStep, Opening, Outside, RollingBack, Committing
<1>6. QED
    BY <1>3, <1>4, <1>5, MoveOn

\* What the coordinator submits when a chunk of stage 0 has been answered.
LEMMA Stage0Effect ==
    ASSUME WorkersTypeOK, GetStage0
    PROVE  /\ pc = "stage0" /\ Answered(fut, 0, "execute0", frame.off)
           /\ UNCHANGED <<tokens, poisoned, backend, running>>
           /\ \/ \E st : Throw(st)
              \/ /\ UNCHANGED <<frame, fut>> /\ DOMAIN queue' = Stages
                 /\ \E v : queue'[1] = queue[1] \o <<ExecuteTask("execute1", frame, frame.off, v)>>
                 /\ \/ ~MoreRows /\ pc' = "stage1" /\ queue'[0] = queue[0]
                    \/ /\ MoreRows /\ Verifying /\ pc' = "checkpoint"
                       /\ queue'[0] = Append(queue[0], Task("checkpoint", NextOffset))
                    \/ /\ MoreRows /\ ~Verifying /\ pc' = "stage1"
                       /\ queue'[0] = Append(queue[0], Stage0Task(frame, NextOffset))
<1>1. /\ pc = "stage0" /\ Answered(fut, 0, "execute0", frame.off)
      /\ UNCHANGED <<tokens, poisoned, backend, running>>
    BY DEF GetStage0, Ready, Answered, sessVars
<1>2. CASE ~\E st : Throw(st)
    <2> DEFINE v == Got(0, "execute0", frame.off).value
               x == ExecuteTask("execute1", frame, frame.off, v)
               S == Submitted(To(1, x))
               c == Task("checkpoint", NextOffset)
               e == Stage0Task(frame, NextOffset)
    <2>1. /\ queue' = [S EXCEPT ![0] = CASE ~MoreRows -> @
                                         [] MoreRows /\ Verifying  -> Append(@, c)
                                         [] MoreRows /\ ~Verifying -> Append(@, e)]
          /\ pc' = IF MoreRows /\ Verifying THEN "checkpoint" ELSE "stage1"
          /\ UNCHANGED <<frame, fut>>
        BY <1>2 DEF GetStage0
    <2> HIDE DEF c, e, x
    <2>2. DOMAIN S = Stages /\ S[1] = queue[1] \o <<x>> /\ S[0] = queue[0]
        BY Submits
    <2> HIDE DEF S
    <2>3. 0 \in Stages /\ 1 \in Stages
        BY DEF Stages
    <2>4. DOMAIN queue' = Stages /\ queue'[1] = queue[1] \o <<x>>
        BY <2>1, <2>2, <2>3
    <2>5. CASE ~MoreRows
        <3>1. queue'[0] = queue[0]
            BY <2>1, <2>2, <2>3, <2>5
        <3>2. QED
            BY <1>1, <2>1, <2>4, <2>5, <3>1 DEF x
    <2>6. CASE MoreRows /\ Verifying
        <3>1. queue'[0] = Append(queue[0], c)
            BY <2>1, <2>2, <2>3, <2>6
        <3>2. QED
            BY <1>1, <2>1, <2>4, <2>6, <3>1 DEF x, c
    <2>7. CASE MoreRows /\ ~Verifying
        <3>1. queue'[0] = Append(queue[0], e)
            BY <2>1, <2>2, <2>3, <2>7
        <3>2. QED
            BY <1>1, <2>1, <2>4, <2>7, <3>1 DEF x, e
    <2>8. QED
        BY <2>5, <2>6, <2>7
<1>3. QED
    BY <1>1, <1>2

\* A chunk of stage 0 has been answered.
LEMMA Stage0Step ==
    ASSUME InStep, GetStage0
    PROVE  WorkInStep'
<1>0. /\ pc = "stage0" /\ pc \in Opening /\ Answered(fut, 0, "execute0", frame.off)
      /\ UNCHANGED <<tokens, poisoned, backend, running>>
      /\ WorkersTypeOK
    BY Stage0Effect DEF InStep, WorkInStep, Opening
<1>1. CASE \E st : Throw(st)
    BY <1>0, <1>1, OpeningFacts, ThrowStep DEF WorkInStep
<1>2. CASE ~\E st : Throw(st)
    <2> DEFINE n == NextOf(frame)
    <2>1. /\ UNCHANGED <<frame, fut>> /\ DOMAIN queue' = Stages
          /\ \E v : queue'[1] = queue[1] \o <<ExecuteTask("execute1", frame, frame.off, v)>>
          /\ \/ ~MoreRows /\ pc' = "stage1" /\ queue'[0] = queue[0]
             \/ /\ MoreRows /\ Verifying /\ pc' = "checkpoint"
                /\ queue'[0] = Append(queue[0], Task("checkpoint", n))
             \/ /\ MoreRows /\ ~Verifying /\ pc' = "stage1"
                /\ queue'[0] = Append(queue[0], Stage0Task(frame, n))
        <3>1. NextOffset = n
            BY <1>0, OpeningFacts
        <3>2. QED
            BY <1>0, <1>2, <3>1, Stage0Effect
    <2>2. running[0] = Idle /\ queue[0] = <<>> /\ running[1] = Idle /\ queue[1] = <<>>
        <3>1. \A c, m : PlainCall(pc, frame, 0, c, m) => c = "execute0" /\ m = frame.off
            BY <1>0 DEF PlainCall
        <3>2. \A c, m : ~PlainCall(pc, frame, 1, c, m)
            BY <1>0 DEF PlainCall
        <3>3. QED
            BY <1>0, <3>1, <3>2, OpeningFacts, StageDone, StageFree DEF Stages
    <2>3. /\ n \in Nat /\ n > frame.off /\ frame.off \in Nat /\ frame.txn.evaluated \in Nat
          /\ frame.off \in 0..(frame.txn.evaluated - 1)
          /\ MoreRows => n \in 0..(frame.txn.evaluated - 1) /\ n < frame.txn.evaluated
        BY <1>0, OpeningFacts
    <2>4. pc' \in {"stage1", "checkpoint"} /\ pc' \notin RollingBack
        BY <2>1 DEF RollingBack
    <2>5. /\ ~Answered(fut, 1, "execute1", frame.off)
          /\ ~Answered(fut, 0, "execute0", n) /\ ~Answered(fut, 0, "checkpoint", n)
        <3>1. /\ ~AnswerInStep(pc, frame, "execute1", frame.off)
              /\ ~AnswerInStep(pc, frame, "execute0", n) /\ ~AnswerInStep(pc, frame, "checkpoint", n)
            BY <1>0, <2>3 DEF AnswerInStep, Opening
        <3>2. QED
            BY <1>0, <3>1, OpeningFacts, NotAnswered
    <2>6. PICK v : queue'[1] = queue[1] \o <<ExecuteTask("execute1", frame, frame.off, v)>>
        BY <2>1
    <2>7. WorkNext(1) /\ \A i \in 1..Len(queue'[1]) : queue'[1][i].call # "execute0"
        <3> DEFINE x == ExecuteTask("execute1", frame, frame.off, v)
        <3>1. PlainCall(pc', frame, 1, "execute1", frame.off)
            BY <2>4 DEF PlainCall
        <3>2. Alone(pc', frame, 1, x) /\ x.call = "execute1" /\ x.n = frame.off
            BY <2>3, <2>4, <3>1, ChunkTask
        <3>3. queue'[1] = queue[1] \o <<x>>
            BY <2>6
        <3> HIDE DEF x
        <3>4. WorkNext(1) /\ \A i \in 1..Len(queue'[1]) : queue'[1][i] = x
            BY <2>1, <2>2, <2>5, <3>2, <3>3, StageGiven, ZenonT(30)
        <3>5. QED
            BY <3>2, <3>4
    <2>8. WorkNext(0)
        <3>1. CASE ~MoreRows
            BY <2>1, <2>2, <3>1, StageRests
        <3>2. CASE MoreRows /\ Verifying
            <4> DEFINE x == Task("checkpoint", n)
            <4>0. pc' = "checkpoint" /\ queue'[0] = Append(queue[0], x)
                BY <2>1, <3>2
            <4>1. PlainCall(pc', frame, 0, "checkpoint", n)
                BY <4>0 DEF PlainCall
            <4>2. Alone(pc', frame, 0, x) /\ x.call = "checkpoint" /\ x.n = n
                BY <2>4, <4>1, PlainTask
            <4> HIDE DEF x, n
            <4>3. QED
                BY <2>1, <2>2, <2>5, <4>0, <4>2, StageGiven
        <3>3. CASE MoreRows /\ ~Verifying
            <4> DEFINE x == Stage0Task(frame, n)
            <4>0. pc' = "stage1" /\ queue'[0] = Append(queue[0], x)
                BY <2>1, <3>3
            <4>1. PlainCall(pc', frame, 0, "execute0", n)
                BY <2>3, <3>3, <4>0 DEF PlainCall
            <4>2. Alone(pc', frame, 0, x) /\ x.call = "execute0" /\ x.n = n
                BY <2>3, <2>4, <3>3, <4>1, ChunkTask DEF Stage0Task
            <4> HIDE DEF x, n
            <4>3. QED
                BY <2>1, <2>2, <2>5, <4>0, <4>2, StageGiven
        <3>4. QED
            BY <3>1, <3>2, <3>3
    <2>9. \A c, m : AnswerInStep(pc, frame, c, m) => AnswerInStep(pc', frame, c, m)
        BY <1>0, <2>3, <2>4, AnswersMove DEF Moves
    <2>10. QED
        BY <1>0, <2>1, <2>4, <2>7, <2>8, <2>9, MoveOn DEF Opening
<1>3. QED
    BY <1>1, <1>2

\* A chunk of stage 1 has been answered.
LEMMA Stage1Step ==
    ASSUME InStep, GetStage1
    PROVE  WorkInStep'
<1>0. /\ pc = "stage1" /\ pc \in Opening /\ Answered(fut, 1, "execute1", frame.off)
      /\ UNCHANGED <<tokens, poisoned, backend, running>>
    BY Stage1Effect DEF InStep, RequestInStep, Opening, Ready, Answered, sessVars
<1>1. CASE \E st : Throw(st)
    BY <1>0, <1>1, OpeningFacts, ThrowStep DEF WorkInStep
<1>2. CASE ~\E st : Throw(st)
    <2> DEFINE n == NextOf(frame)
               t == Task("reconcile", frame.off)
    <2>1. /\ frame'.txn = frame.txn /\ frame'.eval = frame.eval /\ fut' = fut
          /\ \/ /\ MoreRows /\ frame'.off = frame.off
                /\ \/ pc' = "lookahead" /\ queue' = queue
                   \/ pc' = "reconcile" /\ queue' = Submitted(To(1, t))
             \/ MoreRows /\ pc' = "chunk" /\ frame'.off = n /\ queue' = queue
             \/ ~MoreRows /\ pc' = "seal" /\ frame'.off = frame.off /\ queue' = queue
        <3>1. NextOffset = n /\ IsFrame(frame)
            BY <1>0, OpeningFacts DEF RequestInStep
        <3>2. QED
            BY <1>2, <3>1, Stage1Effect
    <2>2. running[1] = Idle /\ queue[1] = <<>>
        <3>1. \A c, m : PlainCall(pc, frame, 1, c, m) => c = "execute1" /\ m = frame.off
            BY <1>0 DEF PlainCall
        <3>2. QED
            BY <1>0, <3>1, OpeningFacts, StageDone DEF Stages
    <2>3. /\ n \in Nat /\ n > frame.off /\ frame.off \in Nat /\ frame.txn.evaluated \in Nat
          /\ MoreRows <=> n < frame.txn.evaluated
        BY <1>0, OpeningFacts
    <2>4. frame'.off = frame.off => NextOf(frame') = n
        BY <2>1 DEF NextOf, ChunkLen
    <2>5. ~Answered(fut, 1, "reconcile", frame.off)
        <3>1. ~AnswerInStep(pc, frame, "reconcile", frame.off)
            BY <1>0, <2>3 DEF AnswerInStep, Opening
        <3>2. QED
            BY <1>0, <3>1, OpeningFacts, NotAnswered
    <2>6. DOMAIN queue' = Stages /\ queue'[0] = queue[0]
        BY <1>0, <2>1, OpeningFacts, Submits DEF WorkersTypeOK
    <2>7. WorkNext(1) /\ (queue'[1] = queue[1] \/ \A i \in 1..Len(queue'[1]) : queue'[1][i].call # "execute0")
        <3>1. CASE queue' = queue
            BY <2>2, <3>1, StageRests
        <3>2. CASE pc' = "reconcile" /\ queue' = Submitted(To(1, t))
            <4>1. PlainCall(pc', frame, 1, "reconcile", frame.off) /\ pc' \notin RollingBack
                BY <3>2 DEF PlainCall, RollingBack
            <4>2. Alone(pc', frame, 1, t) /\ t.call = "reconcile" /\ t.n = frame.off
                BY <4>1, PlainTask
            <4>3. Alone(pc', frame', 1, t)
                <5>0. frame'.off = frame.off
                    BY <2>1, <3>2
                <5>1. PlainCall(pc', frame', 1, "reconcile", frame.off)
                    BY <3>2, <5>0 DEF PlainCall
                <5>2. t.txn = frame.txn
                    BY DEF Task
                <5> HIDE DEF t
                <5>3. QED
                    BY <2>1, <4>1, <4>2, <5>1, <5>2 DEF Alone, Plain
            <4> HIDE DEF t
            <4>4. queue'[1] = queue[1] \o <<t>>
                BY <1>0, <3>2, OpeningFacts, Submits
            <4>b. ~Answered(fut, 1, t.call, t.n)
                BY <2>5, <4>2
            <4>5. WorkNext(1) /\ \A i \in 1..Len(queue'[1]) : queue'[1][i] = t
                BY ONLY <2>2, <4>b, <4>3, <4>4, StageGiven
            <4>6. QED
                BY <4>2, <4>5
        <3>3. QED
            BY <2>1, <3>1, <3>2
    <2>8. WorkNext(0)
        <3>1. \A c, m : PlainCall(pc, frame, 0, c, m) => PlainCall(pc', frame', 0, c, m)
            BY <1>0, <2>1, <2>3, <2>4 DEF PlainCall
        <3>2. pc' \notin RollingBack
            BY <2>1 DEF RollingBack
        <3>3. QED
            BY <1>0, <2>1, <2>6, <3>1, <3>2, OpeningFacts, StageKeeps DEF Stages
    <2>9. \A c, m : AnswerInStep(pc, frame, c, m) => AnswerInStep(pc', frame', c, m)
        <3>1. \/ frame'.off = frame.off /\ NextOf(frame') = n /\ <<pc, pc'>> \in Moves
              \/ frame'.off = n /\ pc \in {"stage1", "reconcile"} /\ pc' = "chunk"
            BY <1>0, <2>1, <2>4 DEF Moves
        <3>2. QED
            BY <2>3, <3>1, AnswersMove
    <2>10. pc' \in Opening /\ pc' # "draft"
        BY <2>1 DEF Opening
    <2>11. /\ frame'.off = frame.off \/ frame'.off = NextOf(frame)
           /\ pc' = "reconcile" => frame'.off = frame.off
        BY <2>1
    <2> HIDE DEF n, t
    <2>12. QED
        BY <1>0, <2>1, <2>6, <2>7, <2>8, <2>9, <2>10, <2>11, MoveOn
<1>3. QED
    BY <1>1, <1>2

\* The first element of a sequence, as a sequence.
LEMMA FirstOf ==
    ASSUME NEW d, IsSeq(d), Len(d) >= 1
    PROVE  SubSeq(d, 1, 1) = <<d[1]>>
<1>1. PICK S : d \in Seq(S)
    BY IsSeqFacts
<1> DEFINE u == SubSeq(d, 1, 1)
<1>2. \A i \in 1..1 : d[i] \in S
    BY <1>1, ElementOfSeq
<1>3. u \in Seq(S) /\ Len(u) = 1 /\ u[1] = d[1]
    BY <1>2, SubSeqProperties
<1> HIDE DEF u
<1>4. u = <<d[1]>>
    BY <1>3
<1>5. QED
    BY <1>4 DEF u

\* Two sequences with the same first element have the same prefixes up to it.
LEMMA FirstOnly ==
    ASSUME NEW d, NEW e, IsSeq(d), IsSeq(e), Len(d) >= 1, Len(e) >= 1, d[1] = e[1]
    PROVE  SubSeq(d, 1, 0) = SubSeq(e, 1, 0) /\ SubSeq(d, 1, 1) = SubSeq(e, 1, 1)
<1>1. SubSeq(d, 1, 0) = <<>> /\ SubSeq(e, 1, 0) = <<>>
    BY SubSeqEmpty
<1>2. SubSeq(d, 1, 1) = <<d[1]>> /\ SubSeq(e, 1, 1) = <<e[1]>>
    BY FirstOf
<1>3. QED
    BY <1>1, <1>2

\* A worker's tasks, seen from where the coordinator went.
LEMMA WorkSeen ==
    ASSUME NEW at, NEW at2, NEW f, NEW f2, NEW s, NEW r, NEW q, WorkInOrder(at, f, s, r, q),
           at2 \notin RollingBack, \A t : Plain(at, f, s, t) => Plain(at2, f2, s, t),
           \A t : ~Closing(at, f, s, t)
    PROVE  WorkInOrder(at2, f2, s, r, q)
    BY DEF WorkInOrder, Alone

\* The draft's tokens become rows of the transaction.
LEMMA DraftStep ==
    ASSUME InStep, GetDraft
    PROVE  WorkInStep'
<1> DEFINE w == Len(frame.eval) - 1
           r == Got(1, "draft", w)
<1>0. /\ pc = "draft" /\ pc \in Opening /\ Answered(fut, 1, "draft", w)
      /\ UNCHANGED <<tokens, poisoned, backend, running>>
    BY DEF GetDraft, Opening, Ready, Answered, sessVars
<1>1. CASE \E st : Throw(st)
    BY <1>0, <1>1, OpeningFacts, ThrowStep DEF WorkInStep
<1>2. CASE ~\E st : Throw(st)
    <2>0. /\ IsFrame(frame) /\ EvalInStep(frame, tokens) /\ frame.off = 0
          /\ frame.txn.kind = "speculative" /\ AnswersInStep(pc, frame, fut) /\ WorkersTypeOK
          /\ FrameInStep /\ RequestInStep /\ BoundariesInStep /\ StagesInStep /\ EngineInv
        BY <1>0, OpeningFacts DEF RequestInStep, FrameInStep
    <2>1. /\ queue' = queue /\ pc' = "chunk" /\ UNCHANGED fut /\ r.st = "ok"
          /\ frame'.op = frame.op /\ frame'.arg = frame.arg
          /\ frame'.off = frame.off /\ frame'.txn = frame.txn
          /\ frame'.eval = <<frame.eval[1]>> \o r.value
        BY <1>2, <2>0, FrameFields DEF GetDraft
    <2>2. r.value \in [1..(Len(frame.eval) - 1) -> Vocab]
        <3> DEFINE k == <<1, "draft", w>>
        <3>1. k \in DOMAIN fut /\ fut[k] = r /\ k[2] = "draft" /\ k[3] = w
            BY <1>0 DEF Answered, Got
        <3>2. fut[k].value \in [1..k[3] -> Vocab]
            BY <2>0, <2>1, <3>1 DEF AnswersInStep
        <3>3. QED
            BY <3>1, <3>2
    <2>3. frame.op # "append"
        BY <2>0 DEF EvalInStep
    <2> HIDE DEF w, r
    <2>4. EvalInStep(frame', tokens) /\ frame'.eval[1] = frame.eval[1] /\ Len(frame'.eval) = Len(frame.eval)
        <3> DEFINE v == r.value
                   g == frame'
        <3>1. /\ EvalInStep(frame, tokens) /\ frame.op # "append" /\ v \in [1..(Len(frame.eval) - 1) -> Vocab]
              /\ g.op = frame.op /\ g.arg = frame.arg /\ g.txn = frame.txn /\ g.off = frame.off
              /\ g.eval = <<frame.eval[1]>> \o v
            BY <2>0, <2>1, <2>2, <2>3
        <3> HIDE DEF v, g
        <3>2. EvalInStep(g, tokens)
            BY <3>1, DraftFacts
        <3>3. g.eval[1] = frame.eval[1]
            BY <3>1, DraftFacts
        <3>4. Len(g.eval) = Len(frame.eval)
            BY <3>1, DraftFacts, ZenonT(30)
        <3>5. QED
            BY <3>2, <3>3, <3>4 DEF g
    <2>5. /\ IsSeq(frame.eval) /\ IsSeq(frame'.eval) /\ Len(frame.eval) = frame.txn.evaluated
          /\ frame.txn.evaluated \in Nat /\ frame.txn.evaluated >= 1
          /\ NextOf(frame) = 1 /\ ChunkLen(frame, 0) = 1
        <3>1. /\ frame.txn.evaluated \in Nat /\ frame.off \in 0..(frame.txn.evaluated - 1)
            BY <1>0, OpeningFacts
        <3>2. ChunkLen(frame, 0) = 1
            BY <2>0, <3>1, ChunkFacts
        <3>3. NextOf(frame) = 1
            BY <2>0, <3>2 DEF NextOf
        <3>4. IsSeq(frame.eval) /\ IsSeq(frame'.eval) /\ Len(frame.eval) = frame.txn.evaluated
            BY <2>0, <2>4 DEF EvalInStep
        <3>5. frame.txn.evaluated >= 1
            BY <2>0, <3>1
        <3>6. QED
            BY <3>1, <3>2, <3>3, <3>4, <3>5
    <2>6. /\ SubSeq(frame'.eval, 1, 0) = SubSeq(frame.eval, 1, 0)
          /\ SubSeq(frame'.eval, 1, 1) = SubSeq(frame.eval, 1, 1)
        BY <2>4, <2>5, FirstOnly
    <2>7. \A n : ChunkLen(frame', n) = ChunkLen(frame, n)
        BY <2>1 DEF ChunkLen
    <2>8. NextOf(frame') = NextOf(frame)
        BY <2>1, <2>7 DEF NextOf
    <2>9. /\ 0 \in Stages /\ 1 \in Stages /\ \A s \in Stages : s = 0 \/ s = 1
        BY DEF Stages
    <2>10. running[1] = Idle /\ queue[1] = <<>>
        <3>1. \A c, m : PlainCall(pc, frame, 1, c, m) => c = "draft" /\ m = w
            BY <1>0 DEF PlainCall, w
        <3>2. QED
            BY <1>0, <2>9, <3>1, OpeningFacts, StageDone
    <2>11. ASSUME NEW t, Plain("draft", frame, 0, t) PROVE Plain("chunk", frame', 0, t)
        <3>1. t.call = "execute0" /\ t.n = 0 /\ t.txn = frame.txn /\ t.toks = SubSeq(frame.eval, 1, 1)
            <4>1. t.call = "execute0" /\ t.n = 0 /\ t.txn = frame.txn
                BY <2>0, <2>11 DEF Plain, PlainCall
            <4>2. t.toks = SubSeq(frame.eval, t.n + 1, t.n + ChunkLen(frame, t.n))
                BY <2>11, <4>1 DEF Plain
            <4>3. QED
                BY <2>5, <4>1, <4>2
        <3>2. PlainCall("chunk", frame', 0, t.call, t.n)
            BY <2>0, <2>1, <3>1 DEF PlainCall
        <3>3. t.n \in 0..(frame.txn.evaluated - 1) /\ t.toks = SubSeq(frame'.eval, t.n + 1, t.n + ChunkLen(frame', t.n))
            BY <2>5, <2>6, <2>7, <3>1
        <3>4. QED
            BY <2>1, <3>1, <3>2, <3>3 DEF Plain
    <2>12. WorkInOrder("chunk", frame', 0, running[0], queue[0])
        <3>1. WorkInOrder("draft", frame, 0, running[0], queue[0])
            BY <1>0, <2>9, OpeningFacts, Healthy
        <3>2. "chunk" \notin RollingBack /\ \A t : ~Closing("draft", frame, 0, t)
            BY DEF RollingBack, Closing, ClosingCall
        <3>3. QED
            BY <2>11, <3>1, <3>2, WorkSeen
    <2>13. WorkInOrder("chunk", frame', 1, running[1], queue[1])
        BY <2>10, NoWork
    <2>14. ASSUME NEW s \in Stages PROVE BackendInStep("chunk", frame', tokens, fut, s, backend[s])
        <3> DEFINE b == backend[s]
                   base == SubSeq(tokens, 1, frame.txn.base_target)
        <3>1. Within(b, base, frame.txn, frame.eval) /\ Len(b.ptoks) <= 1
            <4>1. BackendInStep(pc, frame, tokens, fut, s, b)
                BY <1>0, OpeningFacts, Healthy
            <4>2. pc \in InTxn \ RollingBack /\ pc = "draft"
                BY <1>0, OpeningFacts
            <4>3. QED
                BY <4>1, <4>2 DEF BackendInStep
        <3> HIDE DEF b, base
        <3>2. Within(b, base, frame.txn, frame'.eval)
            <4>1. CASE b = AtRest(base, frame.txn.epoch - 1)
                BY <4>1 DEF Within
            <4>2. CASE b # AtRest(base, frame.txn.epoch - 1)
                <5>1. /\ DOMAIN b = DOMAIN FreshBackend
                      /\ b.rows = base /\ b.epoch = frame.txn.epoch - 1 /\ b.prov = frame.txn.epoch
                      /\ IsSeq(b.ptoks) /\ b.ptoks = SubSeq(frame.eval, 1, Len(b.ptoks))
                    BY <3>1, <4>2 DEF Within
                <5> DEFINE l == Len(b.ptoks)
                <5>2. l \in Nat /\ l <= 1
                    BY <3>1, <5>1, LenProperties DEF IsSeq
                <5> HIDE DEF l
                <5>3. l = 0 \/ l = 1
                    BY <5>2
                <5>4. b.ptoks = SubSeq(frame'.eval, 1, l)
                    <6>1. b.ptoks = SubSeq(frame.eval, 1, l)
                        BY <5>1 DEF l
                    <6>2. QED
                        BY <2>6, <5>3, <6>1
                <5>5. l <= Len(frame'.eval)
                    BY <2>4, <2>5, <5>3
                <5>6. QED
                    BY <5>1, <5>4, <5>5 DEF Within, l
            <4>3. QED
                BY <4>1, <4>2
        <3>3. "chunk" \notin RollingBack \cup Committing \cup {"reset", "draft"}
            BY DEF RollingBack, Committing
        <3>4. QED
            BY <2>1, <3>2, <3>3 DEF BackendInStep, b, base
    <2>15. AnswersInStep("chunk", frame', fut)
        <3>1. ASSUME NEW c, NEW m, AnswerInStep("draft", frame, c, m)
              PROVE  AnswerInStep("chunk", frame', c, m)
            BY <2>0, <2>1, <2>5, <2>8, <3>1, AnswersMove DEF Moves
        <3>2. QED
            BY <1>0, <2>0, <3>1 DEF AnswersInStep
    <2>16. StagesInStep'
        <3>1. ASSUME NEW s \in Stages PROVE StageInStep(s)'
            <4>1. WorkUnanswered(fut, s, running[s], queue[s])
                BY <1>0, OpeningFacts, Healthy
            <4>2. WorkInOrder("chunk", frame', s, running[s], queue[s])
                BY <2>9, <2>12, <2>13
            <4>3. BackendInStep("chunk", frame', tokens, fut, s, backend[s])
                BY <2>14
            <4>4. RestsAt(s)'
                BY <2>1 DEF RestsAt, Outside
            <4>5. QED
                BY <1>0, <2>1, <4>1, <4>2, <4>3, <4>4 DEF StageInStep
        <3>2. QED
            BY <2>1, <2>15, <3>1 DEF StagesInStep
    <2>17. WorkersTypeOK'
        BY <1>0, <2>0, <2>1 DEF WorkersTypeOK
    <2>18. BoundariesInStep'
        <3>1. pc \notin Outside /\ pc' \notin Outside /\ pc' # "reconcile"
            BY <1>0, <2>1 DEF Outside
        <3>2. QED
            BY <1>0, <2>0, <2>1, <2>8, <3>1 DEF BoundariesInStep
    <2>19. QED
        BY <2>16, <2>17, <2>18 DEF WorkInStep
<1>3. QED
    BY <1>1, <1>2
-----------------------------------------------------------------------------
(* Commit and rollback.                                                    *)

\* A request ends with both stages at rest.
LEMMA EndHealthy ==
    ASSUME WorkersTypeOK, pc' = "idle", fut' = <<>>, UNCHANGED <<backend, queue, running>>,
           \A s \in Stages : running[s] = Idle /\ queue[s] = <<>>,
           ~poisoned' => \A s \in Stages : RestsAt(s)'
    PROVE  WorkInStep'
<1>1. WorkersTypeOK'
    BY DEF WorkersTypeOK
<1>2. DOMAIN <<>> = {} /\ Idle.call # "execute0" /\ Len(<<>>) = 0
    BY DEF Idle
<1>3. BoundariesInStep'
    <2>1. \A s \in Stages : running'[s].call # "execute0" /\ Len(queue'[s]) = 0
        BY <1>2
    <2>2. DOMAIN fut' = {}
        BY <1>2
    <2>3. QED
        BY <2>1, <2>2 DEF BoundariesInStep
<1>4. ASSUME ~poisoned' PROVE AnswersInStep(pc', frame', fut') /\ \A s \in Stages : StageInStep(s)'
    <2>1. AnswersInStep(pc', frame', fut')
        BY <1>2 DEF AnswersInStep
    <2>2. ASSUME NEW s \in Stages PROVE StageInStep(s)'
        <3>1. /\ WorkInOrder(pc', frame', s, running'[s], queue'[s])
              /\ WorkUnanswered(fut', s, running'[s], queue'[s])
            BY NoWork
        <3>2. BackendInStep(pc', frame', tokens', fut', s, backend'[s])
            <4>1. "idle" \notin InTxn \cup RollingBack \cup Committing \cup {"reset", "draft"}
                BY DEF InTxn, Opening, RollingBack, Committing
            <4>2. QED
                BY <4>1 DEF BackendInStep
        <3>3. QED
            BY <1>4, <3>1, <3>2 DEF StageInStep
    <2>3. QED
        BY <2>1, <2>2
<1>5. QED
    BY <1>1, <1>3, <1>4 DEF WorkInStep, StagesInStep

\* A request ends with the executor poisoned, stage 1 perhaps still at work.
LEMMA EndPoisoned ==
    ASSUME WorkersTypeOK, BoundariesInStep, pc' = "idle", fut' = <<>>, poisoned' = TRUE,
           UNCHANGED <<backend, queue, running>>, running[0] = Idle, queue[0] = <<>>
    PROVE  WorkInStep'
<1>1. WorkersTypeOK'
    BY DEF WorkersTypeOK
<1>2. DOMAIN <<>> = {} /\ Idle.call # "execute0" /\ Len(<<>>) = 0
    BY DEF Idle
<1>3. BoundariesInStep'
    <2>1. ASSUME NEW s \in Stages
          PROVE  /\ running'[s].call # "execute0"
                 /\ \A i \in 1..Len(queue'[s]) : queue'[s][i].call # "execute0"
        <3>1. CASE s = 0
            BY <1>2, <3>1
        <3>2. CASE s = 1
            BY <3>2 DEF BoundariesInStep
        <3>3. QED
            BY <3>1, <3>2 DEF Stages
    <2>2. DOMAIN fut' = {}
        BY <1>2
    <2>3. QED
        BY <2>1, <2>2 DEF BoundariesInStep
<1>4. QED
    BY <1>1, <1>3 DEF WorkInStep, StagesInStep

\* The engine has committed; the stages are told to.
LEMMA CommitStep ==
    ASSUME InStep, CommitTransaction
    PROVE  WorkInStep'
<1> DEFINE n == CommitOf(frame)
           t == Task("commit", n)
<1>1. /\ pc = "commit" /\ pc' = "commit0" /\ queue' = Submitted(ToBoth(t))
      /\ UNCHANGED <<frame, fut, tokens, poisoned, backend, running>>
    BY DEF CommitTransaction, sessVars, StateCommit, Verifying, CommitOf
<1>2. /\ pc \in InTxn \ RollingBack /\ pc \notin Outside /\ 0 \in Stages /\ 1 \in Stages
      /\ \A s \in Stages : s = 0 \/ s = 1
      /\ BoundariesInStep /\ WorkersTypeOK /\ StagesInStep
    BY <1>1 DEF InTxn, RollingBack, Outside, Stages, InStep, WorkInStep
<1>3. /\ ~poisoned /\ AnswersInStep(pc, frame, fut)
      /\ \A s \in Stages : BackendInStep(pc, frame, tokens, fut, s, backend[s])
    BY <1>2, Healthy
<1>4. \A s \in Stages : running[s] = Idle /\ queue[s] = <<>>
    <2>1. \A s, c, m : ~PlainCall(pc, frame, s, c, m) /\ ~ClosingCall(pc, frame, s, c, m)
        BY <1>1 DEF PlainCall, ClosingCall
    <2>2. QED
        BY <1>2, <2>1, StageFree
<1>5. ASSUME NEW s \in Stages PROVE Alone("commit0", frame, s, t) /\ t.call = "commit" /\ t.n = n
    <2>1. ClosingCall("commit0", frame, s, "commit", n)
        BY DEF ClosingCall
    <2>2. QED
        BY <2>1, PlainTask
<1> HIDE DEF t
<1>6. ASSUME NEW s \in Stages PROVE ~Answered(fut, s, "commit", n)
    <2>1. ~AnswerInStep(pc, frame, "commit", n)
        BY <1>1 DEF AnswerInStep, Committing
    <2>2. QED
        BY <1>3, <2>1, NotAnswered
<1>7. DOMAIN queue' = Stages /\ queue'[0] = queue[0] \o <<t>> /\ queue'[1] = queue[1] \o <<t>>
    BY <1>1, <1>2, Submits
<1> HIDE DEF n
<1>8. ASSUME NEW s \in Stages PROVE WorkNext(s) /\ \A i \in 1..Len(queue'[s]) : queue'[s][i] = t
    <2>1. ~Answered(fut, s, t.call, t.n) /\ queue'[s] = queue[s] \o <<t>> /\ Alone(pc', frame', s, t)
        BY <1>1, <1>2, <1>5, <1>6, <1>7
    <2>2. QED
        BY <1>4, <2>1, StageGiven
<1>9. WorkersTypeOK'
    BY <1>1, <1>2, <1>7, <1>8 DEF WorkersTypeOK, WorkNext
<1>10. BoundariesInStep'
    <2>1. pc' \notin Outside /\ pc' # "reconcile" /\ t.call # "execute0" /\ NextOf(frame') = NextOf(frame)
        BY <1>1, <1>2, <1>5 DEF Outside
    <2>2. QED
        BY <1>1, <1>2, <1>8, <2>1 DEF BoundariesInStep
<1>11. AnswersInStep("commit0", frame, fut)
    <2>1. ASSUME NEW c, NEW m, AnswerInStep("commit", frame, c, m) PROVE AnswerInStep("commit0", frame, c, m)
        BY <2>1 DEF AnswerInStep, RollingBack, Committing, Opening, Outside
    <2>2. QED
        BY <1>1, <1>3, <2>1 DEF AnswersInStep
<1>12. ASSUME NEW s \in Stages PROVE StageInStep(s)'
    <2>1. BackendInStep("commit0", frame, tokens, fut, s, backend[s])
        <3>1. Within(backend[s], SubSeq(tokens, 1, frame.txn.base_target), frame.txn, frame.eval)
            BY <1>2, <1>3 DEF BackendInStep
        <3>2. "commit0" \notin InTxn \cup RollingBack \cup {"reset", "draft"}
            BY DEF InTxn, Opening, RollingBack
        <3>3. ~Answered(fut, s, "commit", CommitOf(frame))
            BY <1>6 DEF n
        <3>4. QED
            BY <3>1, <3>2, <3>3 DEF BackendInStep, Closed
    <2>2. QED
        BY <1>1, <1>8, <2>1 DEF StageInStep, WorkNext, RestsAt, Outside
<1>13. QED
    BY <1>1, <1>9, <1>10, <1>11, <1>12 DEF WorkInStep, StagesInStep

\* Stage 0 has been heard of: its commit or rollback was accepted.
LEMMA HalfStep ==
    ASSUME InStep, NEW call, NEW n,
           \/ call = "commit" /\ n = CommitOf(frame) /\ pc = "commit0" /\ pc' = "commit1"
           \/ call = "rollback" /\ n = 0 /\ pc = "rollback0" /\ pc' = "rollback1",
           Answered(fut, 0, call, n), fut[<<0, call, n>>].st = "ok",
           UNCHANGED <<frame, fut, tokens, poisoned, backend, queue, running>>
    PROVE  WorkInStep'
<1>1. /\ pc \notin Outside /\ 0 \in Stages /\ 1 \in Stages /\ \A s \in Stages : s = 0 \/ s = 1
      /\ BoundariesInStep /\ WorkersTypeOK /\ StagesInStep
      /\ pc \in RollingBack \cup Committing \cup {"reset"}
    BY DEF Outside, Stages, InStep, WorkInStep, RollingBack, Committing
<1>2. /\ ~poisoned /\ AnswersInStep(pc, frame, fut)
      /\ \A s \in Stages : BackendInStep(pc, frame, tokens, fut, s, backend[s])
    BY <1>1, Healthy
<1>3. WorkNext(0)
    <2>1. \A c, m : ClosingCall(pc, frame, 0, c, m) => c = call /\ m = n
        BY DEF ClosingCall
    <2>2. running[0] = Idle /\ queue[0] = <<>>
        BY <1>1, <2>1, StageDone
    <2>3. QED
        BY <2>2, StageRests
<1>4. WorkNext(1)
    <2>1. /\ \A c, m : PlainCall(pc, frame, 1, c, m) => PlainCall(pc', frame', 1, c, m)
          /\ \A c, m : ClosingCall(pc, frame, 1, c, m) => ClosingCall(pc', frame', 1, c, m)
          /\ pc' \in RollingBack => pc \in RollingBack
        BY DEF PlainCall, ClosingCall, RollingBack
    <2>2. QED
        BY <1>1, <2>1, StageKeeps
<1>5. WorkersTypeOK'
    BY <1>1 DEF WorkersTypeOK
<1>6. BoundariesInStep'
    <2>1. pc' \notin Outside /\ pc' # "reconcile" /\ NextOf(frame') = NextOf(frame)
        BY DEF Outside
    <2>2. QED
        BY <1>1, <2>1 DEF BoundariesInStep
<1>7. AnswersInStep(pc', frame', fut')
    <2>1. ASSUME NEW c, NEW m, AnswerInStep(pc, frame, c, m) PROVE AnswerInStep(pc', frame', c, m)
        BY <2>1 DEF AnswerInStep, RollingBack, Committing, Opening, Outside
    <2>2. QED
        BY <1>2, <2>1 DEF AnswersInStep
<1>8. ASSUME NEW s \in Stages PROVE StageInStep(s)'
    <2>1. BackendInStep(pc', frame', tokens', fut', s, backend'[s])
        <3>1. CASE call = "commit"
            <4>1. /\ pc \in Committing /\ pc' \in Committing
                  /\ pc' \notin InTxn \cup RollingBack \cup {"reset", "draft"}
                BY <3>1 DEF Committing, InTxn, Opening, RollingBack
            <4>2. CASE s = 0
                BY <1>2, <3>1, <4>1, <4>2 DEF BackendInStep, Closed, Committing
            <4>3. CASE s = 1
                BY <1>2, <3>1, <4>1, <4>3 DEF BackendInStep
            <4>4. QED
                BY <1>1, <4>2, <4>3
        <3>2. CASE call = "rollback"
            <4>1. /\ pc \in RollingBack /\ pc' \in RollingBack
                  /\ pc' \notin Committing \cup {"reset", "draft"}
                BY <3>2 DEF Committing, RollingBack
            <4>2. CASE s = 0
                BY <1>2, <3>2, <4>1, <4>2 DEF BackendInStep, Closed
            <4>3. CASE s = 1
                BY <1>2, <3>2, <4>1, <4>3 DEF BackendInStep
            <4>4. QED
                BY <1>1, <4>2, <4>3
        <3>3. QED
            BY <3>1, <3>2
    <2>2. RestsAt(s)'
        BY DEF RestsAt, Outside
    <2>3. QED
        BY <1>1, <1>3, <1>4, <2>1, <2>2 DEF StageInStep, WorkNext
<1>9. QED
    BY <1>5, <1>6, <1>7, <1>8 DEF WorkInStep, StagesInStep

\* Stage 0's commit has been answered.
LEMMA Commit0Step ==
    ASSUME InStep, GetCommit0
    PROVE  WorkInStep'
<1> DEFINE n == CommitOf(frame)
<1>1. /\ pc = "commit0" /\ Answered(fut, 0, "commit", n)
      /\ \/ /\ fut[<<0, "commit", n>>].st = "ok" /\ pc' = "commit1"
            /\ UNCHANGED <<frame, fut, tokens, poisoned, backend, queue, running>>
         \/ /\ pc' = "idle" /\ fut' = <<>> /\ poisoned' = TRUE
            /\ UNCHANGED <<backend, queue, running>>
    BY DEF GetCommit0, End, Ready, Got, Answered, StateCommit, Verifying, CommitOf
<1> HIDE DEF n
<1>2. CASE pc' = "commit1"
    BY <1>1, <1>2, HalfStep DEF n
<1>3. CASE pc' = "idle"
    <2>1. \A c, m : ClosingCall(pc, frame, 0, c, m) => c = "commit" /\ m = n
        BY <1>1 DEF ClosingCall, n
    <2>2. pc \notin Outside /\ 0 \in Stages /\ pc \in RollingBack \cup Committing \cup {"reset"}
        BY <1>1 DEF Outside, Stages, Committing
    <2>3. running[0] = Idle /\ queue[0] = <<>>
        BY <1>1, <2>1, <2>2, StageDone
    <2>4. QED
        BY <1>1, <1>3, <2>3, EndPoisoned DEF InStep, WorkInStep
<1>4. QED
    BY <1>1, <1>2, <1>3

\* Stage 0's rollback has been answered.
LEMMA Rollback0Step ==
    ASSUME InStep, GetRollback0
    PROVE  WorkInStep'
<1>1. /\ pc = "rollback0" /\ Answered(fut, 0, "rollback", 0)
      /\ \/ /\ fut[<<0, "rollback", 0>>].st = "ok" /\ pc' = "rollback1"
            /\ UNCHANGED <<frame, fut, tokens, poisoned, backend, queue, running>>
         \/ /\ pc' = "idle" /\ fut' = <<>> /\ poisoned' = TRUE
            /\ UNCHANGED <<backend, queue, running>>
    BY DEF GetRollback0, End, Ready, Got, Answered
<1>2. CASE pc' = "rollback1"
    BY <1>1, <1>2, HalfStep
<1>3. CASE pc' = "idle"
    <2>1. \A c, m : ClosingCall(pc, frame, 0, c, m) => c = "rollback" /\ m = 0
        BY <1>1 DEF ClosingCall
    <2>2. pc \notin Outside /\ 0 \in Stages /\ pc \in RollingBack \cup Committing \cup {"reset"}
        BY <1>1 DEF Outside, Stages, RollingBack
    <2>3. running[0] = Idle /\ queue[0] = <<>>
        BY <1>1, <2>1, <2>2, StageDone
    <2>4. QED
        BY <1>1, <1>3, <2>3, EndPoisoned DEF InStep, WorkInStep
<1>4. QED
    BY <1>1, <1>2, <1>3

\* Stage 1 has been heard of as well: neither stage has anything left to do.
LEMMA LastAnswer ==
    ASSUME InStep, NEW call, NEW n,
           \/ call = "commit" /\ n = CommitOf(frame) /\ pc = "commit1"
           \/ call = "rollback" /\ n = 0 /\ pc = "rollback1",
           Answered(fut, 1, call, n)
    PROVE  \A s \in Stages : running[s] = Idle /\ queue[s] = <<>>
<1>1. /\ pc \notin Outside /\ 0 \in Stages /\ 1 \in Stages /\ \A s \in Stages : s = 0 \/ s = 1
      /\ pc \in RollingBack \cup Committing \cup {"reset"}
    BY DEF Outside, Stages, RollingBack, Committing
<1>2. \A c, m : ~PlainCall(pc, frame, 0, c, m) /\ ~ClosingCall(pc, frame, 0, c, m)
    BY DEF PlainCall, ClosingCall
<1>3. \A c, m : ClosingCall(pc, frame, 1, c, m) => c = call /\ m = n
    BY DEF ClosingCall
<1>4. QED
    BY <1>1, <1>2, <1>3, StageFree, StageDone

\* Stage 1's commit has been answered; the tokens are recorded.
LEMMA Commit1Step ==
    ASSUME InStep, GetCommit1
    PROVE  WorkInStep'
<1> DEFINE n == CommitOf(frame)
<1>0. EngineInv /\ RequestInStep /\ FrameInStep /\ WorkersTypeOK /\ pc = "commit1"
    BY DEF InStep, WorkInStep, GetCommit1
<1>1. /\ Answered(fut, 1, "commit", n)
      /\ pc' = "idle" /\ fut' = <<>> /\ UNCHANGED <<engineVars, backend, queue, running>>
      /\ \/ poisoned' = TRUE
         \/ /\ fut[<<1, "commit", n>>].st = "ok" /\ poisoned' = poisoned
            /\ tokens' = Recorded(frame, tokens, txn.publish)
    BY DEF GetCommit1, End, Ready, Got, Answered, StateCommit, Verifying, CommitOf, Recorded
<1>2. \A s \in Stages : running[s] = Idle /\ queue[s] = <<>>
    <2>1. Answered(fut, 1, "commit", CommitOf(frame))
        BY <1>1
    <2>2. QED
        BY <1>0, <2>1, LastAnswer
<1>3. ASSUME ~poisoned', NEW s \in Stages PROVE RestsAt(s)'
    <2>0. pc \in Committing /\ pc \notin Outside /\ pc \notin InTxn
        BY <1>0 DEF Committing, Outside, InTxn, Opening, RollingBack
    <2>1. /\ IsSeq(tokens) /\ EvalInStep(frame, tokens) /\ n \in 1..Len(frame.eval)
          /\ frontiers.epoch = frame.txn.epoch /\ frontiers.target = frame.txn.base_target + n
          /\ txn.publish = IF frame.op = "append" THEN 0 ELSE n
        BY <1>0, <2>0 DEF FrameInStep
    <2>2. frame.op = "append" => frame.arg \in Seq(Vocab)
        BY <1>0, RequestFacts DEF RequestInStep
    <2>3. tokens' = Recorded(frame, tokens, n)
        BY <1>1, <1>3, <2>1 DEF Recorded
    <2>4. SubSeq(tokens', 1, frame.txn.base_target + n) =
              SubSeq(tokens, 1, frame.txn.base_target) \o SubSeq(frame.eval, 1, n)
        BY <2>1, <2>2, <2>3, RecordedFacts
    <2>5. BackendInStep(pc, frame, tokens, fut, s, backend[s])
        BY <2>0, Healthy
    <2>6. backend[s] = AtRest(SubSeq(tokens, 1, frame.txn.base_target) \o SubSeq(frame.eval, 1, n), frame.txn.epoch)
        <3>1. CASE s = 0
            BY <1>0, <2>0, <2>5, <3>1 DEF BackendInStep, Closed
        <3>2. CASE s = 1
            BY <1>0, <1>1, <1>3, <2>0, <2>5, <3>2 DEF BackendInStep, Closed
        <3>3. QED
            BY <3>1, <3>2 DEF Stages
    <2>7. frontiers' = frontiers /\ backend' = backend
        BY <1>1 DEF engineVars
    <2> HIDE DEF n
    <2>8. QED
        BY <2>1, <2>4, <2>6, <2>7 DEF RestsAt
<1>4. QED
    BY <1>0, <1>1, <1>2, <1>3, EndHealthy

\* Stage 1's rollback has been answered; the engine rolls back.
LEMMA Rollback1Step ==
    ASSUME InStep, GetRollback1
    PROVE  WorkInStep'
<1>0. EngineInv /\ RequestInStep /\ FrameInStep /\ WorkersTypeOK /\ pc = "rollback1"
    BY DEF InStep, WorkInStep, GetRollback1
<1>1. /\ Answered(fut, 1, "rollback", 0)
      /\ pc' = "idle" /\ fut' = <<>> /\ UNCHANGED <<tokens, backend, queue, running>>
      /\ \/ poisoned' = TRUE
         \/ fut[<<1, "rollback", 0>>].st = "ok" /\ Rollback
    BY DEF GetRollback1, End, Ready, Got, Answered
<1>2. \A s \in Stages : running[s] = Idle /\ queue[s] = <<>>
    BY <1>0, <1>1, LastAnswer
<1>3. ASSUME ~poisoned', NEW s \in Stages PROVE RestsAt(s)'
    <2>0. pc \in RollingBack /\ pc \notin Outside /\ pc \in InTxn
        BY <1>0 DEF Outside, InTxn, RollingBack
    <2>1. /\ active /\ frame.txn.epoch = txn.epoch /\ frame.txn.base_target = txn.base_target
          /\ txn.base_target = frontiers.target
        BY <1>0, <2>0 DEF FrameInStep, EngineInv, OpenTxnFitsFrontiers
    <2>2. BackendInStep(pc, frame, tokens, fut, s, backend[s])
        BY <2>0, Healthy
    <2>3. backend[s] = AtRest(SubSeq(tokens, 1, frame.txn.base_target), frame.txn.epoch)
        <3>1. CASE s = 0
            BY <1>0, <2>0, <2>2, <3>1 DEF BackendInStep, Closed
        <3>2. CASE s = 1
            BY <1>0, <1>1, <1>3, <2>0, <2>2, <3>2 DEF BackendInStep, Closed
        <3>3. QED
            BY <3>1, <3>2 DEF Stages
    <2>4. frontiers'.target = frontiers.target /\ frontiers'.epoch = txn.epoch
        BY <1>0, <1>1, <1>3 DEF Rollback, EngineInv, EngineTypeOK
    <2>5. QED
        BY <1>1, <2>1, <2>3, <2>4 DEF RestsAt
<1>4. QED
    BY <1>0, <1>1, <1>2, <1>3, EndHealthy
-----------------------------------------------------------------------------
(* Requests that open no transaction.                                      *)

\* Between requests a healthy executor's stages have nothing to do and no call
\* has been answered.
LEMMA OutsideFacts ==
    ASSUME InStep, pc \in Outside, ~poisoned
    PROVE  /\ \A s \in Stages : running[s] = Idle /\ queue[s] = <<>>
           /\ \A s \in Stages :
                 backend[s] = AtRest(SubSeq(tokens, 1, frontiers.target), frontiers.epoch)
           /\ DOMAIN fut = {}
<1>1. \A s, c, m : ~PlainCall(pc, frame, s, c, m) /\ ~ClosingCall(pc, frame, s, c, m)
    BY DEF PlainCall, ClosingCall, Outside
<1>2. \A s \in Stages : running[s] = Idle /\ queue[s] = <<>>
    BY <1>1, StageFree
<1>3. \A s \in Stages : StageInStep(s)
    BY Healthy
<1>4. DOMAIN fut = {}
    BY Healthy DEF AnswersInStep, AnswerInStep
<1>5. QED
    BY <1>2, <1>3, <1>4 DEF StageInStep, RestsAt

\* A request that is turned away, or needs no stage, ends.
LEMMA EndEnter ==
    ASSUME InStep, pc = "enter", pc' = "idle", fut' = <<>>, UNCHANGED <<poisoned, backend, queue, running>>,
           ~poisoned => \A s \in Stages : RestsAt(s)'
    PROVE  WorkInStep'
<1>0. pc \in Outside /\ WorkersTypeOK /\ BoundariesInStep
    BY DEF Outside, InStep, WorkInStep
<1>1. CASE ~poisoned
    BY <1>0, <1>1, OutsideFacts, EndHealthy
<1>2. CASE poisoned
    <2>1. WorkersTypeOK'
        BY <1>0 DEF WorkersTypeOK
    <2>2. DOMAIN fut' = {} /\ pc' # "reconcile"
        OBVIOUS
    <2>3. BoundariesInStep'
        BY <1>0, <2>2 DEF BoundariesInStep
    <2>4. QED
        BY <1>2, <2>1, <2>3 DEF WorkInStep, StagesInStep
<1>3. QED
    BY <1>1, <1>2

\* A request that is turned away changes nothing.
LEMMA RefuseStep ==
    ASSUME InStep, RefuseRequest
    PROVE  WorkInStep'
<1>1. /\ pc = "enter" /\ pc' = "idle" /\ fut' = <<>>
      /\ UNCHANGED <<frontiers, tokens, poisoned, backend, queue, running>>
    BY DEF RefuseRequest, End, engineVars, sessVars
<1>2. ~poisoned => \A s \in Stages : RestsAt(s)'
    BY <1>1, OutsideFacts DEF RestsAt, Outside
<1>3. QED
    BY <1>1, <1>2, EndEnter

\* A token is appended behind the evaluated ones.
LEMMA PrefixOfAppend ==
    ASSUME NEW ts, IsSeq(ts), NEW x, NEW n \in 0..Len(ts)
    PROVE  SubSeq(Append(ts, x), 1, n) = SubSeq(ts, 1, n)
<1>1. PICK S : ts \in Seq(S)
    BY IsSeqFacts
<1> DEFINE A == S \cup {x}
           u == Append(ts, x)
<1>2. ts \in Seq(A) /\ x \in A /\ Len(ts) \in Nat /\ \A i \in 1..Len(ts) : ts[i] \in A
    <2>1. \A i \in 1..Len(ts) : ts[i] \in A
        BY <1>1, ElementOfSeq
    <2>2. QED
        BY <1>1, <2>1
<1> HIDE DEF A
<1>3. u \in Seq(A) /\ Len(u) = Len(ts) + 1 /\ \A i \in 1..Len(ts) : u[i] = ts[i]
    BY <1>2, AppendProperties
<1> HIDE DEF u
<1>4. n \in Int /\ 1 \in Int /\ (\A i \in 1..n : ts[i] \in A) /\ (\A i \in 1..n : u[i] = ts[i])
    BY <1>2, <1>3
<1>5. \A i \in 1..n : u[i] \in A
    BY <1>4
<1>6. /\ SubSeq(ts, 1, n) \in Seq(A) /\ Len(SubSeq(ts, 1, n)) = n
      /\ \A i \in 1..n : SubSeq(ts, 1, n)[i] = ts[i]
    BY <1>2, <1>4, SubSeqProperties
<1>7. /\ SubSeq(u, 1, n) \in Seq(A) /\ Len(SubSeq(u, 1, n)) = n
      /\ \A i \in 1..n : SubSeq(u, 1, n)[i] = u[i]
    BY <1>2, <1>4, <1>5, SubSeqProperties
<1>8. SubSeq(u, 1, n) = SubSeq(ts, 1, n)
    BY <1>4, <1>6, <1>7, SeqEqual
<1>9. QED
    BY <1>8 DEF u

\* Seeding appends a token the stages have not seen.
LEMMA SeedStep ==
    ASSUME InStep, SeedDecode
    PROVE  WorkInStep'
<1>0. EngineInv /\ FrameInStep /\ pc = "enter"
    BY DEF InStep, SeedDecode
<1>1. /\ pc = "enter" /\ pc' = "idle" /\ fut' = <<>>
      /\ UNCHANGED <<poisoned, backend, queue, running>>
      /\ \/ UNCHANGED <<frontiers, tokens>>
         \/ SeedDecodePending /\ tokens' = Append(tokens, sample)
    BY DEF SeedDecode, End, engineVars
<1>2. ASSUME ~poisoned, NEW s \in Stages PROVE RestsAt(s)'
    <2>1. backend[s] = AtRest(SubSeq(tokens, 1, frontiers.target), frontiers.epoch)
        BY <1>0, <1>2, OutsideFacts DEF Outside
    <2>2. CASE UNCHANGED <<frontiers, tokens>>
        BY <1>1, <2>1, <2>2 DEF RestsAt
    <2>3. CASE SeedDecodePending /\ tokens' = Append(tokens, sample)
        <3>1. frontiers'.target = frontiers.target /\ frontiers'.epoch = frontiers.epoch
            BY <1>0, <2>3 DEF SeedDecodePending, EngineInv, EngineTypeOK
        <3>2. frontiers.target \in 0..Len(tokens) /\ IsSeq(tokens)
            <4>1. frontiers.canonical = Len(tokens) /\ frontiers.canonical = frontiers.target /\ IsSeq(tokens)
                BY <1>0, <1>2, <2>3 DEF FrameInStep, Outside, SeedDecodePending
            <4>2. Len(tokens) \in Nat
                BY <4>1, LenProperties DEF IsSeq
            <4>3. QED
                BY <4>1, <4>2
        <3>3. SubSeq(tokens', 1, frontiers.target) = SubSeq(tokens, 1, frontiers.target)
            BY <2>3, <3>2, PrefixOfAppend
        <3>4. QED
            BY <1>1, <2>1, <3>1, <3>3 DEF RestsAt
    <2>4. QED
        BY <1>1, <2>2, <2>3
<1>3. QED
    BY <1>1, <1>2, EndEnter

\* A reset goes to both stages.
LEMMA BeginResetStep ==
    ASSUME InStep, BeginReset
    PROVE  WorkInStep'
<1>0. /\ pc = "enter" /\ pc \in Outside /\ WorkersTypeOK /\ BoundariesInStep
      /\ UNCHANGED <<frontiers, tokens, poisoned, backend, running>>
    BY DEF InStep, WorkInStep, BeginReset, Outside, engineVars, sessVars
<1>1. CASE pc' = "idle" /\ fut' = <<>> /\ queue' = queue
    <2>1. ~poisoned => \A s \in Stages : RestsAt(s)'
        BY <1>0, OutsideFacts DEF RestsAt
    <2>2. QED
        BY <1>0, <1>1, <2>1, EndEnter
<1>2. CASE ~(pc' = "idle" /\ fut' = <<>> /\ queue' = queue)
    <2> DEFINE t == Task("reset", 0)
    <2>1. pc' = "reset" /\ ~poisoned /\ queue' = Submitted(ToBoth(t)) /\ UNCHANGED <<frame, fut>>
        BY <1>2 DEF BeginReset, End
    <2>2. /\ 0 \in Stages /\ 1 \in Stages /\ \A s \in Stages : s = 0 \/ s = 1
        BY DEF Stages
    <2>3. /\ DOMAIN fut = {} /\ \A s \in Stages : running[s] = Idle /\ queue[s] = <<>>
        BY <1>0, <2>1, OutsideFacts
    <2>4. ASSUME NEW s \in Stages PROVE Alone("reset", frame, s, t) /\ t.call = "reset" /\ t.n = 0
        <3>1. ClosingCall("reset", frame, s, "reset", 0)
            BY DEF ClosingCall
        <3>2. QED
            BY <3>1, PlainTask
    <2> HIDE DEF t
    <2>5. \A s, c, m : ~Answered(fut, s, c, m)
        BY <2>3 DEF Answered
    <2>6. DOMAIN queue' = Stages /\ queue'[0] = queue[0] \o <<t>> /\ queue'[1] = queue[1] \o <<t>>
        BY <1>0, <2>1, Submits
    <2>7. ASSUME NEW s \in Stages PROVE WorkNext(s) /\ \A i \in 1..Len(queue'[s]) : queue'[s][i] = t
        <3>1. ~Answered(fut, s, t.call, t.n) /\ queue'[s] = queue[s] \o <<t>> /\ Alone(pc', frame', s, t)
            BY <2>1, <2>2, <2>4, <2>5, <2>6
        <3>2. QED
            BY <2>3, <3>1, StageGiven
    <2>8. WorkersTypeOK'
        BY <1>0, <2>6, <2>7 DEF WorkersTypeOK, WorkNext
    <2>9. BoundariesInStep'
        <3>1. pc' \notin Outside /\ pc' # "reconcile" /\ t.call # "execute0" /\ DOMAIN fut' = {}
            BY <2>1, <2>2, <2>3, <2>4 DEF Outside
        <3>2. \A s \in Stages : running'[s].call # "execute0"
            BY <1>0, <2>3 DEF Idle
        <3>3. QED
            BY <2>7, <3>1, <3>2 DEF BoundariesInStep
    <2>10. AnswersInStep(pc', frame', fut')
        BY <2>1, <2>3 DEF AnswersInStep
    <2>11. ASSUME NEW s \in Stages PROVE StageInStep(s)'
        <3>1. BackendInStep("reset", frame, tokens, fut, s, backend[s])
            <4>1. "reset" \notin InTxn \cup RollingBack \cup Committing \cup {"draft"}
                BY DEF InTxn, Opening, RollingBack, Committing
            <4>2. QED
                BY <2>5, <4>1 DEF BackendInStep, Closed
        <3>2. QED
            BY <1>0, <2>1, <2>7, <3>1 DEF StageInStep, WorkNext, RestsAt, Outside
    <2>12. QED
        BY <2>8, <2>9, <2>10, <2>11 DEF WorkInStep, StagesInStep
<1>3. QED
    BY <1>1, <1>2

\* Both resets have been answered.
LEMMA GetResetStep ==
    ASSUME InStep, GetReset
    PROVE  WorkInStep'
<1>0. WorkersTypeOK /\ pc = "reset" /\ pc \notin Outside /\ pc \in RollingBack \cup Committing \cup {"reset"}
    BY DEF InStep, WorkInStep, GetReset, Outside
<1>1. /\ \A s \in Stages : Answered(fut, s, "reset", 0)
      /\ pc' = "idle" /\ fut' = <<>> /\ UNCHANGED <<backend, queue, running>>
      /\ \/ poisoned' = TRUE
         \/ /\ \A s \in Stages : fut[<<s, "reset", 0>>].st = "ok"
            /\ Reset /\ tokens' = <<>>
    BY DEF GetReset, End, Ready, Got, Answered
<1>2. \A s \in Stages : running[s] = Idle /\ queue[s] = <<>>
    <2>1. \A s, c, m : ClosingCall(pc, frame, s, c, m) => c = "reset" /\ m = 0
        BY <1>0 DEF ClosingCall
    <2>2. QED
        BY <1>0, <1>1, <2>1, StageDone
<1>3. ASSUME ~poisoned', NEW s \in Stages PROVE RestsAt(s)'
    <2>1. BackendInStep(pc, frame, tokens, fut, s, backend[s])
        BY <1>0, Healthy
    <2>2. backend[s] = FreshBackend
        BY <1>0, <1>1, <1>3, <2>1 DEF BackendInStep, Closed
    <2>3. frontiers'.target = 0 /\ frontiers'.epoch = 0
        BY <1>1, <1>3 DEF Reset, ZeroFrontiers
    <2>4. SubSeq(<<>>, 1, 0) = <<>>
        BY SubSeqEmpty
    <2>5. QED
        BY <1>1, <1>3, <2>2, <2>3, <2>4 DEF RestsAt, FreshBackend
<1>4. QED
    BY <1>0, <1>1, <1>2, <1>3, EndHealthy

\* A caller makes a request.
LEMMA MadeStep ==
    ASSUME InStep, NEW op, NEW arg, Request(op, arg)
    PROVE  WorkInStep'
<1>0. /\ pc = "idle" /\ pc' = "enter" /\ pc \in Outside /\ pc' \in Outside
      /\ UNCHANGED <<frontiers, tokens, poisoned, backend, queue, running, fut>>
      /\ WorkersTypeOK /\ BoundariesInStep
    BY DEF InStep, WorkInStep, Request, Outside, engineVars, sessVars, workVars
<1>1. WorkersTypeOK'
    BY <1>0 DEF WorkersTypeOK
<1>2. BoundariesInStep'
    <2>1. \A k \in DOMAIN fut : k[2] # "execute0"
        BY <1>0 DEF BoundariesInStep
    <2>2. QED
        BY <1>0, <2>1 DEF BoundariesInStep
<1>3. ASSUME ~poisoned' PROVE AnswersInStep(pc', frame', fut') /\ \A s \in Stages : StageInStep(s)'
    <2>1. /\ DOMAIN fut' = {}
          /\ \A s \in Stages : /\ running'[s] = Idle /\ queue'[s] = <<>>
                               /\ backend'[s] = AtRest(SubSeq(tokens', 1, frontiers'.target), frontiers'.epoch)
        BY <1>0, <1>3, OutsideFacts
    <2>2. AnswersInStep(pc', frame', fut')
        BY <2>1 DEF AnswersInStep
    <2>3. ASSUME NEW s \in Stages PROVE StageInStep(s)'
        <3>1. "enter" \notin InTxn \cup RollingBack \cup Committing \cup {"reset", "draft"}
            BY DEF InTxn, Opening, RollingBack, Committing
        <3>2. BackendInStep(pc', frame', tokens', fut', s, backend'[s])
            BY <1>0, <3>1 DEF BackendInStep
        <3>3. WorkInOrder(pc', frame', s, running'[s], queue'[s]) /\ WorkUnanswered(fut', s, running'[s], queue'[s])
            BY <2>1, NoWork
        <3>4. QED
            BY <2>1, <3>2, <3>3 DEF StageInStep, RestsAt
    <2>4. QED
        BY <2>2, <2>3
<1>4. QED
    BY <1>1, <1>2, <1>3 DEF WorkInStep, StagesInStep
-----------------------------------------------------------------------------
(* Opening a transaction.                                                  *)

\* The tasks run_transaction submits first, as one record per stage.
LEMMA FirstTasks ==
    ASSUME EngineInv, SealedInStep, RequestInStep, FrameInStep, WorkersTypeOK, BeginTransaction
    PROVE  /\ DOMAIN queue' = Stages
           /\ \/ /\ pc' = "prefetch" /\ Width(frame) = 0
                 /\ queue'[0] = queue[0] \o <<[call |-> "prefetch", n |-> 0, txn |-> frame'.txn]>>
                 /\ queue'[1] = queue[1]
              \/ /\ pc' = "draft" /\ Width(frame) > 0
                 /\ queue'[0] = queue[0] \o <<Stage0Task(frame', 0)>>
                 /\ queue'[1] = Append(queue[1], [call |-> "draft", n |-> Width(frame), txn |-> frame'.txn])
              \/ /\ pc' = "chunk" /\ Width(frame) = 0
                 /\ queue'[0] = queue[0] \o <<Stage0Task(frame', 0)>>
                 /\ queue'[1] = queue[1]
<1> DEFINE w == Width(frame)
           p == KindOf(frame) = "append" /\ Len(EvalTokens(frame)) > ChunkTokens
           pre == [call |-> "prefetch", n |-> 0, txn |-> frame'.txn]
           ex == Stage0Task(frame', 0)
           first == IF p THEN pre ELSE ex
           dr == [call |-> "draft", n |-> w, txn |-> frame'.txn]
<1>0. EngineTypeOK /\ FrontiersStayValid
    BY DEF EngineInv
<1>1. /\ frame'.txn = txn' /\ Admissible(frame) /\ <<frame.op, frame.arg>> \in Requests
      /\ frame.op \in Operations
    BY BeginEffect
<1>2. w \in Nat /\ (w > 0 => KindOf(frame) = "speculative")
    <2>1. w \in 0..MaxCount /\ (w > 0 => KindOf(frame) = "speculative")
        BY <1>0, <1>1, AdmittedFacts
    <2>2. QED
        BY <2>1
<1>3. /\ queue' = [Submitted(To(0, first)) EXCEPT ![1] = IF w > 0 THEN Append(@, dr) ELSE @]
      /\ pc' = CASE p -> "prefetch" [] w > 0 -> "draft" [] OTHER -> "chunk"
    BY <1>1, Zenon DEF BeginTransaction
<1>4. p => ~(w > 0)
    BY <1>2
<1>5. pc' = IF p THEN "prefetch" ELSE IF w > 0 THEN "draft" ELSE "chunk"
    BY <1>3, <1>4
<1> HIDE DEF w, p, pre, ex, dr
<1>6. /\ DOMAIN Submitted(To(0, first)) = Stages
      /\ Submitted(To(0, first))[0] = queue[0] \o <<first>> /\ Submitted(To(0, first))[1] = queue[1]
    BY Submits
<1>7. 0 \in Stages /\ 1 \in Stages
    BY DEF Stages
<1>8. /\ DOMAIN queue' = Stages /\ queue'[0] = queue[0] \o <<first>>
      /\ queue'[1] = IF w > 0 THEN Append(queue[1], dr) ELSE queue[1]
    BY <1>3, <1>6, <1>7
<1>9. /\ DOMAIN queue' = Stages
      /\ \/ pc' = "prefetch" /\ w = 0 /\ queue'[0] = queue[0] \o <<pre>> /\ queue'[1] = queue[1]
         \/ pc' = "draft" /\ w > 0 /\ queue'[0] = queue[0] \o <<ex>> /\ queue'[1] = Append(queue[1], dr)
         \/ pc' = "chunk" /\ w = 0 /\ queue'[0] = queue[0] \o <<ex>> /\ queue'[1] = queue[1]
    <2>1. w = 0 \/ w > 0
        BY <1>2
    <2>2. CASE p
        <3>1. first = pre /\ ~(w > 0)
            BY <2>2, <1>4
        <3>2. QED
            BY <1>5, <1>8, <2>1, <2>2, <3>1
    <2>3. CASE ~p
        <3>1. first = ex
            BY <2>3
        <3>2. QED
            BY <1>5, <1>8, <2>1, <2>3, <3>1
    <2>4. QED
        BY <2>2, <2>3
<1>10. QED
    BY <1>9 DEF w, pre, ex, dr

\* A transaction opens on two stages at rest.
LEMMA BeginStep ==
    ASSUME InStep, BeginTransaction
    PROVE  WorkInStep'
<1> DEFINE pre == [call |-> "prefetch", n |-> 0, txn |-> frame'.txn]
           ex == Stage0Task(frame', 0)
           dr == [call |-> "draft", n |-> Width(frame), txn |-> frame'.txn]
           f == frame'
<1>0. /\ EngineInv /\ SealedInStep /\ RequestInStep /\ FrameInStep /\ WorkersTypeOK /\ BoundariesInStep
      /\ EngineTypeOK /\ FrontiersStayValid
    BY DEF InStep, WorkInStep, EngineInv
<1>1. /\ pc = "enter" /\ pc \in Outside /\ ~poisoned /\ frame.op \in Operations
      /\ <<frame.op, frame.arg>> \in Requests /\ Admissible(frame)
      /\ f.eval = EvalTokens(frame) /\ f.off = 0 /\ f.txn = txn'
      /\ UNCHANGED <<poisoned, tokens, backend, running, fut>>
    BY <1>0, BeginEffect DEF Outside, sessVars
<1>2. /\ f.txn.epoch = frontiers.epoch + 1 /\ f.txn.base_target = frontiers.target
      /\ f.txn.evaluated = Len(EvalTokens(frame))
    BY <1>0, BeginEffect
<1>3. /\ IsSeq(f.eval) /\ Len(f.eval) = f.txn.evaluated /\ 0 \in 0..(f.txn.evaluated - 1)
    BY <1>0, <1>1, BeginEval DEF EvalInStep
<1>4. Width(frame) > 0 => Width(frame) = Len(f.eval) - 1
    <2>1. Width(frame) \in 0..MaxCount /\ (frame.op = "append" => Width(frame) = 0)
        BY <1>0, <1>1, AdmittedFacts
    <2>2. frame.op # "append" => Len(f.eval) = 1 + Width(frame)
        BY <1>0, <1>1, EvalFacts
    <2>3. QED
        BY <2>1, <2>2
<1>5. /\ DOMAIN fut = {} /\ \A s \in Stages : running[s] = Idle /\ queue[s] = <<>>
      /\ \A s \in Stages : backend[s] = AtRest(SubSeq(tokens, 1, frontiers.target), frontiers.epoch)
    BY <1>1, OutsideFacts
<1>6. /\ 0 \in Stages /\ 1 \in Stages /\ \A s \in Stages : s = 0 \/ s = 1
    BY DEF Stages
<1>7. \A s, c, m : ~Answered(fut, s, c, m)
    BY <1>5 DEF Answered
<1>8. /\ DOMAIN queue' = Stages
      /\ \/ /\ pc' = "prefetch" /\ queue'[0] = queue[0] \o <<pre>> /\ queue'[1] = queue[1]
         \/ /\ pc' = "draft" /\ Width(frame) > 0
            /\ queue'[0] = queue[0] \o <<ex>> /\ queue'[1] = Append(queue[1], dr)
         \/ /\ pc' = "chunk" /\ queue'[0] = queue[0] \o <<ex>> /\ queue'[1] = queue[1]
    BY <1>0, FirstTasks
<1>9. pc' \in {"prefetch", "draft", "chunk"}
    BY <1>8
<1>10. pc' # "prefetch" => Alone(pc', f, 0, ex)
    <2>1. ASSUME pc' # "prefetch" PROVE PlainCall(pc', f, 0, "execute0", 0)
        BY <1>1, <1>9, <2>1 DEF PlainCall
    <2>2. pc' \notin RollingBack
        BY <1>9 DEF RollingBack
    <2>3. ASSUME pc' # "prefetch" PROVE Alone(pc', f, 0, ex)
        BY <1>3, <2>1, <2>2, <2>3, ChunkTask DEF Stage0Task
    <2>4. QED
        BY <2>3
<1>11. pc' = "prefetch" => Alone(pc', f, 0, pre)
    <2>1. pre.call = "prefetch" /\ pre.n = 0 /\ pre.txn = f.txn
        OBVIOUS
    <2> HIDE DEF pre
    <2>2. QED
        BY <2>1 DEF Alone, Plain, PlainCall, RollingBack
<1>12. pc' = "draft" /\ Width(frame) > 0 => Alone(pc', f, 1, dr)
    <2>1. dr.call = "draft" /\ dr.n = Width(frame) /\ dr.txn = f.txn
        OBVIOUS
    <2> HIDE DEF dr
    <2>2. QED
        BY <1>4, <2>1 DEF Alone, Plain, PlainCall, RollingBack
<1>13. dr.call = "draft"
    OBVIOUS
<1> HIDE DEF pre, ex, dr, f
<1>14. WorkNext(0)
    <2>1. CASE pc' = "prefetch"
        <3>1. queue'[0] = queue[0] \o <<pre>> /\ Alone(pc', frame', 0, pre)
            BY <1>8, <1>11, <2>1 DEF f
        <3>2. running[0] = Idle /\ queue[0] = <<>> /\ ~Answered(fut, 0, pre.call, pre.n)
            BY <1>5, <1>6, <1>7
        <3>3. QED
            BY <3>1, <3>2, StageGiven
    <2>2. CASE pc' # "prefetch"
        <3>1. queue'[0] = queue[0] \o <<ex>> /\ Alone(pc', frame', 0, ex)
            BY <1>8, <1>10, <2>2 DEF f
        <3>2. running[0] = Idle /\ queue[0] = <<>> /\ ~Answered(fut, 0, ex.call, ex.n)
            BY <1>5, <1>6, <1>7
        <3>3. QED
            BY <3>1, <3>2, StageGiven
    <2>3. QED
        BY <2>1, <2>2
<1>15. WorkNext(1) /\ \A i \in 1..Len(queue'[1]) : queue'[1][i].call # "execute0"
    <2>0. running[1] = Idle /\ queue[1] = <<>>
        BY <1>5, <1>6
    <2>1. CASE pc' = "draft"
        <3>1. queue'[1] = Append(queue[1], dr) /\ Alone(pc', frame', 1, dr)
            BY <1>8, <1>12, <2>1 DEF f
        <3>2. ~Answered(fut, 1, dr.call, dr.n)
            BY <1>7
        <3>3. WorkNext(1) /\ \A i \in 1..Len(queue'[1]) : queue'[1][i] = dr
            BY <2>0, <3>1, <3>2, StageGiven
        <3>4. QED
            BY <1>13, <3>3
    <2>2. CASE pc' # "draft"
        <3>1. queue'[1] = queue[1]
            BY <1>8, <2>2
        <3>2. WorkNext(1)
            BY <2>0, <3>1, StageRests
        <3>3. Len(queue'[1]) = 0
            BY <2>0, <3>1, EmptyIsSeq
        <3>4. \A i \in 1..Len(queue'[1]) : FALSE
            BY <3>3
        <3>5. QED
            BY <3>2, <3>4
    <2>3. QED
        BY <2>1, <2>2
<1>16. WorkersTypeOK'
    BY <1>0, <1>1, <1>6, <1>8, <1>14, <1>15 DEF WorkersTypeOK, WorkNext
<1>17. pc' \notin Outside /\ pc' # "reconcile"
    BY <1>9 DEF Outside
<1>18. BoundariesInStep'
    <2>1. \A s \in Stages : running'[s].call # "execute0"
        BY <1>1, <1>5 DEF Idle
    <2>2. DOMAIN fut' = {}
        BY <1>1, <1>5
    <2>3. QED
        BY <1>15, <1>6, <1>17, <2>1, <2>2 DEF BoundariesInStep
<1>19. AnswersInStep(pc', frame', fut')
    BY <1>1, <1>5 DEF AnswersInStep
<1>20. ASSUME NEW s \in Stages PROVE StageInStep(s)'
    <2>1. f.txn.epoch - 1 = frontiers.epoch
        <3>1. frontiers.epoch \in Nat
            BY <1>0, SessionTxnAssumption DEF EngineTypeOK, U64
        <3>2. QED
            BY <1>2, <3>1
    <2>2. backend[s] = AtRest(SubSeq(tokens, 1, f.txn.base_target), f.txn.epoch - 1)
        BY <1>2, <1>5, <2>1
    <2>3. Within(backend[s], SubSeq(tokens, 1, f.txn.base_target), f.txn, f.eval)
        BY <2>2 DEF Within
    <2>4. Len(backend[s].ptoks) <= 1
        BY <2>2, RestFacts, EmptyIsSeq
    <2>5. pc' \notin RollingBack \cup Committing \cup {"reset"}
        BY <1>9 DEF RollingBack, Committing
    <2>6. BackendInStep(pc', f, tokens, fut, s, backend[s])
        BY <2>3, <2>4, <2>5 DEF BackendInStep
    <2>7. WorkNext(s)
        BY <1>6, <1>14, <1>15
    <2>8. QED
        BY <1>1, <1>17, <2>6, <2>7 DEF StageInStep, WorkNext, RestsAt, f
<1>21. QED
    BY <1>16, <1>18, <1>19, <1>20 DEF WorkInStep, StagesInStep

\* A step that changes neither the coordinator nor the stages.
LEMMA StillStep ==
    ASSUME InStep, UNCHANGED <<frontiers, tokens, poisoned, pc, frame, workVars>>
    PROVE  WorkInStep'
<1>1. UNCHANGED <<backend, queue, running, fut>> /\ UNCHANGED <<frontiers, tokens, poisoned, pc, frame>>
    BY DEF workVars
<1>2. BoundariesInStep' /\ WorkersTypeOK'
    BY <1>1 DEF InStep, WorkInStep, BoundariesInStep, WorkersTypeOK
<1>3. StagesInStep'
    BY <1>1 DEF InStep, WorkInStep, StagesInStep, StageInStep, RestsAt
<1>4. QED
    BY <1>2, <1>3 DEF WorkInStep

\* fail_closed between two requests.
LEMMA FailClosedStep ==
    ASSUME InStep, FailClosed
    PROVE  WorkInStep'
<1>1. UNCHANGED <<backend, queue, running, fut>> /\ UNCHANGED <<pc, frame>> /\ poisoned' = TRUE
    BY DEF FailClosed, workVars, coordVars
<1>2. BoundariesInStep' /\ WorkersTypeOK'
    BY <1>1 DEF InStep, WorkInStep, BoundariesInStep, WorkersTypeOK
<1>3. QED
    BY <1>1, <1>2 DEF WorkInStep, StagesInStep
-----------------------------------------------------------------------------
(* The invariant and the theorems.                                         *)

\* Every step keeps the two workers, their backends and the answers in step with
\* the coordinator.
LEMMA WorkStep ==
    ASSUME InStep, [DualNext]_vars
    PROVE  WorkInStep'
<1>0. 0 \in Stages /\ 1 \in Stages
    BY DEF Stages
<1>1. /\ EngineInv /\ RequestInStep /\ FrameInStep /\ BoundariesInStep /\ WorkersTypeOK /\ StagesInStep
    BY DEF InStep, WorkInStep
<1>2. ASSUME NEW s \in Stages, TakeTask(s) \/ CompleteTask(s) PROVE WorkInStep'
    <2>1. CASE TakeTask(s)
        BY <1>1, <2>1, TakeStep DEF WorkInStep
    <2>2. CASE CompleteTask(s)
        BY <1>1, <2>2, CompleteStep DEF WorkInStep
    <2>3. QED
        BY <1>2, <2>1, <2>2
<1>3. ASSUME NEW s \in Stages, AcknowledgeStage(s) PROVE WorkInStep'
    <2>1. /\ pc \in {"ack0", "ack1", "decide"} /\ pc' \in {"ack1", "decide", "commit"}
          /\ UNCHANGED <<frame, tokens, poisoned, workVars>>
        BY <1>3 DEF AcknowledgeStage, sessVars
    <2>2. QED
        BY <2>1, AckStep
<1>4. ASSUME DecideTransaction PROVE WorkInStep'
    <2>1. /\ pc \in {"ack0", "ack1", "decide"} /\ pc' \in {"ack1", "decide", "commit"}
          /\ UNCHANGED <<frame, tokens, poisoned, workVars>>
        BY <1>4 DEF DecideTransaction, sessVars
    <2>2. QED
        BY <2>1, AckStep
<1>5. ASSUME RequestCancel \/ DeadlinePasses \/ UNCHANGED vars PROVE WorkInStep'
    <2>1. UNCHANGED <<frontiers, tokens, poisoned, pc, frame, workVars>>
        BY <1>5 DEF RequestCancel, DeadlinePasses, vars, engineVars, sessVars, coordVars
    <2>2. QED
        BY <2>1, StillStep
<1>6. ASSUME NEW r \in Requests, Request(r[1], r[2]) PROVE WorkInStep'
    BY <1>6, MadeStep
<1>7. ASSUME RefuseRequest \/ BeginTransaction \/ SeedDecode \/ BeginReset \/ GetReset \/ FailClosed
      PROVE  WorkInStep'
    BY <1>7, RefuseStep, BeginStep, SeedStep, BeginResetStep, GetResetStep, FailClosedStep
<1>8. ASSUME \/ GetPrefetch \/ GetDraft \/ CheckChunk \/ GetStage0 \/ GetCheckpoint
             \/ GetStage1 \/ GetReconcile \/ GetLookahead \/ SealTransaction
      PROVE  WorkInStep'
    BY <1>8, PrefetchStep, DraftStep, CheckStep, Stage0Step, CheckpointStep, Stage1Step,
       ReconcileStep, LookaheadStep, SealStep
<1>9. ASSUME CommitTransaction \/ GetCommit0 \/ GetCommit1 \/ GetRollback0 \/ GetRollback1
      PROVE  WorkInStep'
    BY <1>9, CommitStep, Commit0Step, Commit1Step, Rollback0Step, Rollback1Step
<1>10. CASE DualNext
    BY <1>0, <1>2, <1>3, <1>4, <1>5, <1>6, <1>7, <1>8, <1>9, <1>10, CoordinatorCases
<1>11. QED
    BY <1>5, <1>10

\* The invariant as the lemmas about a step take it.
LEMMA InvIsInStep == DualInv <=> InStep
    BY DEF DualInv, InStep, WorkInStep, StagesInStep

\* A fresh executor satisfies it.
LEMMA DualInitial == DualInit => DualInv
<1> SUFFICES ASSUME DualInit PROVE DualInv
    OBVIOUS
<1>1. /\ EngineInit /\ tokens = <<>> /\ poisoned = FALSE /\ pc = "idle" /\ frame = NoFrame
      /\ backend = [s \in Stages |-> FreshBackend] /\ queue = [s \in Stages |-> <<>>]
      /\ running = [s \in Stages |-> Idle] /\ fut = <<>> /\ cancel = "active"
    BY DEF DualInit
<1>2. EngineInv
    BY <1>1, EngineInitInv
<1>3. SealedInStep
    BY <1>1 DEF SealedInStep, Outside
<1>4. RequestInStep
    BY <1>1 DEF RequestInStep, IsFrame, InTxn, Committing, Opening, RollingBack
<1>5. FrameInStep
    <2>1. pc \notin InTxn \cup Committing \cup {"prefetch", "draft", "checkpoint", "reconcile", "lookahead", "commit"}
        BY <1>1 DEF InTxn, Committing, Opening, RollingBack
    <2>2. ~active /\ frontiers.canonical = 0
        BY <1>1 DEF EngineInit, ZeroFrontiers
    <2>3. QED
        BY <1>1, <2>1, <2>2, EmptyIsSeq DEF FrameInStep
<1>6. \A s \in Stages : running[s] = Idle /\ queue[s] = <<>> /\ backend[s] = FreshBackend
    BY <1>1
<1>7. DOMAIN fut = {}
    BY <1>1
<1>8. WorkersTypeOK
    BY <1>1, EmptyIsSeq DEF WorkersTypeOK
<1>9. BoundariesInStep
    <2>1. \A s \in Stages : running[s].call # "execute0" /\ Len(queue[s]) = 0
        BY <1>6, EmptyIsSeq DEF Idle
    <2>2. QED
        BY <1>1, <1>7, <2>1 DEF BoundariesInStep
<1>10. ASSUME NEW s \in Stages PROVE StageInStep(s)
    <2>1. WorkInOrder(pc, frame, s, running[s], queue[s]) /\ WorkUnanswered(fut, s, running[s], queue[s])
        BY <1>6, NoWork
    <2>2. BackendInStep(pc, frame, tokens, fut, s, backend[s])
        <3>1. "idle" \notin InTxn \cup RollingBack \cup Committing \cup {"reset", "draft"}
            BY DEF InTxn, Opening, RollingBack, Committing
        <3>2. QED
            BY <1>1, <3>1 DEF BackendInStep
    <2>3. RestsAt(s)
        <3>1. frontiers.target = 0 /\ frontiers.epoch = 0
            BY <1>1 DEF EngineInit, ZeroFrontiers
        <3>2. SubSeq(<<>>, 1, 0) = <<>>
            BY SubSeqEmpty
        <3>3. QED
            BY <1>1, <1>6, <3>1, <3>2 DEF RestsAt, FreshBackend
    <2>4. QED
        BY <2>1, <2>2, <2>3 DEF StageInStep
<1>11. AnswersInStep(pc, frame, fut)
    BY <1>7 DEF AnswersInStep
<1>12. QED
    BY <1>2, <1>3, <1>4, <1>5, <1>8, <1>9, <1>10, <1>11 DEF DualInv

\* Every step preserves it.
LEMMA DualInductive == DualInv /\ [DualNext]_vars => DualInv'
<1> SUFFICES ASSUME DualInv, [DualNext]_vars PROVE DualInv'
    OBVIOUS
<1>1. /\ InStep /\ EngineInv /\ SealedInStep /\ RequestInStep /\ FrameInStep
      /\ ~poisoned => AnswersInStep(pc, frame, fut)
    BY InvIsInStep DEF DualInv
<1>2. [EngineNext]_engineVars
    BY <1>1, EngineStep
<1>3. EngineInv'
    BY <1>1, <1>2, EngineInvInductive
<1>4. SealedInStep'
    BY <1>1, SealedStep
<1>5. RequestInStep'
    BY <1>1, RequestStep
<1>6. FrameInStep'
    BY <1>1, <1>3, FrameStep
<1>7. WorkInStep'
    BY <1>1, WorkStep
<1>8. QED
    BY <1>3, <1>4, <1>5, <1>6, <1>7 DEF DualInv, WorkInStep, StagesInStep

\* The executor keeps its invariant: whatever interleaving of the coordinator, the
\* two workers, a cancellation and a deadline, the tasks a stage still owes, the
\* answers given and the rows each backend holds are the ones the coordinator's
\* place in run_transaction allows.
THEOREM DualInvariant == DualSpec => []DualInv
<1>1. QED
    BY DualInitial, DualInductive, PTL DEF DualSpec

\* The executor drives the transaction engine of SessionTxn by its own operations
\* only, each when the engine accepts it.
THEOREM ExecutorDrivesEngine == DualSpec => EngineSpec
<1>1. DualInit => EngineInit
    BY DEF DualInit
<1>2. DualInv /\ [DualNext]_vars => [EngineNext]_engineVars
    BY EngineStep DEF DualInv
<1>3. QED
    BY <1>1, <1>2, DualInvariant, PTL DEF DualSpec, EngineSpec

\* Between requests a healthy executor's stages hold exactly the evaluated tokens
\* under the engine's epoch and owe nothing (DualStageExecutor's rollback_prepared,
\* commit and reset_session), for every vocabulary, context limit, chunk size and
\* draft width.
THEOREM StagesAgree == DualSpec => []StagesAgreeWhenIdle
<1>1. ASSUME DualInv PROVE StagesAgreeWhenIdle
    <2>1. ASSUME pc = "idle", ~poisoned
          PROVE  /\ ~active /\ Len(tokens) = frontiers.canonical
                 /\ \A s \in Stages :
                       /\ backend[s] = AtRest(SubSeq(tokens, 1, frontiers.target), frontiers.epoch)
                       /\ queue[s] = <<>> /\ running[s] = Idle
        <3>1. InStep /\ FrameInStep /\ pc \in Outside
            BY <1>1, <2>1, InvIsInStep DEF DualInv, Outside
        <3>2. ~active /\ frontiers.canonical = Len(tokens)
            BY <2>1, <3>1 DEF FrameInStep
        <3>3. QED
            BY <2>1, <3>1, <3>2, OutsideFacts
    <2>2. QED
        BY <2>1 DEF StagesAgreeWhenIdle
<1>2. QED
    BY <1>1, DualInvariant, PTL

\* Stage 0 is at most one chunk ahead: of the boundaries it produced, stage 1 has
\* not consumed at most the current chunk's and the next one's, for every chunk
\* size and draft width.
THEOREM StageZeroOneChunkAhead == DualSpec => []TwoBoundariesAtMost
<1>1. ASSUME DualInv PROVE TwoBoundariesAtMost
    <2> DEFINE a == <<0, "execute0", frame.off>>
               b == <<0, "execute0", NextOf(frame)>>
               produced == {k \in DOMAIN fut : k[2] = "execute0" /\ fut[k].st = "ok"}
               consumed == {k \in DOMAIN fut : k[2] = "execute1"}
               left == {k \in produced : <<1, "execute1", k[3]>> \notin consumed}
    <2>1. ASSUME NEW k \in left PROVE k \in {a, b}
        <3>1. k \in DOMAIN fut /\ k[2] = "execute0" /\ <<1, "execute1", k[3]>> \notin consumed
            BY <2>1
        <3>2. <<1, "execute1", k[3]>>[2] = "execute1"
            OBVIOUS
        <3>3. <<1, "execute1", k[3]>> \notin DOMAIN fut
            BY <3>1, <3>2
        <3>4. k = <<0, "execute0", k[3]>> /\ k[3] \in {frame.off, NextOf(frame)}
            BY <1>1, <3>1, <3>3 DEF DualInv, BoundariesInStep
        <3>5. QED
            BY <3>4
    <2> HIDE DEF a, b, left
    <2>2. IsFiniteSet({a, b}) /\ Cardinality({a, b}) <= 2
        <3>1. IsFiniteSet({a}) /\ Cardinality({a}) = 1
            BY FS_Singleton
        <3>2. IsFiniteSet({a} \cup {b}) /\ Cardinality({a} \cup {b}) \in {1, 2}
            BY <3>1, FS_AddElement
        <3>3. {a, b} = {a} \cup {b}
            OBVIOUS
        <3>4. QED
            BY <3>2, <3>3
    <2>3. left \subseteq {a, b}
        BY <2>1
    <2>4. IsFiniteSet(left) /\ Cardinality(left) <= Cardinality({a, b})
        BY <2>2, <2>3, FS_Subset
    <2>5. Cardinality(left) <= 2
        BY <2>2, <2>4, FS_CardinalityType
    <2>6. QED
        BY <2>5 DEF TwoBoundariesAtMost, left
<1>2. QED
    BY <1>1, DualInvariant, PTL
=============================================================================
