-------------------------- MODULE ExecutorRpcProofs -------------------------
(***************************************************************************)
(* Proofs about ExecutorRpc, for every number of connections, bound on the *)
(* request ids and cache capacity, with and without a journal.             *)
(***************************************************************************)
EXTENDS ExecutorRpc, SequenceTheorems, TLAPS

\* What Go does to the threads' requests, one field at a time.
Went(c, pc, status) ==
    /\ call' \in [Clients -> Requests]
    /\ call'[c].pc = pc /\ call'[c].status = status
    /\ call'[c].id = call[c].id /\ call'[c].op = call[c].op
    /\ \A d \in Clients : d # c => call'[d] = call[d]

\* A thread that goes on changes its own pc and status only.
LEMMA GoWent ==
    ASSUME call \in [Clients -> Requests], NEW c \in Clients,
           NEW pc \in Pcs, NEW status \in Statuses, Go(c, pc, status)
    PROVE  Went(c, pc, status)
    BY DEF Requests, Go, Went

\* What the cache's order becomes when an id it does not hold is remembered: the
\* id is listed, every other entry was listed before, each id is listed once, and
\* the capacity is kept.
LEMMA RememberedOrder ==
    ASSUME NEW o \in Seq(Ids), Len(o) <= CacheCap, NEW id \in Ids,
           \A i, j \in 1..Len(o) : o[i] = o[j] => i = j,
           \A k \in 1..Len(o) : o[k] # id
    PROVE  LET r == Remembered(o, id) IN
           /\ r \in Seq(Ids) /\ Len(r) <= CacheCap
           /\ \A i, j \in 1..Len(r) : r[i] = r[j] => i = j
           /\ \E k \in 1..Len(r) : r[k] = id
           /\ \A k \in 1..Len(r) : r[k] = id \/ \E m \in 1..Len(o) : r[k] = o[m]
<1> DEFINE r == Remembered(o, id)
<1>a. CacheCap \in Nat \ {0} /\ Len(o) \in Nat
    BY ExecutorRpcAssumption
<1>1. CASE Len(o) >= CacheCap
    <2>1. o # <<>>
        BY <1>1, <1>a
    <2>2. /\ Tail(o) \in Seq(Ids) /\ Len(Tail(o)) = Len(o) - 1
          /\ \A k \in 1..(Len(o) - 1) : Tail(o)[k] = o[k + 1]
        BY <2>1, HeadTailProperties
    <2>3. r = Append(Tail(o), id)
        BY <1>1 DEF Remembered
    <2> HIDE DEF r
    <2>4. /\ r \in Seq(Ids) /\ Len(r) = Len(o) /\ Len(o) > 0
          /\ \A k \in 1..(Len(o) - 1) : r[k] = o[k + 1]
          /\ r[Len(o)] = id
        BY <1>1, <1>a, <2>2, <2>3, AppendProperties
    <2>5. /\ \A i, j \in 1..Len(r) : r[i] = r[j] => i = j
          /\ \E k \in 1..Len(r) : r[k] = id
        BY <1>a, <2>4
    <2>6. ASSUME NEW k \in 1..Len(r)
          PROVE  r[k] = id \/ \E m \in 1..Len(o) : r[k] = o[m]
        <3>1. CASE k = Len(o)
            BY <2>4, <3>1
        <3>2. CASE k # Len(o)
            <4>1. k + 1 \in 1..Len(o) /\ r[k] = o[k + 1]
                BY <1>a, <2>4, <2>6, <3>2
            <4>2. QED
                BY <4>1
        <3>3. QED
            BY <3>1, <3>2
    <2>7. QED
        BY <2>4, <2>5, <2>6 DEF r
<1>2. CASE ~(Len(o) >= CacheCap)
    <2>1. r = Append(o, id)
        BY <1>2 DEF Remembered
    <2> HIDE DEF r
    <2>2. /\ r \in Seq(Ids) /\ Len(r) = Len(o) + 1
          /\ \A k \in 1..Len(o) : r[k] = o[k]
          /\ r[Len(o) + 1] = id
        BY <2>1, AppendProperties
    <2>3. QED
        BY <1>2, <1>a, <2>2 DEF r
<1>3. QED
    BY <1>1, <1>2

\* The empty cache is a function on no ids.
LEMMA EmptyCache ==
    /\ DOMAIN <<>> = {}
    /\ <<>> \in [{<<>>[k] : k \in 1..Len(<<>>)} ->
                 [op : Writers, status : Statuses, session : Nat]]
<1> DEFINE entries == [op : Writers, status : Statuses, session : Nat]
<1>1. <<>> \in Seq(entries) /\ Len(<<>>) = 0
    OBVIOUS
<1> HIDE DEF entries
<1>2. <<>> \in [1..0 -> entries]
    BY <1>1, LenProperties
<1>3. {<<>>[k] : k \in 1..Len(<<>>)} = {} /\ 1..0 = {}
    OBVIOUS
<1>4. QED
    BY <1>2, <1>3 DEF entries

\* Every step of the service preserves the inductive invariant.
LEMMA RpcInvInductive ==
    RpcInv /\ [RpcNext]_rpcVars => RpcInv'
<1> SUFFICES ASSUME RpcInv, [RpcNext]_rpcVars PROVE RpcInv'
    OBVIOUS
<1> USE DEF Ids, Writers, Admitted
<1>a. /\ RpcTypeOK /\ CacheInStep
      /\ OneWriter /\ CacheIsOld /\ CacheIsPresent
      /\ RegistryInStep /\ AnswersAreHonest /\ CancelIsHonest
      /\ EffectsAreOld /\ AtMostOnce /\ ToldIsDurable
      /\ JournalInStep
    BY DEF RpcInv
<1>b. None \notin Clients /\ MaxId \in Nat
    BY ExecutorRpcAssumption
<1>c. call \in [Clients -> Requests]
    BY <1>a DEF RpcTypeOK
<1>d. /\ highest \in Nat /\ holder \in Clients \cup {None} /\ up \in BOOLEAN
      /\ \A d \in Clients : call[d].id \in Nat
      /\ \A id \in DOMAIN cache : id \in Nat
    BY <1>a, <1>b DEF RpcTypeOK, Requests, CacheInStep
<1>e. effects \in [Ids -> Nat] /\ session \in Nat
    BY <1>a DEF RpcTypeOK
<1>f. CacheCap \in Nat \ {0}
    BY ExecutorRpcAssumption
<1>1. ASSUME NEW c \in Clients, NEW id \in Ids, NEW op \in Writers \cup {"read"},
             Receive(c, id, op)
      PROVE  RpcInv'
    <2>a. /\ up /\ call[c].pc = "idle"
          /\ call' \in [Clients -> Requests]
          /\ call'[c] = [pc |-> "waiting", id |-> id, op |-> op, status |-> "none"]
          /\ \A d \in Clients : d # c => call'[d] = call[d]
        BY <1>1, <1>b, <1>c DEF Receive, Requests, Pcs, Statuses
    <2>b. UNCHANGED <<up, holder, highest, order, cache, activeId, token, published,
                      exec, durable, accepted, okTold, effects, session>>
        BY <1>1 DEF Receive, lockVars, cacheVars, cancelVars, execVars, historyVars
    <2>1. RpcTypeOK'
        BY <1>a, <1>b, <1>d, <2>a, <2>b DEF RpcTypeOK, Executors, Requests
    <2>2. (CacheInStep /\ CacheIsOld /\ AtMostOnce)'
        BY <1>a, <2>b DEF CacheInStep, CacheIsOld, AtMostOnce
    <2>3. (OneWriter /\ RegistryInStep)'
        BY <1>a, <1>b, <1>d, <2>a, <2>b DEF OneWriter, RegistryInStep
    <2>4. (CacheIsPresent /\ JournalInStep)'
        BY <1>a, <1>b, <1>d, <2>a, <2>b DEF OneWriter, CacheIsPresent, JournalInStep
    <2>5. (AnswersAreHonest /\ CancelIsHonest)'
        BY <1>a, <1>b, <1>d, <2>a, <2>b DEF OneWriter, RegistryInStep, CacheIsOld,
           AnswersAreHonest, CancelIsHonest
    <2>6. (EffectsAreOld /\ ToldIsDurable)'
        BY <1>a, <1>b, <1>d, <2>a, <2>b DEF OneWriter, EffectsAreOld, ToldIsDurable
    <2>7. QED
        BY <2>1, <2>2, <2>3, <2>4, <2>5, <2>6 DEF RpcInv
<1>2. ASSUME NEW c \in Clients, Read(c)
      PROVE  RpcInv'
    <2>a. PICK st \in {"poisoned", "ok", "failed"} : Go(c, "reply", st)
        BY <1>2 DEF Read
    <2>b. Went(c, "reply", st)
        BY <1>c, <2>a, GoWent DEF Pcs, Statuses
    <2>c. /\ call[c].pc = "waiting" /\ call[c].op = "read" /\ holder = None
          /\ UNCHANGED <<up, holder, highest, order, cache, activeId, token,
                         published, exec, durable, accepted, okTold, effects,
                         session>>
        BY <1>2 DEF Read, lockVars, cacheVars, cancelVars, execVars, historyVars
    <2>1. RpcTypeOK'
        BY <1>a, <1>b, <1>d, <2>b, <2>c DEF RpcTypeOK, Executors, Requests, Went
    <2>2. (CacheInStep /\ CacheIsOld /\ AtMostOnce)'
        BY <1>a, <2>c DEF CacheInStep, CacheIsOld, AtMostOnce
    <2>3. (OneWriter /\ RegistryInStep)'
        BY <1>a, <1>b, <1>d, <2>b, <2>c DEF OneWriter, Went, RegistryInStep
    <2>4. (CacheIsPresent /\ JournalInStep)'
        BY <1>a, <1>b, <1>d, <2>b, <2>c DEF OneWriter, CacheIsPresent, Went,
           JournalInStep
    <2>5. (AnswersAreHonest /\ CancelIsHonest)'
        BY <1>a, <1>b, <1>d, <2>b, <2>c DEF OneWriter, RegistryInStep, CacheIsOld,
           AnswersAreHonest, Went, CancelIsHonest
    <2>6. (EffectsAreOld /\ ToldIsDurable)'
        BY <1>a, <1>b, <1>d, <2>b, <2>c DEF OneWriter, EffectsAreOld, Went,
           ToldIsDurable
    <2>7. QED
        BY <2>1, <2>2, <2>3, <2>4, <2>5, <2>6 DEF RpcInv
<1>3. ASSUME NEW c \in Clients, Replay(c)
      PROVE  RpcInv'
    <2> DEFINE id == call[c].id
    <2> DEFINE st == IF id \notin DOMAIN cache THEN "stale"
                      ELSE IF cache[id].op = call[c].op THEN cache[id].status
                      ELSE "conflict"
    <2>a. st \in Statuses /\ Go(c, "reply", st)
        BY <1>3, <1>a DEF Replay, CacheInStep, Statuses
    <2>b. Went(c, "reply", st)
        BY <1>c, <2>a, GoWent DEF Pcs
    <2>c. /\ call[c].pc = "waiting" /\ call[c].op \in Writers /\ holder = None
          /\ id \in DOMAIN cache \/ id <= highest
          /\ UNCHANGED <<up, holder, highest, order, cache, activeId, token,
                         published, exec, durable, accepted, okTold, effects,
                         session>>
        BY <1>3 DEF Replay, lockVars, cacheVars, cancelVars, execVars, historyVars
    <2>d. /\ st \in {"ok", "cancelled"} =>
                id \in DOMAIN cache /\ st = cache[id].status
          /\ st # "none"
        BY <1>a DEF CacheIsOld, CacheInStep
    <2> HIDE DEF st, id
    <2>e. id = call[c].id
        BY DEF id
    <2>1. RpcTypeOK'
        BY <1>a, <1>b, <1>d, <2>b, <2>c, <2>d, <2>e DEF RpcTypeOK, Executors,
           Requests, Went
    <2>2. (CacheInStep /\ CacheIsOld /\ AtMostOnce)'
        BY <1>a, <2>c DEF CacheInStep, CacheIsOld, AtMostOnce
    <2>3. (OneWriter /\ RegistryInStep)'
        BY <1>a, <1>b, <1>d, <2>b, <2>c, <2>d, <2>e DEF OneWriter, Went,
           RegistryInStep
    <2>4. (CacheIsPresent /\ JournalInStep)'
        BY <1>a, <1>b, <1>d, <2>b, <2>c, <2>d, <2>e DEF OneWriter, CacheIsPresent,
           Went, JournalInStep
    <2>5. (AnswersAreHonest /\ CancelIsHonest)'
        BY <1>a, <1>b, <1>d, <2>b, <2>c, <2>d, <2>e DEF OneWriter, RegistryInStep,
           CacheIsOld, AnswersAreHonest, Went, CancelIsHonest
    <2>6. (EffectsAreOld /\ ToldIsDurable)'
        BY <1>a, <1>b, <1>d, <2>b, <2>c, <2>d, <2>e DEF OneWriter, EffectsAreOld,
           Went, ToldIsDurable
    <2>7. QED
        BY <2>1, <2>2, <2>3, <2>4, <2>5, <2>6 DEF RpcInv
<1>4. ASSUME NEW c \in Clients, Admit(c)
      PROVE  RpcInv'
    <2>a. PICK pc \in {"publish", "register"}, st \in {"poisoned", "none"} :
               Go(c, pc, st) /\ (st = "none" <=> pc = "register")
        BY <1>4 DEF Admit
    <2>b. /\ Went(c, pc, st)
          /\ st = "none" <=> pc = "register"
          /\ pc \in Admitted /\ pc # "run" /\ pc # "sealed" /\ pc # "journal"
          /\ st = "poisoned" \/ st = "none"
        BY <1>c, <2>a, GoWent DEF Pcs, Statuses
    <2>c. /\ call[c].pc = "waiting" /\ call[c].op \in Writers /\ holder = None
          /\ call[c].id \notin DOMAIN cache /\ call[c].id > highest
          /\ holder' = c /\ highest' = call[c].id
          /\ UNCHANGED <<up, order, cache, activeId, token, published, exec,
                         durable, accepted, okTold, effects, session>>
        BY <1>4 DEF Admit, lockVars, cacheVars, cancelVars, execVars, historyVars
    <2>1. RpcTypeOK'
        BY <1>a, <1>b, <1>d, <2>b, <2>c DEF RpcTypeOK, Executors, Requests, Went
    <2>2. (CacheInStep /\ AtMostOnce)'
        BY <1>a, <2>c DEF CacheInStep, AtMostOnce
    <2>3. (OneWriter /\ RegistryInStep)'
        BY <1>a, <1>b, <1>d, <2>b, <2>c DEF OneWriter, Went, Outcomes,
           RegistryInStep
    <2>4. CacheIsOld'
        <3>1. \A i \in DOMAIN cache : i <= call[c].id
            BY <1>a, <1>d, <2>c DEF CacheIsOld
        <3>2. QED
            BY <1>a, <1>b, <2>c, <3>1 DEF CacheIsOld
    <2>5. (CacheIsPresent /\ JournalInStep)'
        BY <1>a, <1>b, <1>d, <2>b, <2>c DEF OneWriter, CacheIsPresent, Went,
           JournalInStep
    <2>6. (AnswersAreHonest /\ CancelIsHonest)'
        BY <1>a, <1>b, <1>d, <2>b, <2>c DEF OneWriter, RegistryInStep, CacheIsOld,
           AnswersAreHonest, Went, CancelIsHonest
    <2>7. EffectsAreOld'
        <3>1. HasJournal => effects[call[c].id] = 0
            <4>1. up /\ call[c].id \in Ids
                BY <1>a, <2>c DEF OneWriter
            <4>2. QED
                BY <1>a, <1>d, <1>e, <2>c, <4>1 DEF EffectsAreOld
        <3>2. \A i \in Ids : i <= highest => i <= highest'
            BY <1>d, <2>c
        <3>3. QED
            BY <1>a, <1>b, <1>d, <2>b, <2>c, <3>1, <3>2 DEF EffectsAreOld, Went
    <2>8. ToldIsDurable'
        BY <1>a, <1>b, <1>d, <2>b, <2>c DEF ToldIsDurable, Went
    <2>9. QED
        BY <2>1, <2>2, <2>3, <2>4, <2>5, <2>6, <2>7, <2>8 DEF RpcInv
<1>5. ASSUME NEW c \in Clients, Register(c)
      PROVE  RpcInv'
    <2>a. Went(c, "run", "none")
        BY <1>5, <1>c, GoWent DEF Register, Pcs, Statuses
    <2>b. /\ call[c].pc = "register"
          /\ activeId' = call[c].id /\ token' = "active"
          /\ UNCHANGED <<up, holder, highest, order, cache, published, exec,
                         durable, accepted, okTold, effects, session>>
        BY <1>5 DEF Register, lockVars, cacheVars, cancelVars, execVars, historyVars
    <2>1. RpcTypeOK'
        BY <1>a, <1>b, <1>d, <2>a, <2>b DEF RpcTypeOK, Executors, Requests, Went
    <2>2. (CacheInStep /\ CacheIsOld /\ AtMostOnce)'
        BY <1>a, <2>b DEF CacheInStep, CacheIsOld, AtMostOnce
    <2>3. (OneWriter /\ RegistryInStep)'
        BY <1>a, <1>b, <1>d, <2>a, <2>b DEF OneWriter, Went, RegistryInStep
    <2>4. (CacheIsPresent /\ JournalInStep)'
        BY <1>a, <1>b, <1>d, <2>a, <2>b DEF OneWriter, CacheIsPresent, Went,
           JournalInStep
    <2>5. (AnswersAreHonest /\ CancelIsHonest)'
        BY <1>a, <1>b, <1>d, <2>a, <2>b DEF OneWriter, RegistryInStep, CacheIsOld,
           AnswersAreHonest, Went, CancelIsHonest
    <2>6. (EffectsAreOld /\ ToldIsDurable)'
        BY <1>a, <1>b, <1>d, <2>a, <2>b DEF OneWriter, EffectsAreOld, Went,
           ToldIsDurable
    <2>7. QED
        BY <2>1, <2>2, <2>3, <2>4, <2>5, <2>6 DEF RpcInv
<1>6. ASSUME NEW c \in Clients, Run(c)
      PROVE  RpcInv'
    <2>a. /\ call[c].pc = "run"
          /\ UNCHANGED <<up, holder, highest, order, cache, activeId, published,
                         durable, accepted, okTold, effects, session>>
        BY <1>6 DEF Run, lockVars, cacheVars, cancelVars, execVars, historyVars
    <2>b. /\ exec' \in Executors
          /\ exec'.tokens = exec.tokens
          /\ ~exec'.poisoned => ~exec.poisoned
        BY <1>6, <1>a DEF Run, Undone, RpcTypeOK, Executors
    <2>c. PICK pc \in {"publish", "sealed"}, st \in {"none", "cancelled",
              "deadline", "failed", "poisoned"} :
              /\ Go(c, pc, st)
              /\ st = "none" <=> pc = "sealed"
              /\ st = "cancelled" => token = "cancelled"
              /\ token' \in {"active", "cancelled", "deadline", "sealed"} \/ token'
                 = token
              /\ token' = "cancelled" => token = "cancelled"
              /\ st = "none" => token' = "sealed" /\ token # "cancelled"
        BY <1>6 DEF Run, Failed
    <2>d. Went(c, pc, st)
        BY <1>c, <2>c, GoWent DEF Pcs, Statuses
    <2>1. RpcTypeOK'
        BY <1>a, <1>b, <1>d, <2>a, <2>b, <2>c, <2>d DEF RpcTypeOK, Executors,
           Requests, Went
    <2>2. (CacheInStep /\ CacheIsOld /\ AtMostOnce)'
        BY <1>a, <2>a DEF CacheInStep, CacheIsOld, AtMostOnce
    <2>3. (OneWriter /\ RegistryInStep)'
        BY <1>a, <1>b, <1>d, <2>a, <2>b, <2>c, <2>d DEF OneWriter, Went, Outcomes,
           RegistryInStep
    <2>4. (CacheIsPresent /\ JournalInStep)'
        BY <1>a, <1>b, <1>d, <2>a, <2>b, <2>c, <2>d DEF OneWriter, CacheIsPresent,
           Went, JournalInStep
    <2>5. (AnswersAreHonest /\ CancelIsHonest)'
        BY <1>a, <1>b, <1>d, <2>a, <2>b, <2>c, <2>d DEF OneWriter, RegistryInStep,
           CacheIsOld, AnswersAreHonest, Went, CancelIsHonest
    <2>6. (EffectsAreOld /\ ToldIsDurable)'
        BY <1>a, <1>b, <1>d, <2>a, <2>b, <2>c, <2>d DEF OneWriter, EffectsAreOld,
           Went, ToldIsDurable
    <2>7. QED
        BY <2>1, <2>2, <2>3, <2>4, <2>5, <2>6 DEF RpcInv
<1>7. ASSUME NEW c \in Clients, Finish(c)
      PROVE  RpcInv'
    <2>a. /\ call[c].pc = "sealed"
          /\ UNCHANGED <<up, holder, highest, order, cache, activeId, token,
                         published, durable, accepted, okTold>>
        BY <1>7 DEF Finish, lockVars, cacheVars, cancelVars, execVars, historyVars
    <2>1. ASSUME effects' = [effects EXCEPT ![call[c].id] = @ + 1],
                 exec' = [exec EXCEPT !.tokens = IF call[c].op = "reset" THEN <<>>
                                                 ELSE Append(@, call[c].id)],
                 session' = IF call[c].op = "reset" THEN session + 1 ELSE session,
                 Go(c, "journal", "ok")
          PROVE  RpcInv'
        <3>a. Went(c, "journal", "ok")
            BY <1>c, <2>1, GoWent DEF Pcs, Statuses
        <3>b. call[c].id \in Ids
            BY <1>a, <2>a DEF OneWriter
        <3>1. RpcTypeOK'
            <4>1. exec' \in Executors
                <5>1. PICK t \in Seq(Ids) : exec' = [exec EXCEPT !.tokens = t]
                    <6>1. exec.tokens \in Seq(Ids)
                        BY <1>a DEF RpcTypeOK, Executors
                    <6>2. (IF call[c].op = "reset" THEN <<>>
                           ELSE Append(exec.tokens, call[c].id)) \in Seq(Ids)
                        BY <3>b, <6>1, AppendProperties, EmptySeq
                    <6>3. QED
                        BY <2>1, <6>2
                <5>2. QED
                    BY <1>a, <5>1 DEF RpcTypeOK, Executors
            <4>2. effects' \in [Ids -> Nat] /\ session' \in Nat
                BY <1>e, <2>1, <3>b
            <4>3. QED
                BY <1>a, <2>a, <3>a, <4>1, <4>2 DEF RpcTypeOK, Went
        <3>2. (CacheInStep /\ CacheIsOld)'
            BY <1>a, <2>a DEF CacheInStep, CacheIsOld
        <3>3. (OneWriter /\ RegistryInStep)'
            BY <1>a, <1>b, <1>d, <2>a, <2>1, <3>a, <3>b DEF OneWriter, Went,
               RegistryInStep
        <3>4. (CacheIsPresent /\ JournalInStep)'
            BY <1>a, <1>b, <1>d, <2>a, <2>1, <3>a, <3>b DEF OneWriter,
               CacheIsPresent, Went, JournalInStep
        <3>5. (AnswersAreHonest /\ CancelIsHonest)'
            BY <1>a, <1>b, <1>d, <2>a, <2>1, <3>a, <3>b DEF OneWriter,
               RegistryInStep, CacheIsOld, AnswersAreHonest, Went, CancelIsHonest
        <3>6. EffectsAreOld'
            <4>1. call[c].id <= highest /\ up
                BY <1>a, <1>d, <2>a DEF OneWriter
            <4>2. \A i \in Ids : effects'[i] > 0 => effects[i] > 0 \/ i = call[c].id
                BY <1>e, <2>1, <3>b
            <4>3. \A d \in Clients : call'[d].pc \in {"register", "run", "sealed"}
                      =>
                        call[d].pc \in {"register", "run", "sealed"} /\ call'[d] =
                            call[d] /\ d # c
                BY <3>a DEF Went
            <4>4. \A d \in Clients : d # c => call[d].pc \notin {"register", "run",
                      "sealed"}
                BY <1>a, <2>a DEF OneWriter
            <4>5. QED
                BY <1>a, <1>e, <2>a, <4>1, <4>2, <4>3, <4>4 DEF EffectsAreOld
        <3>7. AtMostOnce'
            <4>1. HasJournal => effects[call[c].id] = 0
                BY <1>a, <2>a DEF EffectsAreOld
            <4>2. QED
                BY <1>a, <1>e, <2>1, <3>b, <4>1 DEF AtMostOnce
        <3>8. ToldIsDurable'
            BY <1>a, <1>b, <1>d, <2>a, <2>1, <3>a, <3>b DEF ToldIsDurable, Went
        <3>9. QED
            BY <3>1, <3>2, <3>3, <3>4, <3>5, <3>6, <3>7, <3>8 DEF RpcInv
    <2>2. ASSUME exec' \in IF call[c].op = "reset" THEN {[exec EXCEPT !.poisoned =
              TRUE]}
                           ELSE Undone,
                 Failed(c), UNCHANGED <<effects, session>>
          PROVE  RpcInv'
        <3>a. PICK st \in {"failed", "poisoned"} : Go(c, "publish", st)
            BY <2>2 DEF Failed
        <3>b. Went(c, "publish", st)
            BY <1>c, <3>a, GoWent DEF Pcs, Statuses
        <3>c. /\ exec' \in Executors /\ exec'.tokens = exec.tokens
              /\ ~exec'.poisoned => ~exec.poisoned
              /\ UNCHANGED <<effects, session>>
            BY <2>2, <1>a DEF Undone, RpcTypeOK, Executors
        <3>1. RpcTypeOK'
            BY <1>a, <1>b, <1>d, <2>a, <3>b, <3>c DEF RpcTypeOK, Executors,
               Requests, Went
        <3>2. (CacheInStep /\ CacheIsOld)'
            BY <1>a, <2>a DEF CacheInStep, CacheIsOld
        <3>3. (OneWriter /\ RegistryInStep)'
            BY <1>a, <1>b, <1>d, <2>a, <3>b, <3>c DEF OneWriter, Went, Outcomes,
               RegistryInStep
        <3>4. (CacheIsPresent /\ JournalInStep)'
            BY <1>a, <1>b, <1>d, <2>a, <3>b, <3>c DEF OneWriter, CacheIsPresent,
               Went, JournalInStep
        <3>5. (AnswersAreHonest /\ CancelIsHonest)'
            BY <1>a, <1>b, <1>d, <2>a, <3>b, <3>c DEF OneWriter, RegistryInStep,
               CacheIsOld, AnswersAreHonest, Went, CancelIsHonest
        <3>6. (EffectsAreOld /\ ToldIsDurable)'
            BY <1>a, <1>b, <1>d, <2>a, <3>b, <3>c DEF OneWriter, EffectsAreOld,
               Went, ToldIsDurable
        <3>7. AtMostOnce'
            BY <1>a, <1>b, <1>d, <2>a, <3>b, <3>c DEF EffectsAreOld, AtMostOnce,
               Went
        <3>8. QED
            BY <3>1, <3>2, <3>3, <3>4, <3>5, <3>6, <3>7 DEF RpcInv
    <2>3. QED
        BY <1>7, <2>1, <2>2 DEF Finish
<1>8. ASSUME NEW c \in Clients, Journal(c)
      PROVE  RpcInv'
    <2>a. /\ call[c].pc = "journal"
          /\ UNCHANGED <<up, holder, highest, order, cache, activeId, token,
                         published, accepted, okTold, effects, session>>
        BY <1>8 DEF Journal, lockVars, cacheVars, cancelVars, execVars, historyVars
    <2>1. ASSUME durable' = IF HasJournal THEN exec.tokens ELSE durable,
                 Go(c, "publish", "ok"), UNCHANGED exec
          PROVE  RpcInv'
        <3>a. Went(c, "publish", "ok")
            BY <1>c, <2>1, GoWent DEF Pcs, Statuses
        <3>b. durable' # None \/ ~HasJournal
            BY <1>a, <2>1, ExecutorRpcAssumption DEF RpcTypeOK, Executors
        <3>1. RpcTypeOK'
            BY <1>a, <1>b, <1>d, <2>a, <2>1, <3>a, <3>b DEF RpcTypeOK, Executors,
               Requests, Went
        <3>2. (CacheInStep /\ CacheIsOld /\ AtMostOnce)'
            BY <1>a, <2>a DEF CacheInStep, CacheIsOld, AtMostOnce
        <3>3. (OneWriter /\ RegistryInStep)'
            BY <1>a, <1>b, <1>d, <2>a, <2>1, <3>a, <3>b DEF OneWriter, Went,
               Outcomes, RegistryInStep
        <3>4. (CacheIsPresent /\ JournalInStep)'
            BY <1>a, <1>b, <1>d, <2>a, <2>1, <3>a, <3>b DEF OneWriter,
               CacheIsPresent, Went, JournalInStep
        <3>5. (AnswersAreHonest /\ CancelIsHonest)'
            BY <1>a, <1>b, <1>d, <2>a, <2>1, <3>a, <3>b DEF OneWriter,
               RegistryInStep, CacheIsOld, AnswersAreHonest, Went, CancelIsHonest
        <3>6. (EffectsAreOld /\ ToldIsDurable)'
            BY <1>a, <1>b, <1>d, <2>a, <2>1, <3>a, <3>b DEF OneWriter,
               EffectsAreOld, Went, ToldIsDurable
        <3>7. QED
            BY <3>1, <3>2, <3>3, <3>4, <3>5, <3>6 DEF RpcInv
    <2>2. ASSUME HasJournal, durable' \in {durable, exec.tokens},
                 exec' = [exec EXCEPT !.poisoned = TRUE],
                 Go(c, "publish", "poisoned")
          PROVE  RpcInv'
        <3>a. Went(c, "publish", "poisoned")
            BY <1>c, <2>2, GoWent DEF Pcs, Statuses
        <3>b. durable' = None => durable = None
            BY <1>a, <2>2, ExecutorRpcAssumption DEF RpcTypeOK, Executors
        <3>1. RpcTypeOK'
            BY <1>a, <1>b, <1>d, <2>a, <2>2, <3>a, <3>b DEF RpcTypeOK, Executors,
               Requests, Went
        <3>2. (CacheInStep /\ CacheIsOld /\ AtMostOnce)'
            BY <1>a, <2>a DEF CacheInStep, CacheIsOld, AtMostOnce
        <3>3. (OneWriter /\ RegistryInStep)'
            BY <1>a, <1>b, <1>d, <2>a, <2>2, <3>a, <3>b DEF OneWriter, Went,
               Outcomes, RegistryInStep
        <3>4. (CacheIsPresent /\ JournalInStep)'
            BY <1>a, <1>b, <1>d, <2>a, <2>2, <3>a, <3>b DEF OneWriter,
               CacheIsPresent, Went, JournalInStep
        <3>5. (AnswersAreHonest /\ CancelIsHonest)'
            BY <1>a, <1>b, <1>d, <2>a, <2>2, <3>a, <3>b DEF OneWriter,
               RegistryInStep, CacheIsOld, AnswersAreHonest, Went, CancelIsHonest
        <3>6. (EffectsAreOld /\ ToldIsDurable)'
            BY <1>a, <1>b, <1>d, <2>a, <2>2, <3>a, <3>b DEF OneWriter,
               EffectsAreOld, Went, ToldIsDurable
        <3>7. QED
            BY <3>1, <3>2, <3>3, <3>4, <3>5, <3>6 DEF RpcInv
    <2>3. QED
        BY <1>8, <2>1, <2>2 DEF Journal
<1>9. ASSUME NEW c \in Clients, Publish(c)
      PROVE  RpcInv'
    <2> DEFINE id == call[c].id
               old == IF call[c].op = "reset" THEN <<>> ELSE order
               entry == [op |-> call[c].op, status |-> call[c].status, session |->
                   session]
    <2>a. /\ call[c].pc = "publish" /\ published' = exec
          /\ activeId' = (IF activeId = id THEN 0 ELSE activeId) /\ token' = "none"
          /\ holder' = None
          /\ UNCHANGED <<up, highest, exec, durable, accepted, okTold, effects,
                         session>>
        BY <1>9 DEF Publish, lockVars, cacheVars, cancelVars, execVars, historyVars
    <2>b. call[c].status \in Outcomes /\ call[c].op \in Writers /\ holder = c
        BY <1>a, <2>a DEF OneWriter
    <2>c. Went(c, "reply", call[c].status)
        BY <1>9, <1>c, <2>b, GoWent DEF Publish, Pcs, Statuses, Outcomes
    <2>d. /\ id \in Ids /\ id = highest /\ id \notin DOMAIN cache /\ up
          /\ activeId \in {0, id} /\ activeId' = 0
        BY <1>a, <1>b, <2>a, <2>b DEF OneWriter, CacheIsOld, RegistryInStep
    <2>e. /\ order' \in Seq(Ids) /\ Len(order') <= CacheCap
          /\ \A i, j \in 1..Len(order') : order'[i] = order'[j] => i = j
          /\ \E k \in 1..Len(order') : order'[k] = id
          /\ \A k \in 1..Len(order') : order'[k] = id \/ order'[k] \in DOMAIN cache
          /\ call[c].op = "reset" => \A k \in 1..Len(order') : order'[k] = id
        <3>1. /\ old \in Seq(Ids) /\ Len(old) <= CacheCap
              /\ \A i, j \in 1..Len(old) : old[i] = old[j] => i = j
              /\ \A k \in 1..Len(old) : old[k] # id /\ old[k] \in DOMAIN cache
              /\ call[c].op = "reset" => old = <<>>
            <4>1. CASE call[c].op = "reset"
                BY <4>1, <1>f
            <4>2. CASE call[c].op # "reset"
                BY <4>2, <1>a, <2>d DEF CacheInStep
            <4>3. QED
                BY <4>1, <4>2
        <3>2. order' = Remembered(old, id)
            BY <1>9 DEF Publish, NewOrder
        <3>3. QED
            BY <2>d, <3>1, <3>2, RememberedOrder
    <2>f. /\ DOMAIN cache' = {order'[k] : k \in 1..Len(order')}
          /\ id \in DOMAIN cache' /\ cache'[id] = entry
          /\ \A i \in DOMAIN cache' : i # id => i \in DOMAIN cache /\ cache'[i] =
             cache[i]
          /\ call[c].op = "reset" => DOMAIN cache' = {id}
          /\ \A i \in DOMAIN cache' : i = id \/ i \in DOMAIN cache
        <3>1. cache' = [i \in {order'[k] : k \in DOMAIN order'} |->
                           IF i = id THEN entry ELSE cache[i]]
            BY <1>9 DEF Publish
        <3>2. DOMAIN order' = 1..Len(order')
            BY <2>e
        <3>3. QED
            BY <2>e, <3>1, <3>2
    <2> HIDE DEF old, id, entry
    <2>g. /\ id = call[c].id
          /\ entry.op = call[c].op /\ entry.status = call[c].status
          /\ entry.session = session
          /\ entry \in [op : Writers, status : Statuses, session : Nat]
        BY <1>e, <2>b DEF id, entry, Outcomes, Statuses
    <2>1. RpcTypeOK'
        BY <1>a, <1>b, <2>a, <2>c, <2>d DEF RpcTypeOK, Went
    <2>2. CacheInStep'
        <3> DEFINE entries == [op : Writers, status : Statuses, session : Nat]
        <3>1. \A i \in DOMAIN cache : cache[i] \in entries
            BY <1>a DEF CacheInStep
        <3>2. \A i \in DOMAIN cache' : cache'[i] \in entries
            BY <2>f, <2>g, <3>1
        <3>3. cache' = [i \in DOMAIN cache' |-> cache'[i]]
            BY <1>9 DEF Publish
        <3>4. QED
            BY <2>e, <2>f, <3>2, <3>3 DEF CacheInStep
    <2>3. OneWriter'
        BY <1>a, <1>b, <1>d, <2>a, <2>b, <2>c, <2>d, <2>f, <2>g DEF OneWriter, Went,
           Outcomes
    <2>4. CacheIsOld'
        BY <1>a, <1>b, <1>d, <2>a, <2>b, <2>c, <2>d, <2>f, <2>g DEF OneWriter,
           CacheIsOld, Went, Outcomes
    <2>5. CacheIsPresent'
        <3>1. call[c].op # "reset" =>
                \A i \in DOMAIN cache : cache[i].session = session
            BY <1>a, <1>b, <2>b DEF OneWriter, CacheIsPresent
        <3>2. \A i \in DOMAIN cache' : cache'[i].session = session
            BY <2>b, <2>f, <2>g, <3>1
        <3>3. QED
            BY <2>a, <3>2 DEF CacheIsPresent
    <2>6. RegistryInStep'
        BY <1>a, <1>b, <1>d, <2>a, <2>b, <2>c, <2>d, <2>f, <2>g DEF OneWriter,
           RegistryInStep, Went, Outcomes
    <2>7. AnswersAreHonest'
        <3>1. /\ call[c].status = "cancelled" => id \in accepted
              /\ call[c].status = "ok" => id \notin accepted
            BY <1>a, <2>g DEF CancelIsHonest
        <3>2. \A i \in DOMAIN cache' :
                /\ cache'[i].status = "cancelled" => i \in accepted'
                /\ cache'[i].status = "ok" => i \notin accepted'
            BY <1>a, <2>a, <2>f, <2>g, <3>1 DEF AnswersAreHonest
        <3>3. \A d \in Clients :
                /\ call'[d].status = "cancelled" => call'[d].op \in Writers
                /\ call'[d].status \in {"ok", "cancelled"} =>
                      (call'[d].op \in Writers => call'[d].id <= highest')
            BY <1>a, <1>d, <2>a, <2>b, <2>c, <2>d, <2>g DEF AnswersAreHonest, Went
        <3>4. QED
            BY <2>a, <3>2, <3>3 DEF AnswersAreHonest
    <2>8. CancelIsHonest'
        BY <1>a, <1>b, <1>d, <2>a, <2>b, <2>c, <2>d, <2>f, <2>g DEF OneWriter,
           RegistryInStep, AnswersAreHonest, CancelIsHonest, Went, Outcomes
    <2>9. EffectsAreOld'
        BY <1>a, <1>b, <1>d, <2>a, <2>b, <2>c, <2>d, <2>f, <2>g DEF OneWriter,
           EffectsAreOld, Went, Outcomes
    <2>10. AtMostOnce'
        BY <1>a, <1>b, <1>d, <2>a, <2>b, <2>c, <2>d, <2>f, <2>g DEF EffectsAreOld,
           AtMostOnce, Went, Outcomes
    <2>11. ToldIsDurable'
        BY <1>a, <1>b, <1>d, <2>a, <2>b, <2>c, <2>d, <2>f, <2>g DEF ToldIsDurable,
           Went, Outcomes
    <2>12. JournalInStep'
        BY <1>a, <1>b, <1>d, <2>a, <2>b, <2>c, <2>d, <2>f, <2>g DEF OneWriter,
           JournalInStep, Went, Outcomes
    <2>13. QED
        BY <2>1, <2>2, <2>3, <2>4, <2>5, <2>6, <2>7, <2>8, <2>9, <2>10, <2>11, <2>12
           DEF RpcInv
<1>10. ASSUME NEW c \in Clients, Reply(c)
       PROVE  RpcInv'
    <2>a. /\ call[c].pc = "reply"
          /\ call' \in [Clients -> Requests]
          /\ call'[c] = Quiet
          /\ \A d \in Clients : d # c => call'[d] = call[d]
        BY <1>10, <1>c, <1>b DEF Reply, Quiet, Requests, Pcs, Statuses
    <2>b. UNCHANGED <<up, holder, highest, order, cache, activeId, token, published,
                      exec, durable, accepted, effects, session>>
        BY <1>10 DEF Reply, lockVars, cacheVars, cancelVars, execVars, historyVars
    <2>c. /\ okTold' = okTold
             \/ /\ okTold' = okTold \cup {call[c].id}
                /\ call[c].status = "ok" /\ call[c].op \in Writers
          /\ call[c].id \in Ids
        BY <1>10, <1>a, <2>a DEF Reply, OneWriter
    <2>1. RpcTypeOK'
        BY <1>a, <1>b, <1>d, <2>a, <2>b, <2>c DEF RpcTypeOK, Executors, Requests,
           Quiet
    <2>2. (CacheInStep /\ CacheIsOld /\ AtMostOnce)'
        BY <1>a, <2>b DEF CacheInStep, CacheIsOld, AtMostOnce
    <2>3. (OneWriter /\ RegistryInStep)'
        BY <1>a, <1>b, <1>d, <2>a, <2>b, <2>c DEF OneWriter, Quiet, RegistryInStep
    <2>4. (CacheIsPresent /\ JournalInStep)'
        BY <1>a, <1>b, <1>d, <2>a, <2>b, <2>c DEF OneWriter, CacheIsPresent, Quiet,
           JournalInStep
    <2>5. (AnswersAreHonest /\ CancelIsHonest)'
        BY <1>a, <1>b, <1>d, <2>a, <2>b, <2>c DEF OneWriter, RegistryInStep,
           CacheIsOld, AnswersAreHonest, Quiet, CancelIsHonest
    <2>6. (EffectsAreOld /\ ToldIsDurable)'
        BY <1>a, <1>b, <1>d, <2>a, <2>b, <2>c DEF OneWriter, EffectsAreOld, Quiet,
           ToldIsDurable
    <2>7. QED
        BY <2>1, <2>2, <2>3, <2>4, <2>5, <2>6 DEF RpcInv
<1>11. ASSUME NEW id \in Ids, Cancel(id)
       PROVE  RpcInv'
    <2>a. /\ activeId = id /\ token = "active" /\ token' = "cancelled"
          /\ accepted' = accepted \cup {id}
          /\ UNCHANGED <<up, call, holder, highest, order, cache, activeId,
                         published,
                         exec, durable, okTold, effects, session>>
        BY <1>11 DEF Cancel, lockVars, cacheVars, cancelVars, execVars, historyVars
    <2>b. id = highest /\ holder # None /\ id # 0
        BY <1>a, <1>b, <2>a DEF RegistryInStep
    <2>1. RpcTypeOK'
        BY <1>a, <1>b, <1>d, <2>a, <2>b DEF RpcTypeOK, Executors, Requests
    <2>2. (CacheInStep /\ CacheIsOld /\ CacheIsPresent /\ EffectsAreOld /\
              AtMostOnce /\ JournalInStep)'
        BY <1>a, <2>a DEF CacheInStep, CacheIsOld, CacheIsPresent, EffectsAreOld,
           AtMostOnce, JournalInStep
    <2>3. (OneWriter /\ RegistryInStep)'
        BY <1>a, <1>b, <1>d, <2>a, <2>b DEF OneWriter, RegistryInStep
    <2>4. (AnswersAreHonest /\ CancelIsHonest)'
        BY <1>a, <1>b, <1>d, <2>a, <2>b DEF OneWriter, RegistryInStep, CacheIsOld,
           AnswersAreHonest, CancelIsHonest
    <2>5. ToldIsDurable'
        BY <1>a, <1>b, <1>d, <2>a, <2>b DEF ToldIsDurable
    <2>6. QED
        BY <2>1, <2>2, <2>3, <2>4, <2>5 DEF RpcInv
<1>12. CASE Crash
    <2>a. /\ up' = FALSE /\ holder' = None /\ highest' = 0
          /\ order' = <<>> /\ cache' = <<>> /\ activeId' = 0 /\ token' = "none"
          /\ published' = FreshExecutor /\ exec' = FreshExecutor
          /\ accepted' = {} /\ session' = 0
          /\ effects' = [i \in Ids |-> IF i \in okTold THEN effects[i] ELSE 0]
          /\ UNCHANGED <<durable, okTold>>
        BY <1>12 DEF Crash
    <2>b. /\ call' \in [Clients -> Requests]
          /\ \A d \in Clients : call'[d] = Quiet
        BY <1>12, <1>b DEF Crash, Quiet, Requests, Pcs, Statuses
    <2>c. DOMAIN cache' = {}
        BY <2>a
    <2>d. FreshExecutor \in Executors
        BY DEF FreshExecutor, Executors
    <2>1. RpcTypeOK'
        <3>1. effects' \in [Ids -> Nat]
            BY <1>e, <2>a
        <3>2. QED
            BY <1>a, <2>a, <2>b, <2>d, <1>b, <1>e, <3>1, 0 \in 0..MaxId DEF
               RpcTypeOK
    <2>2. CacheInStep'
        <3>1. cache' \in [{order'[k] : k \in 1..Len(order')} ->
                          [op : Writers, status : Statuses, session : Nat]]
            BY <2>a, EmptyCache
        <3>2. QED
            BY <2>a, <3>1, <1>f DEF CacheInStep
    <2>3. OneWriter'
        BY <1>a, <1>b, <1>d, <2>a, <2>b, <2>c DEF OneWriter, Quiet, FreshExecutor
    <2>4. CacheIsOld'
        BY <1>a, <1>b, <1>d, <2>a, <2>b, <2>c DEF OneWriter, CacheIsOld, Quiet,
           FreshExecutor
    <2>5. CacheIsPresent'
        BY <1>a, <1>b, <1>d, <2>a, <2>b, <2>c DEF OneWriter, CacheIsPresent, Quiet,
           FreshExecutor
    <2>6. RegistryInStep'
        BY <1>a, <1>b, <1>d, <2>a, <2>b, <2>c DEF OneWriter, RegistryInStep, Quiet,
           FreshExecutor
    <2>7. AnswersAreHonest'
        BY <1>a, <1>b, <1>d, <2>a, <2>b, <2>c DEF OneWriter, RegistryInStep,
           CacheIsOld, AnswersAreHonest, Quiet, FreshExecutor
    <2>8. CancelIsHonest'
        BY <1>a, <1>b, <1>d, <2>a, <2>b, <2>c DEF OneWriter, RegistryInStep,
           AnswersAreHonest, CancelIsHonest, Quiet, FreshExecutor
    <2>9. EffectsAreOld'
        BY <1>a, <1>b, <1>d, <2>a, <2>b, <2>c DEF OneWriter, EffectsAreOld, Quiet,
           FreshExecutor
    <2>10. AtMostOnce'
        BY <1>a, <1>b, <1>d, <2>a, <2>b, <2>c DEF EffectsAreOld, AtMostOnce, Quiet,
           FreshExecutor
    <2>11. ToldIsDurable'
        BY <1>a, <1>b, <1>d, <2>a, <2>b, <2>c DEF ToldIsDurable, Quiet,
           FreshExecutor
    <2>12. JournalInStep'
        BY <1>a, <1>b, <1>d, <2>a, <2>b, <2>c DEF OneWriter, JournalInStep, Quiet,
           FreshExecutor
    <2>13. QED
        BY <2>1, <2>2, <2>3, <2>4, <2>5, <2>6, <2>7, <2>8, <2>9, <2>10, <2>11, <2>12
           DEF RpcInv
<1>13. CASE Restart
    <2>a. /\ ~up /\ durable = None /\ up' = TRUE
          /\ UNCHANGED <<call, holder, highest, order, cache, activeId, token,
                         published,
                         exec, durable, accepted, okTold, effects, session>>
        BY <1>13 DEF Restart, cacheVars, cancelVars, execVars, historyVars
    <2>1. RpcTypeOK'
        BY <1>a, <1>b, <1>d, <2>a DEF RpcTypeOK, Executors, Requests, FreshExecutor
    <2>2. (CacheInStep /\ CacheIsOld /\ CacheIsPresent /\ RegistryInStep /\
              AtMostOnce)'
        BY <1>a, <2>a DEF CacheInStep, CacheIsOld, CacheIsPresent, RegistryInStep,
           AtMostOnce
    <2>3. OneWriter'
        BY <1>a, <1>b, <1>d, <2>a DEF OneWriter, FreshExecutor
    <2>4. (AnswersAreHonest /\ CancelIsHonest)'
        BY <1>a, <1>b, <1>d, <2>a DEF OneWriter, RegistryInStep, CacheIsOld,
           AnswersAreHonest, FreshExecutor, CancelIsHonest
    <2>5. (EffectsAreOld /\ ToldIsDurable)'
        BY <1>a, <1>b, <1>d, <2>a DEF OneWriter, EffectsAreOld, ToldIsDurable,
           FreshExecutor
    <2>6. JournalInStep'
        BY <1>a, <1>b, <1>d, <2>a DEF OneWriter, JournalInStep, FreshExecutor
    <2>7. QED
        BY <2>1, <2>2, <2>3, <2>4, <2>5, <2>6 DEF RpcInv
<1>14. CASE UNCHANGED rpcVars
    <2>a. UNCHANGED <<up, call, holder, highest, order, cache, activeId, token,
                      published, exec, durable, accepted, okTold, effects, session>>
        BY <1>14 DEF rpcVars, lockVars, cacheVars, cancelVars, execVars, historyVars
    <2>b. QED
        BY <1>a, <2>a DEF RpcInv, RpcTypeOK, CacheInStep, OneWriter, CacheIsOld,
           CacheIsPresent, RegistryInStep, AnswersAreHonest, CancelIsHonest,
           EffectsAreOld, AtMostOnce, ToldIsDurable, JournalInStep
<1>15. QED
    BY <1>1, <1>2, <1>3, <1>4, <1>5, <1>6, <1>7, <1>8, <1>9, <1>10, <1>11, <1>12,
       <1>13, <1>14
    DEF RpcNext

\* A service that has just started satisfies the inductive invariant.
LEMMA RpcInitInv == RpcInit => RpcInv
<1> SUFFICES ASSUME RpcInit PROVE RpcInv
    OBVIOUS
<1>a. /\ MaxId \in Nat /\ CacheCap \in Nat /\ None \notin Clients
    BY ExecutorRpcAssumption
<1>b. FreshExecutor \in Executors /\ FreshExecutor.tokens = <<>>
    BY DEF FreshExecutor, Executors
<1>c. /\ up /\ call \in [Clients -> Requests] /\ \A c \in Clients : call[c] = Quiet
      /\ holder = None /\ highest = 0 /\ activeId = 0 /\ token = "none"
      /\ order = <<>> /\ cache = <<>> /\ DOMAIN cache = {}
      /\ published = FreshExecutor /\ exec = FreshExecutor
      /\ durable = None /\ accepted = {} /\ okTold = {}
      /\ effects \in [Ids -> Nat] /\ \A id \in Ids : effects[id] = 0
      /\ session = 0
    BY <1>a DEF RpcInit, Quiet, Requests, Pcs, Statuses, Writers
<1>1. RpcTypeOK
    BY <1>a, <1>b, <1>c, 0 \in 0..MaxId DEF RpcTypeOK
<1>2. CacheInStep
    <2>1. cache \in [{order[k] : k \in 1..Len(order)} ->
                     [op : Writers, status : Statuses, session : Nat]]
        BY <1>c, EmptyCache
    <2>2. QED
        BY <1>a, <1>c, <2>1 DEF CacheInStep
<1>3. OneWriter /\ CacheIsOld /\ CacheIsPresent
    BY <1>a, <1>c DEF OneWriter, CacheIsOld, CacheIsPresent, Quiet, Admitted
<1>4. RegistryInStep /\ AnswersAreHonest /\ CancelIsHonest
    BY <1>a, <1>c DEF RegistryInStep, AnswersAreHonest, CancelIsHonest, Quiet
<1>5. EffectsAreOld /\ AtMostOnce /\ ToldIsDurable
    BY <1>a, <1>c DEF EffectsAreOld, AtMostOnce, ToldIsDurable, Quiet
<1>6. JournalInStep
    BY <1>b, <1>c DEF JournalInStep
<1>7. QED
    BY <1>1, <1>2, <1>3, <1>4, <1>5, <1>6 DEF RpcInv

\* The inductive invariant holds in every reachable state of the service.
THEOREM RpcInvariant == RpcSpec => []RpcInv
    BY RpcInitInv, RpcInvInductive, PTL DEF RpcSpec

\* The service's state stays well typed, and writer_response_order and
\* writer_responses stay in step and within the capacity.
THEOREM RpcTypeCorrect == RpcSpec => [](RpcTypeOK /\ CacheInStep)
<1>1. RpcInv => RpcTypeOK /\ CacheInStep
    BY DEF RpcInv
<1>2. QED
    BY <1>1, RpcInvariant, PTL

\* With a journal, no request takes effect twice, whatever mix of retries,
\* resets, evictions, cancellations, lost responses, crashes and restarts
\* (the duplicate and stale tests of handle, and the journal's refusal to start).
THEOREM RequestsTakeEffectAtMostOnce == RpcSpec => []AtMostOnce
<1>1. RpcInv => AtMostOnce
    BY DEF RpcInv
<1>2. QED
    BY <1>1, RpcInvariant, PTL

\* Between two writers the response to the latest request is cached, so a caller
\* that lost it can ask again: the eviction of the oldest response and the
\* clearing by a reset never take it.
THEOREM LatestAnswerIsReplayable == RpcSpec => []LastAnswerReplayable
<1>1. RpcInv => LastAnswerReplayable
    BY DEF RpcInv, CacheIsOld, LastAnswerReplayable
<1>2. QED
    BY <1>1, RpcInvariant, PTL

\* No response of a session that a reset ended is left to replay.
THEOREM NoAnswerSurvivesReset == RpcSpec => []NoReplayAcrossReset
<1>1. RpcInv => NoReplayAcrossReset
    BY ExecutorRpcAssumption
    DEF RpcInv, OneWriter, CacheIsPresent, NoReplayAcrossReset, Admitted
<1>2. QED
    BY <1>1, RpcInvariant, PTL

\* A request ends "cancelled" only when its cancellation was accepted, and one
\* whose cancellation was accepted never ends "ok", its replays included.
THEOREM CancellationIsHonest == RpcSpec => []CancelIsHonest
<1>1. RpcInv => CancelIsHonest
    BY DEF RpcInv
<1>2. QED
    BY <1>1, RpcInvariant, PTL

\* Whenever the writer mutex is free, the published frontiers are the executor's,
\* and a healthy executor with a journal has its state as the last record there.
THEOREM PublishedStateIsCurrent == RpcSpec => []PublishedIsCurrent
<1>1. RpcInv => PublishedIsCurrent
    BY ExecutorRpcAssumption
    DEF RpcInv, OneWriter, JournalInStep, PublishedIsCurrent, Admitted
<1>2. QED
    BY <1>1, RpcInvariant, PTL
=============================================================================
