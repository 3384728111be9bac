---------------------------- MODULE ExecutorRpc -----------------------------
(***************************************************************************)
(* ExecutorRpcServiceV1 (src/src/rpc.cc): one thread per connection, the   *)
(* writer mutex that admits one mutating request at a time, the state mutex*)
(* under which the idempotence cache and the cancellation registry are     *)
(* read and written, the durable snapshot journal, and the crash of the    *)
(* whole process.                                                          *)
(*                                                                         *)
(* Every block the code runs under state_mutex is one step; the executor   *)
(* call and the journal append between two such blocks are steps of their  *)
(* own, so that cancellations and other connections fall in between.  The  *)
(* executor is what TokenSession promises: a call has its whole effect, or *)
(* none, or leaves the executor poisoned.  The session's content is the    *)
(* sequence of the ids whose requests took effect; the four writer opcodes *)
(* that extend it are all "extend".  A malformed request is answered       *)
(* kBadRequest before anything is looked at and is left out.               *)
(***************************************************************************)
EXTENDS Naturals, Sequences, FiniteSets, TLC

CONSTANTS Clients,        \* connection threads
          MaxId,          \* bound: the request ids callers use are 1..MaxId
          CacheCap,       \* kMaximumCachedWriterResponses
          HasJournal,     \* a snapshot journal was configured
          None            \* nobody, nothing

ASSUME ExecutorRpcAssumption ==
    /\ MaxId \in Nat \ {0}
    /\ CacheCap \in Nat \ {0}
    /\ HasJournal \in BOOLEAN
    /\ None \notin Clients /\ None \notin Seq(1..MaxId)

VARIABLES up,             \* the process runs
          call,           \* [Clients -> the request a thread handles]
          holder,         \* owner of writer_mutex, or None
          highest,        \* highest_writer_request_id
          order, cache,   \* writer_response_order, writer_responses
          activeId,       \* active_writer_request_id (0: none)
          token,          \* state of the holder's CancellationToken
          published,      \* published_frontiers, published_poisoned
          exec,           \* the executor: [tokens, poisoned]
          durable,        \* the last whole journal record, or None
          \* history
          accepted,       \* ids whose cancellation was accepted
          okTold,         \* ids a caller was told took effect
          effects,        \* how often each id took effect
          session         \* how many resets took effect

lockVars == <<up, call, holder>>
cacheVars == <<highest, order, cache>>
cancelVars == <<activeId, token>>
execVars == <<exec, durable>>
historyVars == <<accepted, okTold, effects, session>>
rpcVars == <<lockVars, cacheVars, cancelVars, published, execVars, historyVars>>

Ids == 1..MaxId
Writers == {"extend", "reset"}
Quiet == [pc |-> "idle", id |-> 0, op |-> "none", status |-> "none"]
FreshExecutor == [tokens |-> <<>>, poisoned |-> FALSE]

RpcInit ==
    /\ up = TRUE
    /\ call = [c \in Clients |-> Quiet]
    /\ holder = None
    /\ highest = 0 /\ order = <<>> /\ cache = <<>>
    /\ activeId = 0 /\ token = "none"
    /\ published = FreshExecutor /\ exec = FreshExecutor
    /\ durable = None
    /\ accepted = {} /\ okTold = {}
    /\ effects = [id \in Ids |-> 0] /\ session = 0

-----------------------------------------------------------------------------
\* Thread c goes on at `pc', its response so far being `status'.
Go(c, pc, status) ==
    call' = [call EXCEPT ![c].pc = pc, ![c].status = status]

\* A request arrives on connection c, for the first time or again.
Receive(c, id, op) ==
    /\ up
    /\ call[c].pc = "idle"
    /\ call' = [call EXCEPT ![c] = [pc |-> "waiting", id |-> id, op |-> op,
                                    status |-> "none"]]
    /\ UNCHANGED <<up, holder, cacheVars, cancelVars, published, execVars, historyVars>>

\* A read (ping, state, stats, logits) takes the writer mutex for its duration;
\* logits are refused when they are disabled or there are none.
Read(c) ==
    /\ call[c].pc = "waiting" /\ call[c].op = "read"
    /\ holder = None
    /\ \E st \in IF exec.poisoned THEN {"poisoned"} ELSE {"ok", "failed"} :
          Go(c, "reply", st)
    /\ UNCHANGED <<up, holder, cacheVars, cancelVars, published, execVars, historyVars>>

\* The id was answered before: the same request gets the same response, a
\* different one is refused; an id without a cached response must be new.
Replay(c) ==
    LET id == call[c].id IN
    /\ call[c].pc = "waiting" /\ call[c].op \in Writers
    /\ holder = None
    /\ id \in DOMAIN cache \/ id <= highest
    /\ Go(c, "reply", IF id \notin DOMAIN cache THEN "stale"
                      ELSE IF cache[id].op = call[c].op THEN cache[id].status
                      ELSE "conflict")
    /\ UNCHANGED <<up, holder, cacheVars, cancelVars, published, execVars, historyVars>>

\* Mutant: the highest id is not recorded.
AdmitUnrecorded(c) ==
    LET id == call[c].id IN
    /\ call[c].pc = "waiting" /\ call[c].op \in Writers
    /\ holder = None
    /\ id \notin DOMAIN cache /\ id > highest
    /\ holder' = c
    /\ IF published.poisoned THEN Go(c, "publish", "poisoned")
       ELSE Go(c, "register", "none")
    /\ UNCHANGED <<up, cacheVars, cancelVars, published, execVars, historyVars>>

\* A new id: the thread keeps the writer mutex until it has published.
Admit(c) ==
    LET id == call[c].id IN
    /\ call[c].pc = "waiting" /\ call[c].op \in Writers
    /\ holder = None
    /\ id \notin DOMAIN cache /\ id > highest
    /\ holder' = c
    /\ highest' = id
    /\ IF published.poisoned THEN Go(c, "publish", "poisoned")
       ELSE Go(c, "register", "none")
    /\ UNCHANGED <<up, order, cache, cancelVars, published, execVars, historyVars>>

\* From here on a Cancel finds the request.
Register(c) ==
    /\ call[c].pc = "register"
    /\ activeId' = call[c].id /\ token' = "active"
    /\ Go(c, "run", "none")
    /\ UNCHANGED <<up, holder, cacheVars, published, execVars, historyVars>>

\* A transaction that is undone: a rollback that fails poisons the executor.
Undone == {exec, [exec EXCEPT !.poisoned = TRUE]}

\* The call threw: the response names the exception's class, which need not
\* tell that the executor is poisoned now.
Failed(c) ==
    \E st \in {"failed"} \cup (IF exec'.poisoned THEN {"poisoned"} ELSE {}) :
        Go(c, "publish", st)

\* The executor call up to its commit point: a cancelled token, a deadline or
\* (not for a reset, which has nothing before it) a failure ends it; otherwise
\* the token is sealed.
Run(c) ==
    LET undone == IF call[c].op = "reset" THEN {exec} ELSE Undone IN
    /\ call[c].pc = "run"
    /\ \/ /\ token = "cancelled"
          /\ exec' \in undone
          /\ Go(c, "publish", "cancelled")
          /\ UNCHANGED token
       \/ /\ token = "active"
          /\ token' = "deadline"
          /\ exec' \in undone
          /\ Go(c, "publish", "deadline")
       \/ /\ token = "active"
          /\ token' = "sealed"
          /\ Go(c, "sealed", "none")
          /\ UNCHANGED exec
       \/ /\ call[c].op # "reset"
          /\ exec' \in undone
          /\ Failed(c)
          /\ UNCHANGED token
    /\ UNCHANGED <<up, holder, cacheVars, activeId, published, durable, historyVars>>

\* After the commit point: the effect, or the failure of a backend, which
\* poisons the executor, or a precondition that seed_decode tests only now.
Finish(c) ==
    LET id == call[c].id  reset == call[c].op = "reset" IN
    /\ call[c].pc = "sealed"
    /\ \/ /\ exec' = [exec EXCEPT !.tokens = IF reset THEN <<>> ELSE Append(@, id)]
          /\ effects' = [effects EXCEPT ![id] = @ + 1]
          /\ session' = IF reset THEN session + 1 ELSE session
          /\ Go(c, "journal", "ok")
       \/ /\ exec' \in IF reset THEN {[exec EXCEPT !.poisoned = TRUE]} ELSE Undone
          /\ Failed(c)
          /\ UNCHANGED <<effects, session>>
    /\ UNCHANGED <<up, holder, cacheVars, cancelVars, published, durable, accepted, okTold>>

\* Mutant: a snapshot that could not be made durable is shrugged off.
JournalForgiving(c) ==
    /\ call[c].pc = "journal"
    /\ durable' \in {durable, IF HasJournal THEN exec.tokens ELSE durable}
    /\ Go(c, "publish", "ok")
    /\ UNCHANGED <<up, holder, cacheVars, cancelVars, published, exec, historyVars>>

\* A snapshot of the committed state is appended; if that fails, whether or not
\* the record reached the disk, the session is isolated.
Journal(c) ==
    /\ call[c].pc = "journal"
    /\ \/ /\ durable' = IF HasJournal THEN exec.tokens ELSE durable
          /\ Go(c, "publish", "ok")
          /\ UNCHANGED exec
       \/ /\ HasJournal
          /\ durable' \in {durable, exec.tokens}
          /\ exec' = [exec EXCEPT !.poisoned = TRUE]
          /\ Go(c, "publish", "poisoned")
    /\ UNCHANGED <<up, holder, cacheVars, cancelVars, published, historyVars>>

\* The cache after a response: a reset drops the older ones first, and the
\* oldest is evicted beyond the capacity.
Remembered(o, id) == IF Len(o) >= CacheCap THEN Append(Tail(o), id) ELSE Append(o, id)

\* Mutant: a reset keeps the old session's responses.
NewOrderKept(op, id) == Remembered(order, id)

\* Mutant: a reset drops its own response as well.
NewOrderDropsAll(op, id) == IF op = "reset" THEN <<>> ELSE Remembered(order, id)

NewOrder(op, id) == Remembered(IF op = "reset" THEN <<>> ELSE order, id)

Publish(c) ==
    LET id == call[c].id
        entry == [op |-> call[c].op, status |-> call[c].status, session |-> session] IN
    /\ call[c].pc = "publish"
    /\ published' = exec
    /\ activeId' = IF activeId = id THEN 0 ELSE activeId
    /\ token' = "none"
    /\ order' = NewOrder(call[c].op, id)
    /\ cache' = [i \in {order'[k] : k \in DOMAIN order'} |->
                    IF i = id THEN entry ELSE cache[i]]
    /\ holder' = None
    /\ Go(c, "reply", call[c].status)
    /\ UNCHANGED <<up, highest, execVars, historyVars>>

\* The response is written to the connection, or the connection is gone.
Reply(c) ==
    /\ call[c].pc = "reply"
    /\ call' = [call EXCEPT ![c] = Quiet]
    /\ okTold' \in {okTold, IF call[c].status = "ok" /\ call[c].op \in Writers
                            THEN okTold \cup {call[c].id} ELSE okTold}
    /\ UNCHANGED <<up, holder, cacheVars, cancelVars, published, execVars,
                   accepted, effects, session>>

\* Mutant: whatever runs is cancelled, not the request that was named.
CancelAny(id) ==
    /\ activeId # 0
    /\ token = "active"
    /\ token' = "cancelled"
    /\ accepted' = accepted \cup {id}
    /\ UNCHANGED <<lockVars, cacheVars, activeId, published, execVars,
                   okTold, effects, session>>

\* The cancel lane: it takes the state mutex only.  A Cancel of a request that
\* is not registered, or whose token is sealed or tripped, changes nothing.
Cancel(id) ==
    /\ activeId = id
    /\ token = "active"
    /\ token' = "cancelled"
    /\ accepted' = accepted \cup {id}
    /\ UNCHANGED <<lockVars, cacheVars, activeId, published, execVars,
                   okTold, effects, session>>

\* The process dies; effects nobody was told of die with the session.
Crash ==
    /\ up
    /\ up' = FALSE
    /\ call' = [c \in Clients |-> Quiet]
    /\ holder' = None
    /\ highest' = 0 /\ order' = <<>> /\ cache' = <<>>
    /\ activeId' = 0 /\ token' = "none"
    /\ published' = FreshExecutor /\ exec' = FreshExecutor
    /\ accepted' = {} /\ session' = 0
    /\ effects' = [id \in Ids |-> IF id \in okTold THEN effects[id] ELSE 0]
    /\ UNCHANGED <<durable, okTold>>

\* A service starts on an empty journal only: an existing one has to be rebuilt
\* elsewhere, and the constructor throws.
Restart ==
    /\ ~up
    /\ durable = None
    /\ up' = TRUE
    /\ UNCHANGED <<call, holder, cacheVars, cancelVars, published, execVars, historyVars>>

RpcNext ==
    \/ \E c \in Clients :
        \/ \E id \in Ids, op \in Writers \cup {"read"} : Receive(c, id, op)
        \/ Read(c) \/ Replay(c) \/ Admit(c) \/ Register(c) \/ Run(c)
        \/ Finish(c) \/ Journal(c) \/ Publish(c) \/ Reply(c)
    \/ \E id \in Ids : Cancel(id)
    \/ Crash
    \/ Restart

RpcSpec == RpcInit /\ [][RpcNext]_rpcVars

-----------------------------------------------------------------------------
(* Properties.                                                             *)

Pcs == {"idle", "waiting", "register", "run", "sealed", "journal", "publish", "reply"}
Statuses == {"none", "ok", "failed", "cancelled", "deadline", "poisoned", "stale",
             "conflict"}
Requests == [pc : Pcs, id : 0..MaxId, op : Writers \cup {"read", "none"},
             status : Statuses]
Executors == [tokens : Seq(Ids), poisoned : BOOLEAN]

\* The two structures of the idempotence cache stay in step:
\* writer_response_order lists the ids of writer_responses once each, never more
\* than kMaximumCachedWriterResponses of them.
CacheInStep ==
    /\ order \in Seq(Ids) /\ Len(order) <= CacheCap
    /\ \A i, j \in 1..Len(order) : order[i] = order[j] => i = j
    /\ cache \in [{order[k] : k \in 1..Len(order)} ->
                    [op : Writers, status : Statuses, session : Nat]]

\* The service's state is well typed.
RpcTypeOK ==
    /\ up \in BOOLEAN
    /\ call \in [Clients -> Requests]
    /\ holder \in Clients \cup {None}
    /\ highest \in 0..MaxId /\ activeId \in 0..MaxId
    /\ token \in {"none", "active", "cancelled", "deadline", "sealed"}
    /\ published \in Executors /\ exec \in Executors
    /\ durable \in Seq(Ids) \cup {None}
    /\ accepted \subseteq Ids /\ okTold \subseteq Ids
    /\ effects \in [Ids -> Nat] /\ session \in Nat

\* Writer request ids are idempotent: whatever mix of retries, resets, cache
\* evictions, lost responses and crashes, a request takes effect at most once,
\* counting out only what a crash destroyed before anyone was told of it.
AtMostOnce == HasJournal => \A id \in Ids : effects[id] <= 1

\* A caller whose response was lost can ask again: between two writers the
\* response to the latest admitted request is in the cache, a reset's own one
\* included, although a reset drops all the others.
LastAnswerReplayable ==
    up /\ holder = None /\ highest > 0 => highest \in DOMAIN cache

\* "Responses from the old semantic session must never be replayed after its
\* device state has been discarded" (the comment in handle): what a retry can
\* be given is an answer of the present session.
NoReplayAcrossReset ==
    holder = None => \A id \in DOMAIN cache : cache[id].session = session

\* The cancel lane hits the request it names: only a request whose cancellation
\* was accepted ends "cancelled", and such a request never takes effect.
CancelIsHonest ==
    \A c \in Clients :
        /\ call[c].status = "cancelled" => call[c].id \in accepted
        /\ call[c].status = "ok" /\ call[c].op \in Writers => call[c].id \notin accepted

\* Whenever no writer is at work, what the lock-free lanes publish is the
\* executor's state, and a healthy executor's state is the journal's last record.
PublishedIsCurrent ==
    up /\ holder = None =>
        /\ published = exec
        /\ HasJournal /\ ~exec.poisoned =>
              exec.tokens = IF durable = None THEN <<>> ELSE durable

-----------------------------------------------------------------------------
(* The inductive invariant.                                                *)

Admitted == {"register", "run", "sealed", "journal", "publish"}
Outcomes == {"ok", "failed", "cancelled", "deadline", "poisoned"}

\* A thread past admission owns the writer mutex and handles the highest id; it
\* has a response when it has run; a dead process has nothing under way.
OneWriter ==
    /\ \A c \in Clients :
        /\ call[c].pc \in Admitted <=> holder = c
        /\ holder = c => call[c].id = highest /\ call[c].op \in Writers
        /\ call[c].pc # "idle" => up /\ call[c].id \in Ids
        /\ call[c].pc \in {"idle", "waiting", "register", "run", "sealed"} =>
              call[c].status = "none"
        /\ call[c].pc = "journal" => call[c].status = "ok"
        /\ call[c].pc = "publish" => call[c].status \in Outcomes
    /\ ~up => highest = 0

\* Every cached id was admitted, and none of them is the one under way, whose
\* answer comes last.
CacheIsOld ==
    /\ \A id \in DOMAIN cache : id <= highest /\ cache[id].status # "none"
    /\ holder # None => highest \notin DOMAIN cache
    /\ holder = None /\ highest > 0 => highest \in DOMAIN cache

\* The session a cached answer speaks of has ended only while the reset that
\* ended it is still to publish.
CacheIsPresent ==
    \/ \E c \in Clients : call[c].pc \in {"journal", "publish"} /\ call[c].op = "reset"
    \/ \A id \in DOMAIN cache : cache[id].session = session

\* The registry names the writer under way, and its token tells what may still
\* become of it.
RegistryInStep ==
    /\ accepted \subseteq 1..highest
    /\ activeId # 0 => activeId = highest /\ holder # None
    /\ token = "cancelled" => activeId \in accepted
    /\ \A c \in Clients :
        /\ call[c].pc = "register" => activeId = 0
        /\ call[c].pc = "run" => activeId = call[c].id
        /\ call[c].pc \in {"run", "register"} /\ token # "cancelled" =>
              call[c].id \notin accepted
        /\ call[c].pc \in {"sealed", "journal"}
              \/ (call[c].pc = "publish" /\ call[c].status = "ok")
              => token = "sealed" /\ call[c].id \notin accepted

\* What was answered: cancelled requests were accepted, others never; a thread
\* that replies for a writer replies for an id that is behind the one under way.
AnswersAreHonest ==
    /\ \A id \in DOMAIN cache :
        /\ cache[id].status = "cancelled" => id \in accepted
        /\ cache[id].status = "ok" => id \notin accepted
    /\ \A c \in Clients :
        /\ call[c].status = "cancelled" => call[c].op \in Writers
        /\ call[c].status \in {"ok", "cancelled"} /\ call[c].op \in Writers =>
            /\ call[c].id <= highest
            /\ holder \notin {None, c} => call[c].id < highest

\* An effect is behind the highest id as long as the service runs, and one that
\* outlived the process has been told of.
EffectsAreOld ==
    HasJournal =>
        /\ \A id \in Ids : effects[id] > 0 => IF up THEN id <= highest ELSE id \in okTold
        /\ \A c \in Clients :
            call[c].pc \in {"register", "run", "sealed"} => effects[call[c].id] = 0

\* Nobody is told of an effect before the journal has a record, which keeps the
\* service from starting again.
ToldIsDurable ==
    HasJournal /\ durable = None =>
        /\ okTold = {}
        /\ \A c \in Clients : call[c].pc \in {"publish", "reply"}
                /\ call[c].op \in Writers => call[c].status # "ok"
        /\ \A id \in DOMAIN cache : cache[id].status # "ok"

\* The journal's last record is the executor's state but between the effect and
\* its append.
JournalInStep ==
    /\ holder = None => published = exec
    /\ ~up => exec = FreshExecutor
    /\ HasJournal /\ up /\ ~exec.poisoned =>
        \/ \E c \in Clients : call[c].pc = "journal"
        \/ exec.tokens = IF durable = None THEN <<>> ELSE durable

\* What every step of the service preserves.
RpcInv ==
    /\ RpcTypeOK /\ CacheInStep
    /\ OneWriter /\ CacheIsOld /\ CacheIsPresent
    /\ RegistryInStep /\ AnswersAreHonest /\ CancelIsHonest
    /\ EffectsAreOld /\ AtMostOnce /\ ToldIsDurable
    /\ JournalInStep
=============================================================================
