----------------------------- MODULE CudaStage0 -----------------------------
(***************************************************************************)
(* Stage 0 of the CUDA runtime (src/cuda/cuda_backend.cu): the calls of    *)
(* CudaStageBackend that the executor of DualStage makes on it, and the    *)
(* thread of its PleAsyncReader, which reads PLE rows ahead of the kernels *)
(* and hands them over in tiles, at most two of them at a time.            *)
(*                                                                         *)
(* Two threads take steps: the stage worker, inside one call at a time     *)
(* (`pc' is where it stands in that call), and the reader (`rpc').  A third*)
(* party may trip the request's cancellation token at any moment before the*)
(* commit.  The executor is reduced to the order of its calls: prefetch,   *)
(* execute per chunk, checkpoint, then commit or rollback; reset.          *)
(*                                                                         *)
(* Rows, tiles and read extents are counted in tokens.  What a stage 1 or a*)
(* draft model answers is not determined, so any accepted prefix happens.  *)
(***************************************************************************)
EXTENDS StateBank, FiniteSets

CONSTANTS Tokens,
          Eos,               \* the token the PLE hash starts from
          ContextLimit,
          ChunkTokens,       \* append_chunk_tokens
          TileTokens,        \* kPrefillTile
          MaxWidth,          \* the largest draft width
          MaxEpoch,          \* bound on the epochs of one session
          Graphs,            \* enable_piecewise_decode_graph
          Faults             \* TRUE: device calls and storage reads may fail

ASSUME CudaAssumption ==
    /\ Eos \in Tokens
    /\ {ContextLimit, ChunkTokens, TileTokens, MaxEpoch} \subseteq Nat \ {0}
    /\ MaxWidth \in Nat
    /\ {Graphs, Faults} \subseteq BOOLEAN

\* The reader's tiles do not straddle chunks.  Neither the executor nor the
\* launcher asks for this; the theorems that need it name it as a hypothesis, and
\* ReadAheadServesChunks fails without it.
TilesFitChunks == \E k \in 1..ChunkTokens : ChunkTokens = k * TileTokens

VARIABLES session,     \* the tokens the executor has committed
          txn,         \* the executor's transaction, or NoTxn
          off,         \* rows of it that execute has answered
          tripped,     \* the cancellation token
          last,        \* how the last call on the backend ended
          fail,        \* why the executor was poisoned, or "none"
          pc,          \* the stage worker
          tile,        \* its position in the chunk
          staged,      \* PLE rows in the workspace that no kernel has used yet
          be,          \* CudaStageBackend::Impl
          gdn, ple, qsa,
          graphs,      \* decode_graphs by bank pair, and decode_graph_failed
          rd,          \* PleAsyncReader
          rpc, job     \* its thread, with the locals of run()

driverVars == <<session, txn, off, tripped, last, fail>>
bankVars == <<gdn, ple, qsa>>
readerVars == <<rpc, job>>
cudaVars == <<driverVars, pc, tile, staged, be, bankVars, graphs, rd, readerVars>>

NoTxn == [kind |-> "none", toks |-> <<>>, epoch |-> 0]
NoRead == [on |-> FALSE, epoch |-> 0, base |-> 0, rows |-> <<>>]

\* committed_ple_hash: PleHashState keeps the two tokens before the next one.
FreshHash == <<Eos, Eos>>

FreshBe ==
    [frontier |-> 0, epoch |-> 0, hash |-> FreshHash, prov |-> 0, base |-> 0,
     expected |-> 0, processed |-> 0, ckpt |-> 0, kind |-> "invalid", active |-> FALSE,
     toks |-> <<>>, hashes |-> <<>>, read |-> NoRead]

FreshReader ==
    [rows |-> <<>>, tiles |-> <<>>, error |-> FALSE, total |-> 0, request |-> FALSE,
     working |-> FALSE, result |-> FALSE, cancel |-> FALSE]

NoJob == [rows |-> <<>>, first |-> 0, error |-> FALSE]

CudaInit ==
    /\ session = <<>> /\ txn = NoTxn /\ off = 0
    /\ tripped = FALSE /\ last = "ok" /\ fail = "none"
    /\ pc = "idle" /\ tile = 0 /\ staged = <<>>
    /\ be = FreshBe
    /\ gdn = FreshBank /\ ple = FreshBank /\ qsa = FreshQsa
    /\ graphs = [keys |-> {}, failed |-> FALSE]
    /\ rd = FreshReader /\ rpc = "wait" /\ job = NoJob

-----------------------------------------------------------------------------
(* PleHashState: the row of a token depends on it and on the two tokens    *)
(* before it, but not on what precedes an end of sequence.                 *)

HashRow(h, t) == <<IF h[2] = Eos THEN Eos ELSE h[1], h[2], t>>

\* The hash states after each token of s, from h on.
HashesAfter(h, s) ==
    [i \in 1..Len(s) |->
        <<IF i = 1 THEN h[2] ELSE s[i - 1], s[i]>>]

\* The hash state after the tokens s of a session.
HashOf(s) == IF s = <<>> THEN FreshHash ELSE HashesAfter(FreshHash, s)[Len(s)]

HashRows(h, s) ==
    [i \in 1..Len(s) |->
        HashRow(IF i = 1 THEN h ELSE HashesAfter(h, s)[i - 1], s[i])]

-----------------------------------------------------------------------------
(* Where a call ends, and what the executor does then.                     *)

Return == pc' = "idle" /\ last' = "ok" /\ UNCHANGED fail
ReturnCancelled == pc' = "idle" /\ last' = "cancelled" /\ UNCHANGED fail

\* Any other exception: backend_failure_is_fatal poisons the executor once the
\* rollback has been attempted.
ReturnFailed(why) == pc' = "idle" /\ last' = "failed" /\ fail' = why

\* The catch of execute: the read is drained before the exception goes on.
Catch(how) == pc' = how /\ UNCHANGED <<last, fail>>

ChunkLen ==
    LET size == IF txn.kind = "append" THEN ChunkTokens ELSE 1
        left == Len(txn.toks) - off IN
    IF size < left THEN size ELSE left

Chunk == SubSeq(txn.toks, off + 1, off + ChunkLen)

\* The executor opens a transaction of n tokens on the committed session.
Begin(kind, toks) ==
    /\ pc = "idle" /\ txn = NoTxn /\ fail = "none"
    /\ be.epoch < MaxEpoch
    /\ Len(session) + Len(toks) <= ContextLimit
    /\ txn' = [kind |-> kind, toks |-> toks, epoch |-> be.epoch + 1]
    /\ off' = 0 /\ tripped' = FALSE /\ last' = "ok"
    /\ pc' = IF kind = "append" /\ Len(toks) > ChunkTokens THEN "prefetch" ELSE "enter"
    /\ UNCHANGED <<session, fail, tile, staged, be, bankVars, graphs, rd, readerVars>>

Trip ==
    /\ txn # NoTxn /\ ~tripped
    /\ tripped' = TRUE
    /\ UNCHANGED <<session, txn, off, last, fail, pc, tile, staged, be, bankVars,
                   graphs, rd, readerVars>>

-----------------------------------------------------------------------------
(* PleAsyncReader::submit, and the reads the backend starts.               *)

ReaderBusy == rd.request \/ rd.working \/ rd.result
ReaderSubmitted(rows) ==
    [rd EXCEPT !.rows = rows, !.error = FALSE, !.total = Len(rows),
               !.cancel = FALSE, !.request = TRUE]

\* prefetch_transaction: the rows of the whole append are read ahead.
Prefetch ==
    /\ pc = "prefetch"
    /\ LET rows == HashRows(be.hash, txn.toks) IN
       CASE be.read.on \/ be.prov # 0 \/ be.active ->
              ReturnFailed("read_ahead") /\ UNCHANGED <<be, rd>>
         [] OTHER ->
              IF tripped THEN ReturnCancelled /\ UNCHANGED <<be, rd>>
              ELSE IF ReaderBusy THEN ReturnFailed("reader") /\ UNCHANGED <<be, rd>>
              ELSE /\ Return
                   /\ rd' = ReaderSubmitted(rows)
                   /\ be' = [be EXCEPT !.read = [on |-> TRUE, epoch |-> txn.epoch,
                                                 base |-> 0, rows |-> rows]]
    /\ UNCHANGED <<session, txn, off, tripped, tile, staged, bankVars, graphs, readerVars>>

\* The first half of execute, before its try block: the token is checked, the
\* first chunk opens the transaction and its three state banks, and
\* start_ple_read starts the read of the chunk or finds it in the read-ahead.
Opened ==
    [be EXCEPT !.prov = txn.epoch, !.base = Len(session), !.expected = Len(txn.toks),
               !.processed = 0, !.ckpt = 0, !.kind = txn.kind, !.active = TRUE,
               !.toks = <<>>, !.hashes = <<>>]

NextRange ==
    /\ txn.epoch = be.prov /\ Len(session) = be.base
    /\ Len(txn.toks) = be.expected /\ txn.kind = be.kind
    /\ off = be.processed /\ be.active

CanOpen ==
    /\ txn.epoch > be.epoch /\ off = 0
    /\ Len(session) = be.frontier /\ qsa.committed = be.frontier
    /\ ~gdn.active /\ ~ple.active /\ ~qsa.active

\* Does the read under way hold exactly the rows of this chunk?
ReadCovers(b, rows) ==
    LET first == off - b.read.base IN
    /\ b.read.epoch = b.prov
    /\ first >= 0
    /\ first + Len(rows) <= Len(b.read.rows)
    /\ rows = SubSeq(b.read.rows, first + 1, first + Len(rows))

Accepted == IF be.prov = 0 THEN CanOpen ELSE NextRange

EnterExecute ==
    /\ pc = "enter"
    /\ tile' = 0
    /\ IF tripped THEN ReturnCancelled /\ UNCHANGED <<be, bankVars, rd>>
       ELSE IF ~Accepted THEN ReturnFailed("protocol") /\ UNCHANGED <<be, bankVars, rd>>
       ELSE LET first == be.prov = 0
                b == IF first THEN Opened ELSE be
                h == IF b.hashes = <<>> THEN b.hash ELSE b.hashes[Len(b.hashes)]
                rows == HashRows(h, Chunk)
                hashed == [b EXCEPT !.hashes = @ \o HashesAfter(h, Chunk)]
                taken == [hashed EXCEPT !.toks = @ \o Chunk]
            IN /\ gdn' = IF first THEN BankBegin(gdn, txn.epoch) ELSE gdn
               /\ ple' = IF first THEN BankBegin(ple, txn.epoch) ELSE ple
               /\ qsa' = IF first THEN QsaBegin(qsa, txn.epoch) ELSE qsa
               /\ CASE b.read.on /\ ReadCovers(b, rows) ->
                         /\ be' = taken /\ pc' = "tile"
                         /\ UNCHANGED <<rd, last, fail>>
                    [] b.read.on /\ ~ReadCovers(b, rows) ->
                         be' = hashed /\ ReturnFailed("read_ahead") /\ UNCHANGED rd
                    [] ~b.read.on /\ ReaderBusy ->
                         be' = hashed /\ ReturnFailed("reader") /\ UNCHANGED rd
                    [] ~b.read.on /\ ~ReaderBusy ->
                         /\ rd' = ReaderSubmitted(rows)
                         /\ be' = [taken EXCEPT !.read = [on |-> TRUE, epoch |-> b.prov,
                                                          base |-> off, rows |-> rows]]
                         /\ pc' = "tile" /\ UNCHANGED <<last, fail>>
    /\ UNCHANGED <<session, txn, off, tripped, staged, graphs, readerVars>>

-----------------------------------------------------------------------------
(* run_prefill and run_one: the chunk is run tile by tile.                 *)

TileLen ==
    LET size == IF txn.kind = "append" /\ ChunkLen > 1 THEN TileTokens ELSE 1
        left == ChunkLen - tile IN
    IF size < left THEN size ELSE left

TileTop ==
    /\ pc = "tile"
    /\ IF tripped THEN Catch("catch_cancelled")
       ELSE pc' = "take" /\ UNCHANGED <<last, fail>>
    /\ UNCHANGED <<session, txn, off, tripped, tile, staged, be, bankVars, graphs,
                   rd, readerVars>>

\* ensure_ple_ready and PleAsyncReader::take: wait for the tile, or for the end
\* of the read.  Without a read under way the workspace is used as it is.
FirstRow == off + tile - be.read.base
TileReady == rd.tiles # <<>> /\ Head(rd.tiles).first = FirstRow
ReadOver == [be EXCEPT !.read = NoRead]

Take ==
    /\ pc = "take"
    /\ be.read.on => TileReady \/ rd.result
    /\ CASE ~be.read.on ->
              pc' = "run" /\ UNCHANGED <<be, rd, staged, last, fail>>
         [] be.read.on /\ ~TileReady ->
              /\ rd' = [rd EXCEPT !.result = FALSE, !.error = FALSE]
              /\ be' = ReadOver
              /\ Catch("catch_read")
              /\ UNCHANGED staged
         [] be.read.on /\ TileReady ->
              /\ rd' = [rd EXCEPT !.tiles = Tail(@)]
              /\ IF Len(Head(rd.tiles).rows) # TileLen
                 THEN /\ be' = ReadOver
                      /\ Catch("catch_extent")
                      /\ UNCHANGED staged
                 ELSE /\ staged' = Head(rd.tiles).rows
                      /\ pc' = IF FirstRow + TileLen = rd.total THEN "takefinal" ELSE "run"
                      /\ UNCHANGED <<be, last, fail>>
    /\ UNCHANGED <<session, txn, off, tripped, tile, bankVars, graphs, readerVars>>

\* Mutant: the reader's result is not collected.
TakeFinalLeavesResult ==
    /\ pc = "takefinal"
    /\ rd.result
    /\ be' = ReadOver
    /\ pc' = "run"
    /\ UNCHANGED <<session, txn, off, tripped, last, fail, tile, staged, bankVars, graphs,
                   rd, readerVars>>

\* The last tile also collects the reader's result.
TakeFinal ==
    /\ pc = "takefinal"
    /\ rd.result
    /\ rd' = [rd EXCEPT !.result = FALSE, !.error = FALSE]
    /\ be' = ReadOver
    /\ IF rd.error THEN Catch("catch_read") ELSE pc' = "run" /\ UNCHANGED <<last, fail>>
    /\ UNCHANGED <<session, txn, off, tripped, tile, staged, bankVars, graphs, readerVars>>

\* A decode step replays the graph captured for the pair of working banks it
\* finds, capturing it on first sight; a third pair is refused for good, and so
\* is capture itself after a failure.
GraphKey == <<1 - gdn.at, 1 - ple.at>>
GraphsAfter ==
    IF ~Graphs \/ txn.kind # "decode" \/ graphs.failed \/ GraphKey \in graphs.keys
    THEN {graphs}
    ELSE LET captured == [graphs EXCEPT !.keys = @ \cup {GraphKey}]
             refused == [graphs EXCEPT !.failed = TRUE] IN
         {IF Cardinality(graphs.keys) >= 2 THEN refused ELSE captured}
         \cup (IF Faults THEN {refused} ELSE {})

\* The kernels of one tile, then the look at the token; after the last tile the
\* boundary goes to the ring and execute returns.
RunTile ==
    /\ pc = "run"
    /\ LET toks == SubSeq(Chunk, tile + 1, tile + TileLen)
           done == tile + TileLen = ChunkLen IN
        /\ gdn' = BankFold(gdn, toks)
        /\ ple' = BankFold(ple, staged)
        /\ LET q == QsaStore(qsa, be.base + off + tile, toks) IN
            qsa' = IF done /\ ~tripped THEN QsaMark(q, off + ChunkLen) ELSE q
        /\ graphs' \in GraphsAfter
        /\ \/ /\ Faults
              /\ Catch("catch_device")
              /\ UNCHANGED <<be, off, tile>>
           \/ /\ tripped
              /\ Catch("catch_cancelled")
              /\ UNCHANGED <<be, off, tile>>
           \/ /\ ~tripped /\ ~done
              /\ tile' = tile + TileLen
              /\ pc' = "tile"
              /\ UNCHANGED <<be, off, last, fail>>
           \/ /\ ~tripped /\ done
              /\ be' = [be EXCEPT !.processed = @ + ChunkLen]
              /\ off' = off + ChunkLen
              /\ Return
              /\ UNCHANGED tile
    /\ staged' = <<>>
    /\ UNCHANGED <<session, txn, tripped, rd, readerVars>>

\* drain_ple_read and PleAsyncReader::cancel: ask the reader to stop, then wait
\* until it has.
Catching == {"catch_cancelled", "catch_read", "catch_extent", "catch_device", "reset"}

Drain ==
    /\ pc \in Catching
    /\ be.read.on /\ ReaderBusy /\ ~rd.cancel
    /\ rd' = [rd EXCEPT !.cancel = TRUE]
    /\ UNCHANGED <<driverVars, pc, tile, staged, be, bankVars, graphs, readerVars>>

DrainedAtOnce == TRUE     \* Mutant: the reader's end is not waited for.
Drained == ~be.read.on \/ ~ReaderBusy \/ (rd.cancel /\ (rd.result \/ ~(rd.request \/ rd.working)))

\* Mutant: tiles that were ready stay in the queue.
ReaderDrainedKeepsTiles ==
    IF be.read.on /\ ReaderBusy THEN [FreshReader EXCEPT !.tiles = rd.tiles] ELSE rd

ReaderDrained == IF be.read.on /\ ReaderBusy THEN FreshReader ELSE rd

Rethrow ==
    /\ pc \in Catching \ {"reset"}
    /\ Drained
    /\ rd' = ReaderDrained
    /\ be' = ReadOver
    /\ IF pc = "catch_cancelled" THEN ReturnCancelled ELSE ReturnFailed(pc)
    /\ UNCHANGED <<session, txn, off, tripped, tile, staged, bankVars, graphs, readerVars>>

-----------------------------------------------------------------------------
(* The calls between and after the chunks.                                 *)

MayGoOn == pc = "idle" /\ txn # NoTxn /\ last = "ok"

\* The coordinator submits the next chunk; a row under verification is
\* checkpointed first.
NextChunk ==
    /\ MayGoOn
    /\ off < Len(txn.toks)
    /\ txn.kind = "speculative" /\ off > 0 => be.ckpt = off
    /\ pc' = "enter"
    /\ UNCHANGED <<driverVars, tile, staged, be, bankVars, graphs, rd, readerVars>>

\* checkpoint_speculative_prefix
Checkpoint ==
    /\ MayGoOn
    /\ txn.kind = "speculative"
    /\ off \in 1..(Len(txn.toks) - 1) /\ be.ckpt # off
    /\ gdn' = BankCheckpoint(gdn)
    /\ ple' = BankCheckpoint(ple)
    /\ be' = [be EXCEPT !.ckpt = off]
    /\ UNCHANGED <<driverVars, pc, tile, staged, qsa, graphs, rd, readerVars>>

\* What the end of a transaction clears.
Closed(b, e) ==
    [b EXCEPT !.epoch = e, !.prov = 0, !.expected = 0, !.processed = 0, !.ckpt = 0,
              !.kind = "invalid", !.toks = <<>>, !.hashes = <<>>, !.active = FALSE]

\* commit.  The executor asks for everything that was executed, or for all but
\* the lookahead row; the replay of a shorter prefix is never asked for.
CommitAccepted(n) ==
    LET exact == /\ n = be.processed
                 /\ be.processed = be.expected \/ be.kind = "speculative"
        lookahead == be.kind = "speculative" /\ be.processed = n + 1 /\ be.ckpt = n IN
    /\ be.active /\ txn.epoch = be.prov
    /\ exact \/ lookahead
    /\ BankHolds(gdn, be.prov) /\ BankHolds(ple, be.prov)
    /\ QsaCanCommit(qsa, be.prov, n)
    /\ n < be.processed => gdn.valid /\ ple.valid

RestoredNever(bank, n) == bank    \* Mutant: the lookahead row is committed.
Restored(bank, n) == IF n < be.processed THEN BankRestoreCheckpoint(bank) ELSE bank

Commit(n) ==
    /\ MayGoOn /\ ~tripped
    /\ \/ n = off /\ off = Len(txn.toks)
       \/ txn.kind = "speculative" /\ n > 0 /\ n = off - 1 /\ n = be.ckpt
    /\ \/ /\ CommitAccepted(n)
          /\ gdn' = BankCommit(Restored(gdn, n))
          /\ ple' = BankCommit(Restored(ple, n))
          /\ qsa' = QsaCommit(qsa, n)
          /\ be' = [Closed(be, be.prov) EXCEPT !.frontier = be.base + n,
                                               !.hash = be.hashes[n]]
          /\ session' = session \o SubSeq(txn.toks, 1, n)
          /\ txn' = NoTxn /\ off' = 0
          /\ Return
       \/ /\ ~CommitAccepted(n) \/ Faults
          /\ ReturnFailed(IF CommitAccepted(n) THEN "commit_device" ELSE "commit")
          /\ UNCHANGED <<bankVars, be, session, txn, off>>
    /\ UNCHANGED <<tripped, tile, staged, graphs, rd, readerVars>>

\* rollback, of a transaction that was opened here or of one that was not.  A
\* read-ahead is left as it is.
MustRollBack == last # "ok" \/ tripped \/ Faults

Rollback ==
    /\ pc = "idle" /\ txn # NoTxn /\ MustRollBack
    /\ fail \notin {"commit", "commit_device"}
    /\ LET undo == be.prov # 0 /\ be.active IN
        /\ gdn' = IF undo THEN BankRollback(gdn) ELSE gdn
        /\ ple' = IF undo THEN BankRollback(ple) ELSE ple
        /\ qsa' = IF undo THEN QsaRollback(qsa) ELSE qsa
    /\ be' = Closed(be, txn.epoch)
    /\ txn' = NoTxn /\ off' = 0 /\ last' = "ok" /\ tripped' = FALSE
    /\ UNCHANGED <<session, fail, pc, tile, staged, graphs, rd, readerVars>>

\* reset_session drains a read-ahead that was left behind, then clears all.
Reset ==
    /\ pc = "idle" /\ txn = NoTxn /\ fail = "none"
    /\ pc' = "reset"
    /\ UNCHANGED <<driverVars, tile, staged, be, bankVars, graphs, rd, readerVars>>

FinishReset ==
    /\ pc = "reset"
    /\ Drained
    /\ rd' = ReaderDrained
    /\ gdn' = FreshBank /\ ple' = FreshBank /\ qsa' = QsaReset(qsa)
    /\ be' = FreshBe
    /\ session' = <<>>
    /\ Return
    /\ UNCHANGED <<txn, off, tripped, tile, staged, graphs, readerVars>>

-----------------------------------------------------------------------------
(* PleAsyncReader::run, the reader's thread.                               *)

ReaderPick ==
    /\ rpc = "wait"
    /\ rd.request
    /\ job' = [rows |-> rd.rows, first |-> 0, error |-> FALSE]
    /\ rd' = [rd EXCEPT !.rows = <<>>, !.request = FALSE, !.working = TRUE]
    /\ rpc' = "room"
    /\ UNCHANGED <<driverVars, pc, tile, staged, be, bankVars, graphs>>

\* Mutant: a cancellation does not wake the wait for room.
ReaderRoomDeaf ==
    /\ rpc = "room"
    /\ job.first < Len(job.rows)
    /\ Len(rd.tiles) < 2
    /\ rpc' = IF rd.cancel THEN "finish" ELSE "read"
    /\ UNCHANGED <<driverVars, pc, tile, staged, be, bankVars, graphs, rd, job>>

\* Before each tile it waits for room, or for a cancellation.
ReaderRoom ==
    /\ rpc = "room"
    /\ job.first < Len(job.rows)
    /\ Len(rd.tiles) < 2 \/ rd.cancel
    /\ rpc' = IF rd.cancel THEN "finish" ELSE "read"
    /\ UNCHANGED <<driverVars, pc, tile, staged, be, bankVars, graphs, rd, job>>

ReaderRead ==
    /\ rpc = "read"
    /\ LET end == IF job.first + TileTokens < Len(job.rows)
                  THEN job.first + TileTokens ELSE Len(job.rows) IN
        \/ /\ rd' = [rd EXCEPT !.tiles =
                        Append(@, [first |-> job.first,
                                   rows |-> SubSeq(job.rows, job.first + 1, end)])]
           /\ job' = [job EXCEPT !.first = @ + TileTokens]
           /\ rpc' = "room"
        \/ /\ Faults
           /\ job' = [job EXCEPT !.error = TRUE]
           /\ rpc' = "finish"
           /\ UNCHANGED rd
    /\ UNCHANGED <<driverVars, pc, tile, staged, be, bankVars, graphs>>

ReaderFinish ==
    /\ rpc = "finish" \/ (rpc = "room" /\ job.first >= Len(job.rows))
    /\ rd' = [rd EXCEPT !.working = FALSE, !.result = TRUE, !.error = job.error]
    /\ rpc' = "wait" /\ job' = NoJob
    /\ UNCHANGED <<driverVars, pc, tile, staged, be, bankVars, graphs>>

-----------------------------------------------------------------------------
Sequences(n) == UNION {[1..m -> Tokens] : m \in 1..n}

StageWorker ==
    \/ Prefetch \/ EnterExecute \/ TileTop \/ Take \/ TakeFinal \/ RunTile
    \/ Drain \/ Rethrow \/ FinishReset

Executor ==
    \/ \E s \in Sequences(ContextLimit) : Begin("append", s)
    \/ \E t \in Tokens : Begin("decode", <<t>>)
    \/ \E s \in Sequences(MaxWidth + 1) : Len(s) > 1 /\ Begin("speculative", s)
    \/ NextChunk \/ Checkpoint \/ (\E n \in 1..ContextLimit : Commit(n))
    \/ Rollback \/ Reset

Reader == ReaderPick \/ ReaderRoom \/ ReaderRead \/ ReaderFinish

CudaNext == StageWorker \/ Executor \/ Reader \/ Trip

CudaSpec == CudaInit /\ [][CudaNext]_cudaVars

\* The two threads keep running; nobody owes a request or a cancellation.
CudaFairSpec == CudaSpec /\ WF_cudaVars(StageWorker) /\ WF_cudaVars(Reader)

-----------------------------------------------------------------------------
(* Properties.                                                             *)

Between == pc = "idle" /\ txn = NoTxn /\ fail = "none"

\* Between transactions the three state banks and the PLE hash hold exactly the
\* committed tokens, however the last transaction ended and wherever in a tile,
\* a read or a lookahead row it was stopped: the recurrent states in the
\* committed copy, the QSA keys and the pooled key of every complete block in
\* the array that speculation overwrites in place.
BanksHoldSession ==
    Between =>
        /\ CommittedCopy(gdn) = session
        /\ CommittedCopy(ple) = HashRows(FreshHash, session)
        /\ qsa.committed = Len(session) /\ be.frontier = Len(session)
        /\ SubSeq(qsa.keys, 1, qsa.committed) = session
        /\ SubSeq(qsa.pooled, 1, qsa.committed \div BlockTokens) = Blocks(session)
        /\ be.hash = HashOf(session)
        /\ ~(gdn.active \/ ple.active \/ qsa.active)

\* A boundary row that execute hands to stage 1 was computed from the rows of
\* its own tokens: no tile of an earlier read, of another range or of an
\* abandoned read-ahead ever reaches the kernels.
RowsAreOwn ==
    MayGoOn /\ be.prov # 0 =>
        Working(ple) = HashRows(FreshHash, session \o SubSeq(txn.toks, 1, off))

\* Whenever the backend believes that no read is under way, the reader's thread
\* has stopped and left nothing behind: the next submit cannot find it busy or
\* pick up its tiles.
ReaderQuiet ==
    pc = "idle" /\ ~be.read.on =>
        ~ReaderBusy /\ rd.tiles = <<>> /\ rpc = "wait" /\ ~rd.cancel

\* Without a device or storage fault a call fails for one reason only, a
\* read-ahead left by an earlier, cancelled append; and graph decoding is never
\* switched off, since the GDN and PLE banks flip together and decoding ever
\* meets two pairs of working banks.
FailsOnlyByReadAhead ==
    ~Faults => fail \in {"none", "read_ahead"} /\ ~graphs.failed

\* What src/READINESS.md says of client cancellations: they are recoverable, so
\* that without a fault no later call on the backend fails.
CancelIsRecoverable == ~Faults => fail = "none"

\* What the comment on PleAsyncReader says of it: it reads for the later chunks
\* of an append too.  So the tile that waits at the row the stage takes next has
\* the extent the stage takes, whatever the sizes of chunks and tiles.
ReadAheadServesChunks == pc # "catch_extent"

\* The backend is a StageBackend as the executor's model assumes it: seen
\* through the committed copies, the executed rows and the checkpoint, every step
\* is a call of the reference backend that the reference accepts (an execute may
\* show as its opening alone), or invisible.
NoPredict(row, rows) == rows
Reference == INSTANCE StageBackend WITH Predict <- NoPredict, PleStage0 <- FALSE

AsReference ==
    [rows |-> CommittedCopy(gdn), epoch |-> be.epoch, prov |-> be.prov,
     base |-> IF be.prov = 0 THEN 0 ELSE be.base, expected |-> be.expected,
     kind |-> be.kind, ptoks |-> SubSeq(be.toks, 1, be.processed), ckpt |-> be.ckpt]

ReferenceStep ==
    LET b == AsReference
        t == [epoch |-> txn.epoch, base_target |-> Len(session),
              evaluated |-> Len(txn.toks), kind |-> txn.kind] IN
    \/ /\ Reference!ExecuteAccepted(b, t, off)
       /\ \E s \in {<<>>, Chunk} : AsReference' = Reference!Executed(b, t, s)
    \/ /\ Reference!CheckpointAccepted(b, txn.epoch, off)
       /\ AsReference' = Reference!Checkpointed(b, off)
    \/ \E n \in 1..Len(txn.toks) :
          /\ Reference!CommitAccepted(b, 0, txn.epoch, n)
          /\ AsReference' = Reference!Committed(b, n)
    \/ /\ Reference!RollbackAccepted(b, txn.epoch)
       /\ AsReference' = Reference!RolledBack(b, txn.epoch)
    \/ /\ Reference!ResetAccepted(b)
       /\ AsReference' = Reference!FreshBackend

ImplementsStageBackend ==
    AsReference = Reference!FreshBackend /\ [][ReferenceStep]_AsReference

\* Every call returns: neither thread waits for ever on the other, whichever of
\* the tile queue's two limits it stands at when it is cancelled.
CallsReturn == (pc # "idle") ~> (pc = "idle")
-----------------------------------------------------------------------------
(* The inductive invariant, in four layers: the two threads and the read   *)
(* they share (ReaderInv), the rows in the reader and in the recurrent     *)
(* banks (RowsInv), the transaction on backend and banks and the QSA array *)
(* (StateInv), and what holds without faults (HealthInv).                  *)

Executing == {"tile", "take", "takefinal", "run"}
Rows == Tokens \X Tokens \X Tokens
Pairs == Tokens \X Tokens
TileRecords == [first : Nat, rows : Seq(Rows)]
ReadRecords == [on : BOOLEAN, epoch : Nat, base : Nat, rows : Seq(Rows)]
TxnRecords ==
    [kind : {"none", "append", "decode", "speculative"}, toks : Seq(Tokens), epoch : Nat]
BeRecords ==
    [frontier : Nat, epoch : Nat, hash : Pairs, prov : Nat, base : Nat, expected : Nat,
     processed : Nat, ckpt : Nat, active : BOOLEAN, toks : Seq(Tokens),
     kind : {"invalid", "append", "decode", "speculative"},
     hashes : Seq(Pairs), read : ReadRecords]
ReaderRecords ==
    [rows : Seq(Rows), tiles : Seq(TileRecords), error : BOOLEAN, total : Nat,
     request : BOOLEAN, working : BOOLEAN, result : BOOLEAN, cancel : BOOLEAN]

\* The call in progress, or else the last one, has not failed.
Good == last = "ok" /\ pc \notin Catching

\* Where the worker stands, and what the executor asked for.
CallInStep ==
    /\ pc \in {"idle", "prefetch", "enter"} \cup Executing \cup Catching
    /\ txn \in TxnRecords /\ be \in BeRecords /\ session \in Seq(Tokens)
    /\ off \in 0..Len(txn.toks) /\ tile \in Nat
    /\ txn = NoTxn <=> txn.kind = "none"
    /\ txn # NoTxn => txn.epoch = be.epoch + 1
    /\ be.prov # 0 => be.prov = txn.epoch
    /\ txn = NoTxn => pc \in {"idle", "reset"} /\ be.prov = 0
    /\ pc = "reset" => txn = NoTxn
    /\ pc = "prefetch" => off = 0 /\ txn.kind = "append" /\ last = "ok"
    /\ pc = "enter" => off < Len(txn.toks) /\ last = "ok"
    /\ pc \in Executing =>
        /\ off < Len(txn.toks) /\ tile < ChunkLen
        /\ be.prov = txn.epoch /\ last = "ok"
        /\ \E m \in 0..tile : tile = m * TileTokens

\* The backend keeps the hash state after every token it was given.
HashesInStep ==
    /\ be.prov = 0 => be.hashes = <<>>
    /\ Good /\ be.prov # 0 =>
        Len(be.hashes) = off + (IF pc \in Executing THEN ChunkLen ELSE 0)

\* A read is under way exactly while the reader has a request, works or holds a
\* result, one of the three; otherwise it left nothing behind.
ReaderInStep ==
    /\ rd \in ReaderRecords
    /\ job \in [rows : Seq(Rows), first : Nat, error : BOOLEAN]
    /\ rpc \in {"wait", "room", "read", "finish"}
    /\ rpc # "wait" <=> rd.working
    /\ be.read.on <=> ReaderBusy
    /\ rd.request => ~rd.working /\ ~rd.result
    /\ rd.working => ~rd.result
    /\ ~be.read.on => rd.tiles = <<>> /\ ~rd.cancel
    /\ rd.cancel => pc \in Catching
    /\ pc # "catch_extent"

\* The read under way is of this transaction, and execute goes by it.
Live == be.read.on /\ be.read.epoch = txn.epoch
Reading == Live /\ pc \notin Catching

\* The row of the read that the stage takes next.
NextRow ==
    off - be.read.base
    + (IF pc \in Executing THEN tile ELSE 0)
    + (IF pc \in {"takefinal", "run"} THEN TileLen ELSE 0)

\* A read covers the chunk or, ahead of it, the whole append; a read that a
\* cancelled transaction left behind carries an older epoch.
ReadInStep ==
    /\ be.read.on =>
        be.read.epoch \in 1..(IF txn = NoTxn THEN be.epoch ELSE txn.epoch)
    /\ Reading =>
        \/ /\ be.read.base = 0 /\ txn.kind = "append"
           /\ Len(be.read.rows) = Len(txn.toks)
        \/ /\ be.read.base = off /\ pc \in Executing
           /\ Len(be.read.rows) = ChunkLen
    /\ pc \in {"tile", "take", "takefinal"} => Live
    /\ pc = "run" => IF be.read.on THEN Live /\ NextRow # Len(be.read.rows)
                     ELSE tile + TileLen = ChunkLen
    /\ pc = "takefinal" => NextRow = Len(be.read.rows)

\* The tile that begins at row n of the rows read.
TileAt(rows, n) ==
    [first |-> n,
     rows |-> SubSeq(rows, n + 1, IF n + TileTokens < Len(rows) THEN n + TileTokens ELSE Len(rows))]

\* The tiles that wait are the next ones, in order, and the reader goes on behind
\* them.
TilesInStep(r, j, at, rows, next) ==
    /\ r.total = Len(rows)
    /\ \A i \in 1..Len(r.tiles) :
        /\ r.tiles[i] = TileAt(rows, r.tiles[i].first)
        /\ r.tiles[i].first < Len(rows)
        /\ r.tiles[i].first = IF i = 1 THEN next ELSE r.tiles[i - 1].first + TileTokens
    /\ r.request => r.rows = rows /\ next = 0 /\ r.tiles = <<>>
    /\ at \in {"room", "read"} =>
        /\ j.rows = rows
        /\ IF r.tiles = <<>> THEN j.first = next \/ (j.first >= Len(rows) /\ next >= Len(rows))
           ELSE j.first = r.tiles[Len(r.tiles)].first + TileTokens
    /\ at = "read" => j.first < Len(rows)

ReaderInv ==
    /\ CallInStep /\ HashesInStep /\ ReaderInStep /\ ReadInStep
    /\ Reading => TilesInStep(rd, job, rpc, be.read.rows, NextRow)

Banks(S) ==
    [copy : [{0, 1} -> Seq(S)], at : {0, 1}, active : BOOLEAN, epoch : Nat,
     ckpt : Seq(S), valid : BOOLEAN]

\* The rows of the session and the transaction together, and how many of them
\* have gone through the kernels.
TokensGiven == session \o txn.toks
RowsGiven == HashRows(FreshHash, TokensGiven)
Done == Len(session) + off + (IF pc \in Executing THEN tile ELSE 0)

\* What the banks of the recurrent state hold.
BanksInStep ==
    /\ gdn \in Banks(Tokens) /\ ple \in Banks(Rows)
    /\ CommittedCopy(gdn) = session
    /\ CommittedCopy(ple) = HashRows(FreshHash, session)
    /\ Good /\ be.prov # 0 =>
        /\ Working(gdn) = SubSeq(TokensGiven, 1, Done)
        /\ Working(ple) = SubSeq(RowsGiven, 1, Done)
        /\ be.processed = off
        /\ be.ckpt \in 0..off
        /\ be.ckpt # 0 =>
            /\ gdn.ckpt = SubSeq(TokensGiven, 1, Len(session) + be.ckpt)
            /\ ple.ckpt = SubSeq(RowsGiven, 1, Len(session) + be.ckpt)

\* What the hash states and the rows that were read are the hashes and rows of.
HashesAreOwn ==
    /\ be.hash = HashOf(session)
    /\ Good /\ be.prov # 0 =>
        \A i \in 1..Len(be.hashes) : be.hashes[i] = HashOf(SubSeq(TokensGiven, 1, Len(session) + i))
    /\ Reading =>
        be.read.rows = SubSeq(RowsGiven, Len(session) + be.read.base + 1,
                              Len(session) + be.read.base + Len(be.read.rows))
    /\ pc \in {"takefinal", "run"} =>
        staged = SubSeq(RowsGiven, Done + 1, Done + TileLen)

RowsInv == ReaderInv /\ BanksInStep /\ HashesAreOwn

InTxn(b) == b.active = (be.prov # 0) /\ (be.prov # 0 => b.epoch = be.prov)

\* A transaction is open on the backend and on its three banks, or on none, and
\* is the executor's.
OpenInStep ==
    /\ be.frontier = Len(session)
    /\ InTxn(gdn) /\ InTxn(ple) /\ InTxn(qsa)
    /\ be.active = (be.prov # 0)
    /\ be.prov = 0 =>
        be.expected = 0 /\ be.processed = 0 /\ be.ckpt = 0 /\ be.kind = "invalid" /\ be.toks = <<>>
    /\ be.prov # 0 =>
        /\ be.base = Len(session) /\ be.expected = Len(txn.toks) /\ be.kind = txn.kind
        /\ be.processed <= Len(be.toks)
    /\ Good /\ be.prov = 0 => off = 0
    /\ Good /\ be.prov # 0 =>
        /\ be.toks = SubSeq(txn.toks, 1, off + (IF pc \in Executing THEN ChunkLen ELSE 0))
        /\ qsa.evaluated = off
        /\ be.ckpt # 0 => gdn.valid /\ ple.valid

QsaRecords ==
    [keys : Seq(Tokens), pooled : Seq(Seq(Tokens)), committed : Nat, active : BOOLEAN,
     epoch : Nat, evaluated : Nat]

\* The first keys are those of s, and each complete block of them is pooled.
Stored(q, s) ==
    LET n == Len(s)  m == Len(s) \div BlockTokens IN
    /\ n <= Len(q.keys) /\ SubSeq(q.keys, 1, n) = s
    /\ m <= Len(q.pooled) /\ SubSeq(q.pooled, 1, m) = Blocks(s)

\* What the QSA array holds, up to the last row that went through the kernels.
KeysInStep ==
    /\ qsa \in QsaRecords
    /\ qsa.committed = Len(session) /\ Stored(qsa, session)
    /\ Good /\ be.prov # 0 => Stored(qsa, SubSeq(TokensGiven, 1, Done))

StateInv == RowsInv /\ OpenInStep /\ KeysInStep

\* Are the tiles that wait the last of the rows?
TilesToEnd(tiles, rows, next) ==
    IF tiles = <<>> THEN next >= Len(rows)
    ELSE tiles[Len(tiles)].first + TileTokens >= Len(rows)

\* Without a fault no call fails but by a read-ahead, no read fails or ends early
\* unless it is cancelled, and the two banks of recurrent state flip together.
NoCallFailed == fail \in {"none", "read_ahead"} /\ pc \notin {"catch_read", "catch_device"}

ReadsWhole ==
    /\ ~rd.error /\ ~job.error
    /\ rpc = "finish" => rd.cancel
    /\ Reading /\ rd.result => TilesToEnd(rd.tiles, be.read.rows, NextRow)

GraphsInStep ==
    gdn.at = ple.at /\ graphs \in [keys : SUBSET {<<0, 0>>, <<1, 1>>}, failed : {FALSE}]

Healthy == NoCallFailed /\ ReadsWhole /\ GraphsInStep

HealthInv == StateInv /\ (~Faults => Healthy)
=============================================================================
