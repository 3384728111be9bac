------------------------------ MODULE PleStore ------------------------------
(***************************************************************************)
(* PleStore (src/src/ple.cc): rows of the per-layer embedding read from    *)
(* the part files through a page cache, with io_uring or with pread.       *)
(*                                                                         *)
(* A byte range is a range of cells.  A page is named by [file, page]; what *)
(* a page buffer holds is [key, cells]: the first cells of that page of its*)
(* file, the rest being padding.  A row is copied to the output in pieces, *)
(* each from one page.  The submission ring, the reads the kernel has      *)
(* taken, the completion ring and the fixed buffers outlive a call; the    *)
(* locals of a call are in `call'.  The cache's mutex is held for a whole  *)
(* call, so calls do not overlap.                                          *)
(***************************************************************************)
EXTENDS Integers, Sequences, SequencesExt, TLC

CONSTANTS Parts,         \* parts of the layout: [start, rows, file, offset]
          FileCells,     \* FileCells[f]: file_bytes
          Stride,        \* row_stride_bytes
          PageCells,     \* cache_page_bytes
          MaxPages,      \* cache_bytes / cache_page_bytes
          ChunkPages,    \* pages of a 64 MiB chunk
          QueueDepth,    \* options.queue_depth
          FailureIsFatal,\* the owner stops at the first failed read
          MaxBatch,      \* bound: rows of one call
          MaxCalls,      \* bound: calls
          MaxIoFaults    \* bound: faults of the storage or of io_uring

ASSUME PleStoreAssumption ==
    /\ {Stride, PageCells, MaxPages, ChunkPages, QueueDepth} \subseteq Nat \ {0}
    /\ {MaxBatch, MaxCalls, MaxIoFaults} \subseteq Nat
    /\ \A i \in 1..Len(Parts) :
        Parts[i].offset + Parts[i].rows * Stride <= FileCells[Parts[i].file]

VARIABLES provider,  \* "closed", "none", "pread", "io_uring", "refused"
          cache,     \* [entry, lru, memory, free, allocated]
          uring,     \* [sq, kernel, cq, buffer]
          call,      \* the locals of read_extents and IoUringProvider::read
          pleCalls, ioFaults

pleVars == <<provider, cache, uring, call, pleCalls, ioFaults>>

Buffers == 0..(QueueDepth - 1)
ZeroPage == [key |-> [file |-> 0, page |-> 0], cells |-> 0]
UsableRows == Parts[Len(Parts)].start + Parts[Len(Parts)].rows
Batches == UNION {[1..n -> 0..(UsableRows - 1)] : n \in 1..MaxBatch}

NoCall == [pc |-> "idle", rows |-> <<>>, pieces |-> <<>>, out |-> <<>>,
           loads |-> <<>>, pending |-> <<>>, scratch |-> <<>>, next |-> 1, completed |-> 0,
           flying |-> 0, queued |-> 0, head |-> 0, tail |-> 0, active |-> [b \in Buffers |-> 0],
           freeBuffers |-> <<>>]

PleInit ==
    /\ provider = "closed"
    /\ cache = [entry |-> <<>>, lru |-> <<>>, memory |-> <<>>, free |-> <<>>,
                allocated |-> 0]
    /\ uring = [sq |-> <<>>, kernel |-> {}, cq |-> <<>>,
                buffer |-> [b \in Buffers |-> ZeroPage]]
    /\ call = NoCall
    /\ pleCalls = 0 /\ ioFaults = 0

\* The constructor: io_uring when there is a cache and the ring, its buffers and
\* the O_DIRECT files can be set up (`works'); otherwise pread, unless direct
\* reads were asked for.
OpenStore(ioMode, cached, works) ==
    /\ provider = "closed"
    /\ LET direct == ioMode # "buffered" /\ cached /\ works IN
        provider' = CASE direct -> "io_uring"
                      [] ioMode = "direct" /\ ~direct -> "refused"
                      [] OTHER -> IF cached THEN "pread" ELSE "none"
    /\ UNCHANGED <<cache, uring, call, pleCalls, ioFaults>>

-----------------------------------------------------------------------------
(* Where a row lies, and which pieces of which pages it is made of.        *)

\* find_part: the last part that starts at or before the row.
FindPart(row) ==
    Parts[CHOOSE i \in 1..Len(Parts) :
            /\ Parts[i].start <= row
            /\ \A j \in 1..Len(Parts) : Parts[j].start <= row => j <= i]

RowOffset(row) == FindPart(row).offset + (row - FindPart(row).start) * Stride

\* The pieces of the batch, in the order the two loops of read_extents meet
\* them: piece k of row i ends with its page.
Pieces(rows) ==
    LET first(i) == RowOffset(rows[i]) \div PageCells
        last(i) == (RowOffset(rows[i]) + Stride - 1) \div PageCells
        piece(i, p) ==
            LET from == IF p = first(i) THEN RowOffset(rows[i]) ELSE p * PageCells
                end == IF p = last(i) THEN RowOffset(rows[i]) + Stride
                       ELSE (p + 1) * PageCells
            IN [key |-> [file |-> FindPart(rows[i]).file, page |-> p],
                inPage |-> from - p * PageCells, take |-> end - from,
                at |-> (i - 1) * Stride + (from - RowOffset(rows[i]))]
    IN FlattenSeq([i \in 1..Len(rows) |->
                    [k \in 1..(last(i) - first(i) + 1) |-> piece(i, first(i) + k - 1)]])

\* physical_bytes: the last page of a file may be short.
Physical(key) ==
    LET available == FileCells[key.file] - key.page * PageCells
    IN IF available < PageCells THEN available ELSE PageCells

WholePage(key) == [key |-> key, cells |-> Physical(key)]

-----------------------------------------------------------------------------
(* The page cache.                                                         *)

\* acquire_page: a free slot, after allocating the next chunk when there is none
\* and room is left, or the slot of the least recently used page.
AcquirePage(c) ==
    LET grow == c.free = <<>> /\ c.allocated < MaxPages
        n == IF ChunkPages < MaxPages - c.allocated THEN ChunkPages
             ELSE MaxPages - c.allocated
        grown == IF grow
                 THEN [c EXCEPT !.free = @ \o [i \in 1..n |-> c.allocated + i],
                                !.allocated = @ + n,
                                !.memory = @ \o [i \in 1..n |-> ZeroPage]]
                 ELSE c
        victim == Last(c.lru)
    IN IF grown.free # <<>>
       THEN [cache |-> [grown EXCEPT !.free = Front(@)], slot |-> Last(grown.free)]
       ELSE [cache |-> [c EXCEPT !.lru = Front(@),
                                 !.entry = [k \in DOMAIN @ \ {victim} |-> @[k]]],
             slot |-> c.entry[victim]]

\* The pending copies, once every load has been read.
Delivered(c) ==
    [k \in 1..Len(c.out) |->
        IF Contains(c.pending, k)
        THEN c.scratch[CHOOSE i \in 1..Len(c.loads) : c.loads[i] = c.pieces[k].key]
        ELSE c.out[k]]

\* read_rows_into and the checks of read_extents; the cache is locked from here
\* to the end of the call.
ReadRows(rows) ==
    /\ provider \in {"pread", "io_uring"}
    /\ call.pc = "idle" \/ (call.pc = "failed" /\ ~FailureIsFatal)
    /\ pleCalls < MaxCalls
    /\ call' = [NoCall EXCEPT !.pc = "scan", !.rows = rows, !.pieces = Pieces(rows)]
    /\ pleCalls' = pleCalls + 1
    /\ UNCHANGED <<provider, cache, uring, ioFaults>>

\* The scan meets the next piece: a hit moves to the front and is copied at once;
\* a miss is loaded once for the batch and copied later.
ScanPiece ==
    /\ call.pc = "scan" /\ Len(call.out) < Len(call.pieces)
    /\ LET key == call.pieces[Len(call.out) + 1].key IN
        IF key \in DOMAIN cache.entry
        THEN /\ cache' = [cache EXCEPT
                    !.lru = <<key>> \o SelectSeq(@, LAMBDA k : k # key)]
             /\ call' = [call EXCEPT
                    !.out = Append(@, cache.memory[cache.entry[key]])]
        ELSE /\ call' = [call EXCEPT
                    !.loads = IF Contains(@, key) THEN @ ELSE Append(@, key),
                    !.out = Append(@, ZeroPage),
                    !.pending = Append(@, Len(call.out) + 1)]
             /\ UNCHANGED cache
    /\ UNCHANGED <<provider, uring, pleCalls, ioFaults>>

\* Every piece was a hit, or the loads are read with the provider the store has.
StartLoads ==
    /\ call.pc = "scan" /\ Len(call.out) = Len(call.pieces)
    /\ call' = [call EXCEPT
            !.pc = IF call.loads = <<>> THEN "returned"
                   ELSE IF provider = "pread" THEN "pread" ELSE "queue",
            !.scratch = [i \in 1..Len(call.loads) |-> ZeroPage],
            !.freeBuffers = [i \in 1..QueueDepth |-> QueueDepth - i]]
    /\ UNCHANGED <<provider, cache, uring, pleCalls, ioFaults>>

\* The same call without a cache: every row by pread, straight into the output.
ReadUncached(rows) ==
    /\ provider = "none"
    /\ call.pc = "idle" \/ (call.pc = "failed" /\ ~FailureIsFatal)
    /\ pleCalls < MaxCalls
    /\ call' = [NoCall EXCEPT
            !.pc = "returned", !.rows = rows, !.pieces = Pieces(rows),
            !.out = [k \in 1..Len(Pieces(rows)) |-> WholePage(Pieces(rows)[k].key)]]
    /\ pleCalls' = pleCalls + 1
    /\ UNCHANGED <<provider, cache, uring, ioFaults>>

\* One of its preads fails.
ReadUncachedFails ==
    /\ provider = "none"
    /\ call.pc = "idle" \/ (call.pc = "failed" /\ ~FailureIsFatal)
    /\ pleCalls < MaxCalls
    /\ ioFaults < MaxIoFaults
    /\ call' = [NoCall EXCEPT !.pc = "failed"]
    /\ pleCalls' = pleCalls + 1
    /\ ioFaults' = ioFaults + 1
    /\ UNCHANGED <<provider, cache, uring>>

\* A read of the batch throws: nothing of it is cached.
FailCall(c) == call' = [c EXCEPT !.pc = "failed"] /\ UNCHANGED cache

\* The pread loop, page by page.
ReadBuffered ==
    /\ call.pc = "pread"
    /\ IF call.next > Len(call.loads)
       THEN call' = [call EXCEPT !.pc = "deliver"]
       ELSE call' = [call EXCEPT !.next = @ + 1,
                                 !.scratch[call.next] = WholePage(call.loads[call.next])]
    /\ UNCHANGED <<provider, cache, uring, pleCalls, ioFaults>>

ReadBufferedFails ==
    /\ call.pc = "pread" /\ call.next <= Len(call.loads)
    /\ ioFaults < MaxIoFaults
    /\ FailCall(call)
    /\ ioFaults' = ioFaults + 1
    /\ UNCHANGED <<provider, uring, pleCalls>>

\* The end of read_extents: the pending copies, then the insertions, in the order
\* of the loads; a batch larger than the cache evicts its own first pages.
DeliverPending ==
    /\ call.pc = "deliver"
    /\ call' = [call EXCEPT !.pc = "insert", !.out = Delivered(call), !.next = 1]
    /\ UNCHANGED <<provider, cache, uring, pleCalls, ioFaults>>

InsertPage ==
    /\ call.pc = "insert"
    /\ LET got == AcquirePage(cache)
           key == call.loads[call.next] IN
        cache' = [got.cache EXCEPT !.memory[got.slot] = call.scratch[call.next],
                                   !.lru = <<key>> \o @,
                                   !.entry = key :> got.slot @@ @]
    /\ call' = [call EXCEPT !.next = @ + 1,
                            !.pc = IF call.next = Len(call.loads) THEN "returned" ELSE @]
    /\ UNCHANGED <<provider, uring, pleCalls, ioFaults>>

\* The caller takes the rows.
TakeRows ==
    /\ call.pc = "returned"
    /\ call' = NoCall
    /\ UNCHANGED <<provider, cache, uring, pleCalls, ioFaults>>

-----------------------------------------------------------------------------
(* IoUringProvider::read: the sliding window.                              *)

SmallerOf(a, b) == IF a < b THEN a ELSE b

\* A free buffer per request, as far as the requests, the buffers and the
\* submission ring reach.  The last free buffer goes first.
QueueReads ==
    /\ call.pc = "queue"
    /\ LET room == QueueDepth - Len(uring.sq)
           n == SmallerOf(SmallerOf(Len(call.loads) - call.next + 1,
                                    Len(call.freeBuffers)), room)
           buf(i) == call.freeBuffers[Len(call.freeBuffers) - i + 1]
       IN /\ uring' = [uring EXCEPT !.sq = @ \o
                [i \in 1..n |-> [key |-> call.loads[call.next + i - 1], buf |-> buf(i)]]]
          /\ call' = [call EXCEPT
                !.pc = "enter", !.queued = n, !.next = @ + n, !.flying = @ + n,
                !.freeBuffers = SubSeq(@, 1, Len(@) - n),
                !.active = [b \in Buffers |->
                    IF \E i \in 1..n : buf(i) = b
                    THEN call.next - 1 + (CHOOSE i \in 1..n : buf(i) = b) ELSE @[b]]]
    /\ UNCHANGED <<provider, cache, pleCalls, ioFaults>>

\* Mutant: what a short io_uring_enter left is not submitted.
SubmitsOnce(c) == FALSE

\* The loop around io_uring_enter.
MoreToSubmit(c) == c.queued > 0

\* io_uring_enter takes some of the oldest entries of the submission ring.
EnterSubmits ==
    /\ call.pc = "enter"
    /\ IF call.queued = 0
       THEN call' = [call EXCEPT !.pc = IF call.flying = 0 THEN "failed" ELSE "wait"]
            /\ UNCHANGED uring
       ELSE \E n \in 1..call.queued :
            /\ uring' = [uring EXCEPT !.sq = SubSeq(@, n + 1, Len(@)),
                                      !.kernel = @ \cup {uring.sq[i] : i \in 1..n}]
            /\ LET c == [call EXCEPT !.queued = @ - n] IN
               call' = [c EXCEPT !.pc = IF MoreToSubmit(c) THEN "enter" ELSE "wait"]
    /\ UNCHANGED <<provider, cache, pleCalls, ioFaults>>

\* io_uring_enter fails, or submits nothing: the entries stay in the ring.
EnterFails ==
    /\ call.pc = "enter" /\ call.queued > 0
    /\ ioFaults < MaxIoFaults
    /\ FailCall(call)
    /\ ioFaults' = ioFaults + 1
    /\ UNCHANGED <<provider, uring, pleCalls>>

\* The kernel finishes a read, in any order; a fault is an error or fewer bytes.
KernelCompletes ==
    \E r \in uring.kernel :
        \E res \in {Physical(r.key)} \cup (IF ioFaults < MaxIoFaults THEN {-1, Physical(r.key) - 1}
                                           ELSE {}) :
            /\ uring' = [uring EXCEPT
                    !.kernel = @ \ {r},
                    !.cq = Append(@, [buf |-> r.buf, res |-> res]),
                    !.buffer[r.buf] = IF res < 0 THEN @ ELSE [key |-> r.key, cells |-> res]]
            /\ ioFaults' = IF res = Physical(r.key) THEN ioFaults ELSE ioFaults + 1
            /\ UNCHANGED <<provider, cache, call, pleCalls>>

\* Mutant: completions are taken to arrive in the order of submission.
OldestRequest(c, b) ==
    LET waiting == {c.active[x] : x \in Buffers} \ {0} IN
    IF waiting = {} THEN 0 ELSE CHOOSE i \in waiting : \A j \in waiting : i <= j

\* The request a completion is for: its user_data is the buffer.
RequestOf(c, b) == c.active[b]

\* The wait ends with a completion in the ring; its tail is read once.
AwaitCompletion ==
    /\ call.pc = "wait" /\ uring.cq # <<>>
    /\ call' = [call EXCEPT !.pc = "reap", !.head = 0, !.tail = Len(uring.cq)]
    /\ UNCHANGED <<provider, cache, uring, pleCalls, ioFaults>>

\* The next completion of the drain, or its throw.  The ring's head is stored
\* only after the last one: a throw leaves every completion in the ring.
ReapCompletion ==
    /\ call.pc = "reap" /\ call.head < call.tail
    /\ LET cqe == uring.cq[call.head + 1]
           r == RequestOf(call, cqe.buf) IN
        IF r = 0 \/ cqe.res < (IF r = 0 THEN 0 ELSE Physical(call.loads[r]))
        THEN FailCall(call)
        ELSE /\ call' = [call EXCEPT
                    !.scratch[r] = uring.buffer[cqe.buf], !.active[cqe.buf] = 0,
                    !.freeBuffers = Append(@, cqe.buf), !.head = @ + 1,
                    !.completed = @ + 1, !.flying = @ - 1]
             /\ UNCHANGED cache
    /\ UNCHANGED <<provider, uring, pleCalls, ioFaults>>

StoreHead ==
    /\ call.pc = "reap" /\ call.head = call.tail
    /\ uring' = [uring EXCEPT !.cq = SubSeq(@, call.tail + 1, Len(@))]
    /\ call' = [call EXCEPT !.pc = IF call.completed = Len(call.loads)
                                   THEN "deliver" ELSE "queue"]
    /\ UNCHANGED <<provider, cache, pleCalls, ioFaults>>

ReadStep ==
    \/ ScanPiece \/ StartLoads \/ ReadBuffered
    \/ QueueReads \/ EnterSubmits \/ AwaitCompletion \/ ReapCompletion \/ StoreHead
    \/ DeliverPending \/ InsertPage \/ TakeRows

PleNext ==
    \/ \E ioMode \in {"auto", "buffered", "direct"}, cached, works \in BOOLEAN :
            OpenStore(ioMode, cached, works)
    \/ \E rows \in Batches : ReadRows(rows) \/ ReadUncached(rows)
    \/ ReadStep
    \/ KernelCompletes
    \/ ReadUncachedFails \/ ReadBufferedFails \/ EnterFails

PleSpec == PleInit /\ [][PleNext]_pleVars
            /\ WF_pleVars(ReadStep) /\ WF_pleVars(KernelCompletes)

-----------------------------------------------------------------------------
(* Properties.                                                             *)

\* A call returns the stored bytes of its rows, and every page in the cache is
\* that page of its file, whatever the order of completions, the rows that
\* share or straddle pages and the pages evicted by the batch itself; and
\* a call fails only when the storage or io_uring did.
StoreIsExact ==
    /\ call.pc = "returned" =>
        \A i \in 1..Len(call.rows), c \in 0..(Stride - 1) :
            \E k \in 1..Len(call.pieces), p \in 1..Len(Parts) :
                LET piece == call.pieces[k]
                    at == (i - 1) * Stride + c - piece.at IN
                /\ at \in 0..(piece.take - 1)
                /\ call.rows[i] \in Parts[p].start..(Parts[p].start + Parts[p].rows - 1)
                /\ call.out[k].key.file = Parts[p].file
                /\ call.out[k].cells > piece.inPage + at
                /\ call.out[k].key.page * PageCells + piece.inPage + at
                     = Parts[p].offset + (call.rows[i] - Parts[p].start) * Stride + c
    /\ \A key \in DOMAIN cache.entry : cache.memory[cache.entry[key]] = WholePage(key)
    /\ call.pc = "failed" => ioFaults > 0

\* A call returns or throws: no read is forgotten in the submission ring while
\* the call waits for its completion.
ReadsEnd == call.pc # "idle" ~> call.pc \in {"idle", "failed"}
=============================================================================
