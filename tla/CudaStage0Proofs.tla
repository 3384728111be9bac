------------------------- MODULE CudaStage0Proofs ---------------------------
(***************************************************************************)
(* The read and the rows of CudaStage0, from the reader's thread to the    *)
(* recurrent banks.                                                        *)
(*                                                                         *)
(* ReaderInv is about the two threads: of a request, the reader's work and *)
(* a result there is one exactly while the backend believes a read to be   *)
(* under way, the tiles that wait are the next ones of that read, and the  *)
(* reader goes on right behind them.  Its last tile therefore ends where   *)
(* the stage's does, the extent check of PleAsyncReader::take never fails  *)
(* for a read of the transaction, and a drain leaves nothing.  This needs  *)
(* the hypothesis TilesFitChunks: the reader counts tiles from the start   *)
(* of the append, run_prefill from the start of each chunk.  The code does *)
(* not ask for it, so that every theorem here states it.                   *)
(*                                                                         *)
(* RowsInv adds what is read: the backend's hash states are those of the   *)
(* tokens it was given (HashesAreOwn), so the rows of a read are the rows  *)
(* of its range, so a staged tile is the rows of its tokens, and the banks *)
(* are the folds of just these rows (BanksInStep), back to the committed   *)
(* session or to the checkpoint.                                           *)
(***************************************************************************)
EXTENDS CudaStage0, SequenceTheorems, TLAPS

-----------------------------------------------------------------------------
(* Chunks and tiles.                                                       *)

\* The next chunk is a part of the transaction that is not empty.
LEMMA ChunkFacts ==
    ASSUME txn \in TxnRecords, off \in 0..Len(txn.toks)
    PROVE  /\ ChunkLen \in Nat /\ off + ChunkLen <= Len(txn.toks)
           /\ off < Len(txn.toks) => ChunkLen >= 1
           /\ txn.kind # "append" /\ off < Len(txn.toks) => ChunkLen = 1
           /\ txn.kind = "append" =>
                ChunkLen = IF ChunkTokens < Len(txn.toks) - off THEN ChunkTokens
                           ELSE Len(txn.toks) - off
           /\ Chunk \in Seq(Tokens) /\ Len(Chunk) = ChunkLen
           /\ \A i \in 1..ChunkLen : Chunk[i] = txn.toks[off + i]
<1>1. txn.toks \in Seq(Tokens) /\ Len(txn.toks) \in Nat /\ off \in Nat
    BY DEF TxnRecords
<1>2. ChunkTokens \in Nat /\ ChunkTokens >= 1
    BY CudaAssumption
<1>3. /\ ChunkLen \in Nat /\ off + ChunkLen <= Len(txn.toks)
      /\ off < Len(txn.toks) => ChunkLen >= 1
      /\ txn.kind # "append" /\ off < Len(txn.toks) => ChunkLen = 1
      /\ txn.kind = "append" =>
                ChunkLen = IF ChunkTokens < Len(txn.toks) - off THEN ChunkTokens
                           ELSE Len(txn.toks) - off
    BY <1>1, <1>2 DEF ChunkLen
<1> HIDE DEF ChunkLen
<1>4. \A i \in off + 1..off + ChunkLen : i \in 1..Len(txn.toks) /\ txn.toks[i] \in Tokens
    BY <1>1, <1>3
<1>5. Chunk \in Seq(Tokens) /\ Len(Chunk) = ChunkLen
    /\ \A i \in 1..ChunkLen : Chunk[i] = txn.toks[off + i]
    <2>1. Len(Chunk) = ChunkLen /\ \A i \in 1..ChunkLen : Chunk[i] = txn.toks[off + i]
        BY <1>1, <1>3 DEF Chunk
    <2>2. Chunk \in Seq(Tokens)
        BY <1>1, <1>3, <1>4, SubSeqProperties DEF Chunk
    <2>3. QED
        BY <2>1, <2>2
<1>6. QED
    BY <1>3, <1>5

\* A multiple of the tile size that is less than another one is less by a tile.
LEMMA Multiples ==
    ASSUME NEW k \in Nat, NEW m \in Nat, NEW t \in Nat \ {0}, m * t < k * t
    PROVE  m * t + t <= k * t
<1>1. m < k
    <2>1. ASSUME m >= k PROVE FALSE
        <3>1. PICK d \in Nat : m = k + d
            BY <2>1
        <3>2. m * t = k * t + d * t /\ d * t \in Nat /\ k * t \in Nat /\ m * t \in Nat
            BY <3>1
        <3>3. QED
            BY <3>2
    <2>2. QED
        BY <2>1
<1>2. PICK d \in Nat : k = m + 1 + d
    <2>1. k - m - 1 \in Nat /\ k = m + 1 + (k - m - 1)
        BY <1>1
    <2>2. QED
        BY <2>1
<1>3. k * t = m * t + t + d * t /\ d * t \in Nat /\ m * t \in Nat
    BY <1>2
<1>4. QED
    BY <1>3

\* A tile that fits into the chunk is no shorter for what follows the chunk.
LEMMA ShortTile ==
    ASSUME NEW size \in Nat, NEW chunk \in Nat, NEW left \in Nat, NEW at \in Nat, NEW len \in Nat,
           NEW begin \in Nat,
           at + size <= chunk, chunk < left - begin,
           len = IF size < chunk - at THEN size ELSE chunk - at
    PROVE  len = IF size < left - begin - at THEN size ELSE left - begin - at
    OBVIOUS

\* Every tile of a chunk but its last one has TileTokens tokens, also when the
\* rows were read ahead and the last tile of the chunk is not the last one read.
LEMMA TileFacts ==
    ASSUME TilesFitChunks, txn \in TxnRecords, off \in 0..Len(txn.toks), off < Len(txn.toks),
           tile \in Nat, tile < ChunkLen, \E m \in 0..tile : tile = m * TileTokens
    PROVE  /\ TileLen \in Nat /\ TileLen >= 1 /\ tile + TileLen <= ChunkLen
           /\ TileLen = IF TileTokens < ChunkLen - tile THEN TileTokens ELSE ChunkLen - tile
           /\ txn.kind = "append" =>
                TileLen = IF TileTokens < Len(txn.toks) - off - tile THEN TileTokens
                          ELSE Len(txn.toks) - off - tile
           /\ tile + TileLen # ChunkLen =>
                /\ TileLen = TileTokens
                /\ \E m \in 0..tile + TileLen : tile + TileLen = m * TileTokens
<1>1. TileTokens \in Nat /\ TileTokens >= 1 /\ ChunkTokens \in Nat
    BY CudaAssumption
<1>2. /\ ChunkLen \in Nat /\ off + ChunkLen <= Len(txn.toks) /\ Len(txn.toks) \in Nat /\ off \in Nat
      /\ txn.kind # "append" => ChunkLen = 1
      /\ txn.kind = "append" =>
                ChunkLen = IF ChunkTokens < Len(txn.toks) - off THEN ChunkTokens
                           ELSE Len(txn.toks) - off
    BY ChunkFacts DEF TxnRecords
<1>3. /\ TileLen \in Nat /\ TileLen >= 1 /\ tile + TileLen <= ChunkLen
      /\ TileLen = IF TileTokens < ChunkLen - tile THEN TileTokens ELSE ChunkLen - tile
    BY <1>1, <1>2 DEF TileLen
<1>4. ASSUME tile < ChunkTokens PROVE tile + TileTokens <= ChunkTokens
    <2>1. PICK k \in 1..ChunkTokens : ChunkTokens = k * TileTokens
        BY DEF TilesFitChunks
    <2>2. PICK m \in 0..tile : tile = m * TileTokens
        OBVIOUS
    <2>3. k \in Nat /\ m \in Nat /\ TileTokens \in Nat \ {0} /\ m * TileTokens < k * TileTokens
        BY <1>1, <1>4, <2>1, <2>2
    <2>4. QED
        BY <2>1, <2>2, <2>3, Multiples
<1>5. txn.kind = "append" =>
            TileLen = IF TileTokens < Len(txn.toks) - off - tile THEN TileTokens
                      ELSE Len(txn.toks) - off - tile
    <2>1. CASE txn.kind = "append" /\ ChunkTokens < Len(txn.toks) - off
        <3>1. ChunkLen = ChunkTokens
            BY <1>2, <2>1
        <3>2. tile + TileTokens <= ChunkTokens
            BY <1>4, <3>1
        <3>3. QED
            BY <1>1, <1>2, <1>3, <2>1, <3>1, <3>2, ShortTile
    <2>2. CASE txn.kind = "append" /\ ~(ChunkTokens < Len(txn.toks) - off)
        BY <1>2, <1>3, <2>2
    <2>3. QED
        BY <2>1, <2>2
<1>6. ASSUME tile + TileLen # ChunkLen
      PROVE  /\ TileLen = TileTokens
             /\ \E m \in 0..tile + TileLen : tile + TileLen = m * TileTokens
    <2>1. TileLen = TileTokens
        BY <1>1, <1>2, <1>3, <1>6
    <2>2. PICK m \in 0..tile : tile = m * TileTokens
        OBVIOUS
    <2>3. tile + TileTokens = (m + 1) * TileTokens
        BY <1>1, <2>2
    <2>4. m + 1 \in 0..tile + TileTokens
        BY <1>1, <2>2
    <2>5. QED
        BY <2>1, <2>3, <2>4
<1>7. QED
    BY <1>3, <1>5, <1>6

-----------------------------------------------------------------------------
(* The reader's queue of tiles.                                            *)


\* Where a tile begins and what it holds.
LEMMA TileAtFacts ==
    ASSUME NEW rows \in Seq(Rows), NEW n \in Nat, n < Len(rows)
    PROVE  LET e == IF n + TileTokens < Len(rows) THEN n + TileTokens ELSE Len(rows) IN
           /\ TileAt(rows, n) \in TileRecords
           /\ TileAt(rows, n).first = n
           /\ TileAt(rows, n).rows = SubSeq(rows, n + 1, e)
           /\ Len(TileAt(rows, n).rows) = e - n
<1> DEFINE e == IF n + TileTokens < Len(rows) THEN n + TileTokens ELSE Len(rows)
<1>1. TileTokens \in Nat /\ TileTokens >= 1
    BY CudaAssumption
<1>2. e \in Nat /\ n < e /\ e <= Len(rows)
    BY <1>1
<1>3. TileAt(rows, n) = [first |-> n, rows |-> SubSeq(rows, n + 1, e)]
    BY DEF TileAt
<1> HIDE DEF e
<1>4. SubSeq(rows, n + 1, e) \in Seq(Rows) /\ Len(SubSeq(rows, n + 1, e)) = e - n
    <2>1. \A i \in n + 1..e : rows[i] \in Rows
        BY <1>2
    <2>2. SubSeq(rows, n + 1, e) \in Seq(Rows)
        BY <1>2, <2>1, SubSeqProperties
    <2>3. Len(SubSeq(rows, n + 1, e)) = e - n
        BY <1>2
    <2>4. QED
        BY <2>2, <2>3
<1>5. QED
    BY <1>3, <1>4 DEF TileRecords, e

\* The reader picks the request up.
LEMMA TilesPick ==
    ASSUME NEW r \in ReaderRecords, NEW s \in ReaderRecords, NEW j, NEW k, NEW at,
           NEW rows \in Seq(Rows), NEW next \in Nat,
           TilesInStep(r, j, at, rows, next), r.request,
           k.rows = r.rows, k.first = 0,
           s.tiles = r.tiles, s.total = r.total, ~s.request
    PROVE  TilesInStep(s, k, "room", rows, next)
    BY DEF TilesInStep

\* The reader goes on, or gives up.
LEMMA TilesRoom ==
    ASSUME NEW r \in ReaderRecords, NEW j, NEW at,
           NEW rows \in Seq(Rows), NEW next \in Nat,
           TilesInStep(r, j, "room", rows, next),
           at = "read" => j.first < Len(j.rows), at \in {"read", "finish"}
    PROVE  TilesInStep(r, j, at, rows, next)
    BY DEF TilesInStep

\* The reader is done with the read.
LEMMA TilesFinish ==
    ASSUME NEW r \in ReaderRecords, NEW s \in ReaderRecords, NEW j, NEW k, NEW at,
           NEW rows \in Seq(Rows), NEW next \in Nat,
           TilesInStep(r, j, at, rows, next),
           s.tiles = r.tiles, s.total = r.total, s.request = r.request, s.rows = r.rows
    PROVE  TilesInStep(s, k, "wait", rows, next) /\ TilesInStep(s, k, "finish", rows, next)
    BY DEF TilesInStep

\* The reader reads a tile.
LEMMA TilesRead ==
    ASSUME NEW r \in ReaderRecords, NEW s \in ReaderRecords,
           NEW j \in [rows : Seq(Rows), first : Nat, error : BOOLEAN], NEW k,
           NEW rows \in Seq(Rows), NEW next \in Nat,
           TilesInStep(r, j, "read", rows, next), ~r.request, ~s.request,
           s.tiles = Append(r.tiles, TileAt(j.rows, j.first)), s.total = r.total,
           k.rows = j.rows, k.first = j.first + TileTokens
    PROVE  TilesInStep(s, k, "room", rows, next)
<1> DEFINE n == Len(r.tiles)
<1>1. /\ j.rows = rows /\ j.first < Len(rows) /\ j.first \in Nat /\ r.total = Len(rows)
      /\ IF r.tiles = <<>> THEN j.first = next
         ELSE j.first = r.tiles[n].first + TileTokens
    BY DEF TilesInStep
<1>2. TileAt(rows, j.first) \in TileRecords /\ TileAt(rows, j.first).first = j.first
    BY <1>1, TileAtFacts
<1>3. r.tiles \in Seq(TileRecords) /\ n \in Nat
    BY DEF ReaderRecords
<1>4. /\ Len(s.tiles) = n + 1 /\ s.tiles # <<>>
      /\ s.tiles[n + 1] = TileAt(rows, j.first)
      /\ \A i \in 1..n : s.tiles[i] = r.tiles[i]
    BY <1>1, <1>2, <1>3
<1>5. ASSUME NEW i \in 1..n + 1
      PROVE  /\ s.tiles[i] = TileAt(rows, s.tiles[i].first)
             /\ s.tiles[i].first < Len(rows)
             /\ s.tiles[i].first = IF i = 1 THEN next ELSE s.tiles[i - 1].first + TileTokens
    <2>1. CASE i = n + 1
        <3>1. s.tiles[i] = TileAt(rows, j.first) /\ s.tiles[i].first = j.first
            BY <1>2, <1>4, <2>1
        <3>2. CASE i = 1
            <4>1. n = 0 /\ r.tiles = <<>>
                BY <1>3, <2>1, <3>2
            <4>2. QED
                BY <1>1, <3>1, <3>2, <4>1
        <3>3. CASE i # 1
            <4>1. n # 0 /\ r.tiles # <<>> /\ i - 1 = n /\ n \in 1..n
                BY <1>3, <2>1, <3>3
            <4>2. s.tiles[i - 1] = r.tiles[n]
                BY <1>4, <4>1
            <4>3. QED
                BY <1>1, <3>1, <3>3, <4>1, <4>2
        <3>4. QED
            BY <3>2, <3>3
    <2>2. CASE i # n + 1
        <3>1. i \in 1..n /\ s.tiles[i] = r.tiles[i]
            BY <1>3, <1>4, <2>2
        <3>2. i # 1 => s.tiles[i - 1] = r.tiles[i - 1]
            BY <1>3, <1>4, <3>1
        <3>3. /\ r.tiles[i] = TileAt(rows, r.tiles[i].first)
              /\ r.tiles[i].first < Len(rows)
              /\ r.tiles[i].first = IF i = 1 THEN next ELSE r.tiles[i - 1].first + TileTokens
            BY <3>1 DEF TilesInStep
        <3>4. QED
            BY <3>1, <3>2, <3>3
    <2>3. QED
        BY <2>1, <2>2
<1>6. k.rows = rows /\ k.first = s.tiles[Len(s.tiles)].first + TileTokens
    BY <1>1, <1>2, <1>4
<1> HIDE DEF n
<1>7. QED
    BY <1>1, <1>4, <1>5, <1>6 DEF TilesInStep

\* The tile at the head of the queue, and the queue once the stage has taken it.
LEMMA TilesTake ==
    ASSUME NEW r \in ReaderRecords, NEW s \in ReaderRecords,
           NEW j \in [rows : Seq(Rows), first : Nat, error : BOOLEAN], NEW at,
           NEW rows \in Seq(Rows), NEW next \in Nat,
           TilesInStep(r, j, at, rows, next), r.tiles # <<>>,
           s.tiles = Tail(r.tiles), s.total = r.total, s.request = r.request, s.rows = r.rows
    PROVE  LET len == IF TileTokens < Len(rows) - next THEN TileTokens ELSE Len(rows) - next IN
           /\ Head(r.tiles).first = next /\ next < Len(rows)
           /\ Head(r.tiles).rows = SubSeq(rows, next + 1, next + len)
           /\ Len(Head(r.tiles).rows) = len
           /\ TilesInStep(s, j, at, rows, next + len)
<1> DEFINE n == Len(r.tiles)
           len == IF TileTokens < Len(rows) - next THEN TileTokens ELSE Len(rows) - next
<1>0. TileTokens \in Nat /\ TileTokens >= 1
    BY CudaAssumption
<1>1. r.tiles \in Seq(TileRecords) /\ n \in Nat /\ n >= 1 /\ Head(r.tiles) = r.tiles[1]
    BY DEF ReaderRecords
<1>2. /\ Len(s.tiles) = n - 1 /\ (n = 1 <=> s.tiles = <<>>)
      /\ \A i \in 1..n - 1 : s.tiles[i] = r.tiles[i + 1]
    <2>1. Len(s.tiles) = n - 1 /\ \A i \in 1..n - 1 : s.tiles[i] = r.tiles[i + 1]
        BY <1>1
    <2>2. s.tiles \in Seq(TileRecords)
        BY DEF ReaderRecords
    <2>3. n = 1 <=> s.tiles = <<>>
        <3>1. s.tiles = <<>> <=> Len(s.tiles) = 0
            BY <2>2, EmptySeq
        <3>2. QED
            BY <1>1, <2>1, <3>1
    <2>4. QED
        BY <2>1, <2>3
<1>3. \A i \in 1..n :
        /\ r.tiles[i] = TileAt(rows, r.tiles[i].first)
        /\ r.tiles[i].first < Len(rows)
        /\ r.tiles[i].first = IF i = 1 THEN next ELSE r.tiles[i - 1].first + TileTokens
    BY DEF TilesInStep
<1>4. Head(r.tiles).first = next /\ next < Len(rows) /\ Head(r.tiles) = TileAt(rows, next)
    <2>1. 1 \in 1..n
        BY <1>1
    <2>2. /\ r.tiles[1] = TileAt(rows, r.tiles[1].first)
          /\ r.tiles[1].first < Len(rows)
          /\ r.tiles[1].first = next
        BY <1>3, <2>1
    <2>3. QED
        BY <1>1, <2>2
<1>5. /\ Head(r.tiles).rows = SubSeq(rows, next + 1, next + len)
      /\ Len(Head(r.tiles).rows) = len
    <2>1. (IF next + TileTokens < Len(rows) THEN next + TileTokens ELSE Len(rows)) = next + len
        BY <1>0
    <2>2. (next + len) - next = len
        BY <1>0
    <2>3. /\ TileAt(rows, next).rows = SubSeq(rows, next + 1, next + len)
          /\ Len(TileAt(rows, next).rows) = (next + len) - next
        BY <1>4, <2>1, TileAtFacts
    <2>4. QED
        BY <1>4, <2>2, <2>3
<1>6. ASSUME NEW i \in 1..n - 1
      PROVE  /\ s.tiles[i] = TileAt(rows, s.tiles[i].first)
             /\ s.tiles[i].first < Len(rows)
             /\ s.tiles[i].first = IF i = 1 THEN next + len ELSE s.tiles[i - 1].first + TileTokens
    <2>1. i + 1 \in 1..n /\ i + 1 # 1 /\ (i + 1) - 1 = i
        BY <1>1
    <2>2. s.tiles[i] = r.tiles[i + 1]
        BY <1>2
    <2>3. /\ r.tiles[i + 1] = TileAt(rows, r.tiles[i + 1].first)
          /\ r.tiles[i + 1].first < Len(rows)
          /\ r.tiles[i + 1].first = r.tiles[i].first + TileTokens
        BY <1>3, <2>1
    <2>4. CASE i = 1
        <3>1. next + TileTokens < Len(rows)
            BY <1>1, <1>4, <2>3, <2>4
        <3>2. next + TileTokens = next + len
            BY <1>0, <3>1
        <3>3. QED
            BY <1>1, <1>4, <2>2, <2>3, <2>4, <3>2
    <2>5. CASE i # 1
        <3>1. s.tiles[i - 1] = r.tiles[i]
            BY <1>1, <1>2, <2>5
        <3>2. QED
            BY <2>2, <2>3, <2>5, <3>1
    <2>6. QED
        BY <2>4, <2>5
<1>7. ~s.request
    BY DEF TilesInStep
<1>8. ASSUME at \in {"room", "read"}
      PROVE  /\ j.rows = rows
             /\ IF s.tiles = <<>> THEN j.first = next + len \/ (j.first >= Len(rows) /\ next + len >= Len(rows))
                ELSE j.first = s.tiles[Len(s.tiles)].first + TileTokens
    <2>1. j.rows = rows /\ j.first = r.tiles[n].first + TileTokens
        BY <1>8 DEF TilesInStep
    <2>2. CASE n = 1
        <3>1. s.tiles = <<>>
            BY <1>2, <2>2
        <3>2. j.first = next + TileTokens
            BY <1>1, <1>4, <2>1, <2>2
        <3>3. QED
            BY <1>0, <2>1, <3>1, <3>2, SMTT(40)
    <2>3. CASE n # 1
        <3>1. n - 1 \in 1..n - 1 /\ s.tiles # <<>> /\ s.tiles[n - 1] = r.tiles[n]
            BY <1>1, <1>2, <2>3
        <3>2. QED
            BY <1>2, <2>1, <3>1
    <2>4. QED
        BY <2>2, <2>3
<1>9. at = "read" => j.first < Len(rows)
    BY DEF TilesInStep
<1>10. s.total = Len(rows)
    BY DEF TilesInStep
<1> HIDE DEF n, len
<1>11. TilesInStep(s, j, at, rows, next + len)
    BY <1>2, <1>6, <1>7, <1>8, <1>9, <1>10 DEF TilesInStep
<1>12. QED
    BY <1>4, <1>5, <1>11 DEF len

-----------------------------------------------------------------------------
(* The two threads and the read they share.                                *)

\* The types of what the invariant is about.
LEMMA Typing ==
    ASSUME ReaderInv
    PROVE  /\ txn.toks \in Seq(Tokens) /\ Len(txn.toks) \in Nat /\ txn.epoch \in Nat
           /\ off \in Nat /\ off <= Len(txn.toks) /\ tile \in Nat
           /\ be.epoch \in Nat /\ be.prov \in Nat /\ be.read \in ReadRecords
           /\ be.read.rows \in Seq(Rows) /\ be.read.base \in Nat /\ be.read.epoch \in Nat
           /\ Len(be.read.rows) \in Nat
           /\ ChunkLen \in Nat /\ off + ChunkLen <= Len(txn.toks)
           /\ txn # NoTxn => txn.epoch >= 1
           /\ NoTxn.epoch = 0 /\ NoTxn.toks = <<>> /\ NoTxn.kind = "none"
<1>1. txn \in TxnRecords /\ be \in BeRecords /\ off \in 0..Len(txn.toks) /\ tile \in Nat
    BY DEF ReaderInv, CallInStep
<1>2. txn.toks \in Seq(Tokens) /\ txn.epoch \in Nat /\ Len(txn.toks) \in Nat
    BY <1>1 DEF TxnRecords
<1>3. be.epoch \in Nat /\ be.prov \in Nat /\ be.read \in ReadRecords
    BY <1>1 DEF BeRecords
<1>4. be.read.rows \in Seq(Rows) /\ be.read.base \in Nat /\ be.read.epoch \in Nat /\ Len(be.read.rows) \in Nat
    BY <1>3 DEF ReadRecords
<1>5. ChunkLen \in Nat /\ off + ChunkLen <= Len(txn.toks)
    BY <1>1, ChunkFacts
<1>6. txn # NoTxn => txn.epoch >= 1
    BY <1>3 DEF ReaderInv, CallInStep
<1>7. NoTxn.epoch = 0 /\ NoTxn.toks = <<>> /\ NoTxn.kind = "none"
    BY DEF NoTxn
<1>8. QED
    BY <1>1, <1>2, <1>3, <1>4, <1>5, <1>6, <1>7

\* The row that the stage takes next is one of the rows read, or their end.
LEMMA NextRowFacts ==
    ASSUME TilesFitChunks, ReaderInv, Reading
    PROVE  /\ txn # NoTxn
           /\ NextRow \in Nat /\ NextRow <= Len(be.read.rows)
           /\ pc \in Executing => off - be.read.base + tile \in Nat
<1>1. txn # NoTxn
    BY Typing DEF ReaderInv, ReadInStep, Reading, Live
<1>2. be.read.base = 0 \/ be.read.base = off
    BY DEF ReaderInv, ReadInStep
<1>3. pc \in Executing => tile < ChunkLen /\ TileLen \in Nat /\ tile + TileLen <= ChunkLen
    BY TileFacts DEF ReaderInv, CallInStep
<1>4. {"takefinal", "run"} \subseteq Executing
    BY DEF Executing
<1>5. NextRow \in Nat
    BY <1>2, <1>3, <1>4, Typing, SMTT(40) DEF NextRow
<1>6. NextRow <= Len(be.read.rows)
    <2>1. CASE be.read.base = 0 /\ Len(be.read.rows) = Len(txn.toks)
        <3>1. CASE pc \in Executing
            <4>1. off + tile + TileLen <= Len(txn.toks) /\ off + tile <= Len(txn.toks)
                BY <1>3, <3>1, Typing
            <4>2. QED
                BY <1>3, <2>1, <3>1, <4>1, Typing DEF NextRow
        <3>2. CASE pc \notin Executing
            <4>1. pc \notin {"takefinal", "run"}
                BY <1>4, <3>2
            <4>2. NextRow = off - be.read.base + 0 + 0
                BY <3>2, <4>1 DEF NextRow
            <4>3. QED
                BY <2>1, <4>2, Typing
        <3>3. QED
            BY <3>1, <3>2
    <2>2. CASE be.read.base = off /\ pc \in Executing /\ Len(be.read.rows) = ChunkLen
        BY <1>3, <1>4, <2>2, Typing DEF NextRow
    <2>3. QED
        BY <2>1, <2>2 DEF ReaderInv, ReadInStep
<1>7. pc \in Executing => off - be.read.base + tile \in Nat
    BY <1>2, Typing
<1>8. QED
    BY <1>1, <1>5, <1>6, <1>7

\* The tiles stay in step while the read and the place in it do not change.
LEMMA TilesFrame ==
    ASSUME ReaderInv, UNCHANGED <<rd, job, rpc>>, be'.read = be.read,
           Reading' => Reading /\ NextRow' = NextRow
    PROVE  (Reading => TilesInStep(rd, job, rpc, be.read.rows, NextRow))'
<1>1. ASSUME Reading' PROVE TilesInStep(rd', job', rpc', be'.read.rows, NextRow')
    BY <1>1 DEF ReaderInv
<1>2. QED
    BY <1>1

\* The reader is in step while it, the read and the catch blocks stay put.
LEMMA ReaderFrame ==
    ASSUME ReaderInStep, UNCHANGED <<rd, job, rpc>>, be'.read = be.read,
           pc' # "catch_extent", rd.cancel => pc' \in Catching
    PROVE  ReaderInStep'
    BY DEF ReaderInStep, ReaderBusy

\* The places of the stage's worker.
LEMMA Places ==
    /\ \A p \in Executing : p \notin Catching /\ p # "idle" /\ p # "enter" /\ p # "prefetch"
    /\ Executing = {"tile", "take", "takefinal", "run"}
    /\ Catching = {"catch_cancelled", "catch_read", "catch_extent", "catch_device", "reset"}
    /\ \A p \in {"idle", "prefetch", "enter"} : p \notin Executing /\ p \notin Catching
    BY DEF Executing, Catching

\* Begin
LEMMA BeginStep ==
    ASSUME ReaderInv, NEW kind \in {"append", "decode", "speculative"},
           NEW toks \in Seq(Tokens), Len(toks) >= 1, Begin(kind, toks)
    PROVE  ReaderInv'
<1>1. /\ pc = "idle" /\ txn = NoTxn /\ off' = 0 /\ last' = "ok"
      /\ pc' \in {"prefetch", "enter"} /\ (pc' = "prefetch" => kind = "append")
      /\ txn' = [kind |-> kind, toks |-> toks, epoch |-> be.epoch + 1]
      /\ UNCHANGED <<session, tile, be, rd, rpc, job>>
    BY DEF Begin, readerVars
<1>2. /\ txn'.kind = kind /\ txn'.toks = toks /\ txn'.epoch = be.epoch + 1 /\ txn' \in TxnRecords
      /\ txn' # NoTxn
    BY <1>1, Typing DEF TxnRecords
<1>3. pc' \notin Executing /\ pc' \notin Catching /\ pc' # "idle" /\ pc' # "run" /\ pc' # "takefinal"
    BY <1>1, Places
<1>4. be.prov = 0
    BY <1>1 DEF ReaderInv, CallInStep
<1>5. CallInStep'
    BY <1>1, <1>2, <1>3, <1>4, Typing DEF ReaderInv, CallInStep, Catching
<1>6. HashesInStep'
    BY <1>1, <1>4 DEF ReaderInv, HashesInStep
<1>7. ReaderInStep'
    <2>1. rd.cancel => FALSE
        BY <1>1, Places DEF ReaderInv, ReaderInStep
    <2>2. QED
        BY <1>1, <1>3, <2>1, ReaderFrame, Places DEF ReaderInv
<1>8. ~Live'
    <2>1. be.read.on => be.read.epoch <= be.epoch
        BY <1>1, Typing DEF ReaderInv, ReadInStep
    <2>2. QED
        BY <1>1, <1>2, <2>1, Typing DEF Live
<1>9. ReadInStep'
    <2>1. be.read.on => be.read.epoch \in 1..be.epoch
        BY <1>1 DEF ReaderInv, ReadInStep
    <2>2. be'.read.on => be'.read.epoch \in 1..txn'.epoch
        BY <1>1, <1>2, <2>1, Typing
    <2>3. QED
        BY <1>1, <1>2, <1>3, <1>8, <2>2 DEF ReadInStep, Reading, Executing
<1>10. QED
    BY <1>1, <1>5, <1>6, <1>7, <1>8, <1>9, TilesFrame DEF ReaderInv, Reading

\* Trip
LEMMA TripStep ==
    ASSUME ReaderInv, Trip
    PROVE  ReaderInv'
<1>1. UNCHANGED <<session, txn, off, last, pc, tile, be, rd, rpc, job>>
    BY DEF Trip, readerVars
<1>2. /\ UNCHANGED <<ChunkLen, Good, Live, Reading, ReaderBusy>>
    BY <1>1 DEF ChunkLen, Good, Live, Reading, ReaderBusy
<1>3. UNCHANGED <<TileLen>>
    BY <1>1, <1>2 DEF TileLen
<1>4. UNCHANGED NextRow
    BY <1>1, <1>3 DEF NextRow
<1>5. CallInStep'
    BY <1>1, <1>2 DEF ReaderInv, CallInStep
<1>6. HashesInStep'
    BY <1>1, <1>2 DEF ReaderInv, HashesInStep
<1>7. ReaderInStep'
    BY <1>1, <1>2 DEF ReaderInv, ReaderInStep
<1>8. ReadInStep'
    BY <1>1, <1>2, <1>3, <1>4 DEF ReaderInv, ReadInStep
<1>9. QED
    BY <1>1, <1>2, <1>4, <1>5, <1>6, <1>7, <1>8, TilesFrame DEF ReaderInv

\* NextChunk
LEMMA NextChunkStep ==
    ASSUME ReaderInv, NextChunk
    PROVE  ReaderInv'
<1>1. /\ pc = "idle" /\ txn # NoTxn /\ last = "ok" /\ off < Len(txn.toks) /\ pc' = "enter"
      /\ UNCHANGED <<session, txn, off, last, tile, be, rd, rpc, job>>
    BY DEF NextChunk, MayGoOn, driverVars, readerVars
<1>2. /\ pc \notin Executing /\ pc' \notin Executing /\ pc \notin Catching /\ pc' \notin Catching
      /\ pc' # "takefinal" /\ pc' # "run" /\ pc # "takefinal" /\ pc # "run"
    BY <1>1, Places
<1>3. UNCHANGED <<Live, Reading, NextRow, Good>>
    BY <1>1, <1>2 DEF Live, Reading, NextRow, Good
<1>4. CallInStep'
    BY <1>1, <1>2 DEF ReaderInv, CallInStep
<1>5. HashesInStep'
    BY <1>1, <1>2, <1>3 DEF ReaderInv, HashesInStep
<1>6. ReaderInStep'
    <2>1. ~rd.cancel
        BY <1>2 DEF ReaderInv, ReaderInStep
    <2>2. QED
        BY <1>1, <2>1, ReaderFrame DEF ReaderInv
<1>7. ReadInStep'
    BY <1>1, <1>2, <1>3 DEF ReaderInv, ReadInStep, Executing
<1>8. QED
    BY <1>1, <1>3, <1>4, <1>5, <1>6, <1>7, TilesFrame DEF ReaderInv

\* Checkpoint
LEMMA CheckpointStep ==
    ASSUME ReaderInv, Checkpoint
    PROVE  ReaderInv'
<1>1. /\ pc = "idle" /\ txn # NoTxn /\ last = "ok" /\ be' = [be EXCEPT !.ckpt = off]
      /\ UNCHANGED <<session, txn, off, last, pc, tile, rd, rpc, job>>
    BY DEF Checkpoint, MayGoOn, driverVars, readerVars
<1>2. /\ be' \in BeRecords
      /\ be'.prov = be.prov /\ be'.epoch = be.epoch /\ be'.hashes = be.hashes /\ be'.read = be.read
    BY <1>1, Typing DEF ReaderInv, CallInStep, BeRecords
<1>3. UNCHANGED <<Live, Reading, Good>>
    BY <1>1, <1>2 DEF Live, Reading, Good
<1>4. pc \notin Executing /\ pc \notin Catching /\ pc # "takefinal" /\ pc # "run"
    BY <1>1, Places
<1>5. UNCHANGED NextRow
    BY <1>1, <1>2, <1>4 DEF NextRow
<1>6. CallInStep'
    BY <1>1, <1>2, <1>4 DEF ReaderInv, CallInStep
<1>7. HashesInStep'
    BY <1>1, <1>2, <1>3, <1>4 DEF ReaderInv, HashesInStep
<1>8. ReaderInStep'
    BY <1>1, <1>2, ReaderFrame DEF ReaderInv, ReaderInStep
<1>9. ReadInStep'
    BY <1>1, <1>2, <1>3, <1>4, <1>5 DEF ReaderInv, ReadInStep, Executing
<1>10. QED
    BY <1>1, <1>2, <1>3, <1>5, <1>6, <1>7, <1>8, <1>9, TilesFrame DEF ReaderInv

\* Reset
LEMMA ResetStep ==
    ASSUME ReaderInv, Reset
    PROVE  ReaderInv'
<1>1. /\ pc = "idle" /\ txn = NoTxn /\ pc' = "reset"
      /\ UNCHANGED <<session, txn, off, last, tile, be, rd, rpc, job>>
    BY DEF Reset, driverVars, readerVars
<1>2. /\ pc \notin Executing /\ pc' \notin Executing /\ pc \notin Catching /\ pc' \in Catching
      /\ pc' # "takefinal" /\ pc' # "run" /\ pc # "takefinal" /\ pc # "run"
    BY <1>1, Places
<1>3. ~Reading' /\ ~Good'
    BY <1>2 DEF Reading, Good
<1>4. CallInStep'
    BY <1>1, <1>2 DEF ReaderInv, CallInStep
<1>5. HashesInStep'
    BY <1>1, <1>3 DEF ReaderInv, HashesInStep
<1>6. ReaderInStep'
    BY <1>1, <1>2, ReaderFrame DEF ReaderInv
<1>7. ReadInStep'
    BY <1>1, <1>2, <1>3 DEF ReaderInv, ReadInStep, Executing
<1>8. QED
    BY <1>1, <1>3, <1>4, <1>5, <1>6, <1>7 DEF ReaderInv

\* TileTop
LEMMA TileTopStep ==
    ASSUME ReaderInv, TileTop
    PROVE  ReaderInv'
<1>1. /\ pc = "tile" /\ pc' \in {"take", "catch_cancelled"} /\ last' = last
      /\ UNCHANGED <<session, txn, off, tile, be, rd, rpc, job>>
    BY DEF TileTop, Catch, readerVars
<1>2. /\ pc \in Executing /\ pc \notin Catching
      /\ pc' = "take" => pc' \in Executing /\ pc' \notin Catching
      /\ pc' = "catch_cancelled" => pc' \in Catching /\ pc' \notin Executing
      /\ pc' # "takefinal" /\ pc' # "run" /\ pc # "takefinal" /\ pc # "run"
    BY <1>1, Places
<1>3. UNCHANGED <<Live, ChunkLen>>
    BY <1>1 DEF Live, ChunkLen
<1>4. (Reading' => Reading /\ NextRow' = NextRow) /\ (Good' => Good)
    BY <1>1, <1>2, <1>3 DEF Reading, NextRow, Good
<1>5. txn # NoTxn
    BY <1>1 DEF ReaderInv, CallInStep
<1>6. CallInStep'
    BY <1>1, <1>2, <1>3, <1>5 DEF ReaderInv, CallInStep
<1>7. HashesInStep'
    BY <1>1, <1>2, <1>3, <1>4 DEF ReaderInv, HashesInStep, Good
<1>8. ReaderInStep'
    <2>1. ~rd.cancel
        BY <1>2 DEF ReaderInv, ReaderInStep
    <2>2. QED
        BY <1>1, <2>1, ReaderFrame DEF ReaderInv
<1>9. ReadInStep'
    <2>1. Live /\ Reading
        BY <1>1, <1>2 DEF ReaderInv, ReadInStep, Reading
    <2>2. ASSUME Reading'
          PROVE \/ /\ be'.read.base = 0 /\ txn'.kind = "append"
                   /\ Len(be'.read.rows) = Len(txn'.toks)
                \/ /\ be'.read.base = off' /\ pc' \in Executing
                   /\ Len(be'.read.rows) = ChunkLen'
        <3>1. pc' \in Executing
            BY <1>1, <1>2, <2>2 DEF Reading
        <3>2. QED
            BY <1>1, <1>3, <2>1, <3>1 DEF ReaderInv, ReadInStep
    <2>3. be'.read.on => be'.read.epoch \in 1..(IF txn' = NoTxn THEN be'.epoch ELSE txn'.epoch)
        BY <1>1 DEF ReaderInv, ReadInStep
    <2>4. QED
        BY <1>1, <1>2, <1>3, <2>1, <2>2, <2>3 DEF ReadInStep
<1>10. QED
    BY <1>1, <1>4, <1>6, <1>7, <1>8, <1>9, TilesFrame DEF ReaderInv

\* What the end of a transaction does to the backend.
LEMMA ClosedFacts ==
    ASSUME NEW b \in BeRecords, NEW e \in Nat
    PROVE  /\ Closed(b, e) \in BeRecords
           /\ Closed(b, e).epoch = e /\ Closed(b, e).prov = 0 /\ Closed(b, e).hashes = <<>>
           /\ Closed(b, e).read = b.read /\ Closed(b, e).hash = b.hash
           /\ Closed(b, e).ckpt = 0 /\ Closed(b, e).processed = 0 /\ Closed(b, e).active = FALSE
           /\ Closed(b, e).frontier = b.frontier /\ Closed(b, e).base = b.base
           /\ Closed(b, e).expected = 0 /\ Closed(b, e).kind = "invalid" /\ Closed(b, e).toks = <<>>
<1>1. <<>> \in Seq(Tokens) /\ <<>> \in Seq(Pairs)
    OBVIOUS
<1>2. /\ Closed(b, e).epoch = e /\ Closed(b, e).prov = 0 /\ Closed(b, e).hashes = <<>>
      /\ Closed(b, e).read = b.read /\ Closed(b, e).hash = b.hash
      /\ Closed(b, e).ckpt = 0 /\ Closed(b, e).processed = 0 /\ Closed(b, e).active = FALSE
    BY DEF Closed, BeRecords
<1>3. /\ Closed(b, e).frontier = b.frontier /\ Closed(b, e).base = b.base
      /\ Closed(b, e).expected = 0 /\ Closed(b, e).kind = "invalid" /\ Closed(b, e).toks = <<>>
    BY DEF Closed, BeRecords
<1>4. Closed(b, e) \in BeRecords
    BY <1>1 DEF Closed, BeRecords
<1>5. QED
    BY <1>2, <1>3, <1>4

\* A transaction ends, and with it the interest in its read.
LEMMA EndFrame ==
    ASSUME ReaderInv, pc = "idle", pc' = "idle", txn # NoTxn, txn' = NoTxn, off' = 0,
           be' \in BeRecords, be'.epoch = txn.epoch, be'.prov = 0, be'.hashes = <<>>,
           be'.read = be.read, session' \in Seq(Tokens),
           UNCHANGED <<tile, rd, rpc, job>>
    PROVE  ReaderInv'
<1>1. pc' \notin Executing /\ pc' \notin Catching /\ pc' # "takefinal" /\ pc' # "run"
    BY Places
<1>2. /\ txn'.kind = "none" /\ txn'.toks = <<>> /\ txn'.epoch = 0 /\ txn' \in TxnRecords
      /\ Len(<<>>) = 0
    BY Typing DEF NoTxn, TxnRecords
<1>3. CallInStep'
    BY <1>1, <1>2 DEF ReaderInv, CallInStep
<1>4. HashesInStep'
    BY DEF HashesInStep
<1>5. ReaderInStep'
    BY ReaderFrame DEF ReaderInv, ReaderInStep
<1>6. be.read.on => be.read.epoch \in 1..txn.epoch
    BY DEF ReaderInv, ReadInStep
<1>7. ~Live'
    BY <1>2, <1>6, Typing DEF Live
<1>8. ReadInStep'
    BY <1>1, <1>6, <1>7 DEF ReadInStep, Reading, Executing
<1>9. QED
    BY <1>3, <1>4, <1>5, <1>7, <1>8 DEF ReaderInv, Reading

\* Rollback
LEMMA RollbackStep ==
    ASSUME ReaderInv, Rollback
    PROVE  ReaderInv'
<1>1. /\ pc = "idle" /\ txn # NoTxn /\ txn' = NoTxn /\ off' = 0
      /\ be' = Closed(be, txn.epoch)
      /\ UNCHANGED <<session, pc, tile, rd, rpc, job>>
    BY DEF Rollback, readerVars
<1>2. /\ be' \in BeRecords /\ be'.epoch = txn.epoch /\ be'.prov = 0 /\ be'.hashes = <<>>
      /\ be'.read = be.read
    BY <1>1, ClosedFacts, Typing DEF ReaderInv, CallInStep
<1>3. session' \in Seq(Tokens)
    BY <1>1 DEF ReaderInv, CallInStep
<1>4. QED
    BY <1>1, <1>2, <1>3, EndFrame

\* The tokens that a commit adds to the session, and the hash it keeps.
LEMMA CommitFacts ==
    ASSUME ReaderInv, NEW n \in 1..ContextLimit, MayGoOn,
           \/ n = off /\ off = Len(txn.toks)
           \/ txn.kind = "speculative" /\ n > 0 /\ n = off - 1 /\ n = be.ckpt,
           CommitAccepted(n)
    PROVE  /\ n \in 1..off /\ n \in 1..Len(txn.toks) /\ n \in 1..Len(be.hashes)
           /\ be.prov = txn.epoch /\ be.prov # 0 /\ Good /\ pc = "idle"
           /\ SubSeq(txn.toks, 1, n) \in Seq(Tokens) /\ Len(SubSeq(txn.toks, 1, n)) = n
<1>1. n \in Nat /\ n >= 1
    BY CudaAssumption
<1>2. n \in 1..off /\ n \in 1..Len(txn.toks)
    BY <1>1, Typing
<1>3. be.prov = txn.epoch /\ be.prov # 0
    BY Typing DEF MayGoOn, CommitAccepted
<1>4. Good /\ pc = "idle" /\ pc \notin Executing
    BY Places DEF MayGoOn, Good
<1>5. Len(be.hashes) = off
    <2>1. Len(be.hashes) = off + 0
        BY <1>3, <1>4 DEF ReaderInv, HashesInStep
    <2>2. QED
        BY <2>1, Typing
<1>6. SubSeq(txn.toks, 1, n) \in Seq(Tokens) /\ Len(SubSeq(txn.toks, 1, n)) = n
    <2>1. \A i \in 1..n : txn.toks[i] \in Tokens
        BY <1>2, Typing
    <2>2. QED
        BY <1>2, <2>1, Typing, SubSeqProperties
<1>7. QED
    BY <1>2, <1>3, <1>4, <1>5, <1>6

\* Commit
LEMMA CommitStep ==
    ASSUME ReaderInv, NEW n \in 1..ContextLimit, Commit(n)
    PROVE  ReaderInv'
<1>0. /\ MayGoOn
      /\ \/ n = off /\ off = Len(txn.toks)
         \/ txn.kind = "speculative" /\ n > 0 /\ n = off - 1 /\ n = be.ckpt
      /\ UNCHANGED <<tile, rd, rpc, job>>
    BY DEF Commit, readerVars
<1>1. CASE /\ CommitAccepted(n)
           /\ be' = [Closed(be, be.prov) EXCEPT !.frontier = be.base + n,
                                                !.hash = be.hashes[n]]
           /\ session' = session \o SubSeq(txn.toks, 1, n)
           /\ txn' = NoTxn /\ off' = 0 /\ Return
    <2>1. /\ n \in 1..Len(be.hashes) /\ be.prov = txn.epoch /\ pc = "idle" /\ n \in Nat
          /\ SubSeq(txn.toks, 1, n) \in Seq(Tokens)
        BY <1>0, <1>1, CommitFacts
    <2>2. be \in BeRecords /\ session \in Seq(Tokens)
        BY DEF ReaderInv, CallInStep
    <2>3. be.hashes[n] \in Pairs /\ be.base + n \in Nat
        BY <2>1, <2>2 DEF BeRecords
    <2> DEFINE c == Closed(be, be.prov)
    <2>4. /\ c \in BeRecords /\ c.epoch = be.prov /\ c.prov = 0 /\ c.hashes = <<>>
          /\ c.read = be.read
        BY <2>2, ClosedFacts, Typing
    <2>5. be' = [c EXCEPT !.frontier = be.base + n, !.hash = be.hashes[n]]
        BY <1>1
    <2> HIDE DEF c
    <2>6. /\ be' \in BeRecords /\ be'.epoch = txn.epoch /\ be'.prov = 0 /\ be'.hashes = <<>>
          /\ be'.read = be.read
        BY <2>1, <2>3, <2>4, <2>5 DEF BeRecords
    <2>7. session' \in Seq(Tokens)
        BY <1>1, <2>1, <2>2
    <2>8. QED
        BY <1>0, <1>1, <2>1, <2>6, <2>7, EndFrame DEF MayGoOn, Return
<1>2. CASE /\ ReturnFailed(IF CommitAccepted(n) THEN "commit_device" ELSE "commit")
           /\ UNCHANGED <<be, session, txn, off>>
    <2>1. pc = "idle" /\ pc' = "idle" /\ last' = "failed"
        BY <1>0, <1>2 DEF MayGoOn, ReturnFailed
    <2>2. UNCHANGED <<pc, session, txn, off, tile, be, rd, rpc, job>> /\ ~Good'
        BY <1>0, <1>2, <2>1 DEF Good
    <2>3. UNCHANGED <<Live, Reading, ChunkLen, ReaderBusy>>
        BY <2>2 DEF Live, Reading, ChunkLen, ReaderBusy
    <2>4. UNCHANGED TileLen
        BY <2>2, <2>3 DEF TileLen
    <2>5. UNCHANGED NextRow
        BY <2>2, <2>4 DEF NextRow
    <2>6. pc \notin Executing
        BY <2>1, Places
    <2>7. CallInStep'
        BY <2>1, <2>2, <2>6 DEF ReaderInv, CallInStep
    <2>8. HashesInStep'
        BY <2>2 DEF ReaderInv, HashesInStep
    <2>9. ReaderInStep'
        BY <2>2, <2>3 DEF ReaderInv, ReaderInStep
    <2>10. ReadInStep'
        BY <2>2, <2>3, <2>4, <2>5 DEF ReaderInv, ReadInStep
    <2>11. QED
        BY <2>2, <2>3, <2>5, <2>7, <2>8, <2>9, <2>10, TilesFrame DEF ReaderInv
<1>3. QED
    BY <1>1, <1>2 DEF Commit

\* The hash states and rows of a sequence of tokens.
LEMMA HashTypes ==
    ASSUME NEW h \in Pairs, NEW s \in Seq(Tokens)
    PROVE  /\ HashesAfter(h, s) \in Seq(Pairs) /\ Len(HashesAfter(h, s)) = Len(s)
           /\ HashRows(h, s) \in Seq(Rows) /\ Len(HashRows(h, s)) = Len(s)
<1>1. Len(s) \in Nat /\ \A i \in 1..Len(s) : s[i] \in Tokens
    OBVIOUS
<1>2. h[1] \in Tokens /\ h[2] \in Tokens /\ Eos \in Tokens
    BY CudaAssumption DEF Pairs
<1>3. \A i \in 1..Len(s) : HashesAfter(h, s)[i] \in Pairs
    <2>1. ASSUME NEW i \in 1..Len(s) PROVE HashesAfter(h, s)[i] \in Pairs
        <3>1. i # 1 => s[i - 1] \in Tokens
            BY <1>1
        <3>2. QED
            BY <1>1, <1>2, <3>1 DEF HashesAfter, Pairs
    <2>2. QED
        BY <2>1
<1>4. HashesAfter(h, s) \in [1..Len(s) -> Pairs]
    BY <1>3 DEF HashesAfter
<1>5. HashesAfter(h, s) \in Seq(Pairs) /\ Len(HashesAfter(h, s)) = Len(s)
    BY <1>1, <1>4, LenProperties
<1>6. \A i \in 1..Len(s) : HashRows(h, s)[i] \in Rows
    <2>1. ASSUME NEW i \in 1..Len(s) PROVE HashRows(h, s)[i] \in Rows
        <3>1. i # 1 => HashesAfter(h, s)[i - 1] \in Pairs
            BY <1>1, <1>3
        <3> DEFINE g == IF i = 1 THEN h ELSE HashesAfter(h, s)[i - 1]
        <3>2. g \in Pairs
            BY <3>1
        <3>3. HashRows(h, s)[i] = HashRow(g, s[i])
            BY DEF HashRows
        <3> HIDE DEF g
        <3>4. HashRow(g, s[i]) \in Rows
            BY <1>1, <1>2, <3>2 DEF HashRow, Pairs, Rows
        <3>5. QED
            BY <3>3, <3>4
    <2>2. QED
        BY <2>1
<1>7. HashRows(h, s) \in [1..Len(s) -> Rows]
    BY <1>6 DEF HashRows
<1>8. HashRows(h, s) \in Seq(Rows) /\ Len(HashRows(h, s)) = Len(s)
    BY <1>1, <1>7, LenProperties
<1>9. QED
    BY <1>5, <1>8

\* A call fails or is cancelled before its first tile.
LEMMA FailFrame ==
    ASSUME ReaderInv, pc \in {"prefetch", "enter"}, pc' = "idle", last' # "ok",
           UNCHANGED <<session, txn, off, rd, rpc, job>>, tile' \in Nat,
           be' \in BeRecords, be'.read = be.read, be'.epoch = be.epoch,
           be'.prov = be.prov \/ be'.prov = txn.epoch,
           be'.prov = 0 => be'.hashes = <<>>
    PROVE  ReaderInv'
<1>1. /\ pc' \notin Executing /\ pc' \notin Catching /\ pc' # "takefinal" /\ pc' # "run"
      /\ pc \notin Executing /\ pc \notin Catching /\ pc # "takefinal" /\ pc # "run"
      /\ pc # "idle" /\ pc # "reset"
    BY Places
<1>2. ~Good' /\ txn # NoTxn
    BY <1>1 DEF Good, ReaderInv, CallInStep
<1>3. UNCHANGED Live /\ UNCHANGED Reading
    BY <1>1 DEF Live, Reading
<1>4. UNCHANGED NextRow
    BY <1>1 DEF NextRow
<1>5. CallInStep'
    BY <1>1, <1>2 DEF ReaderInv, CallInStep
<1>6. HashesInStep'
    BY <1>2 DEF HashesInStep
<1>7. ReaderInStep'
    BY <1>1, ReaderFrame DEF ReaderInv, ReaderInStep
<1>8. ReadInStep'
    BY <1>1, <1>2, <1>3, <1>4 DEF ReaderInv, ReadInStep, Executing
<1>9. QED
    BY <1>3, <1>4, <1>5, <1>6, <1>7, <1>8, TilesFrame DEF ReaderInv

\* A request is handed to a reader that is at rest.
LEMMA SubmittedFacts ==
    ASSUME ReaderInStep, ~be.read.on, NEW rows \in Seq(Rows)
    PROVE  LET r == ReaderSubmitted(rows) IN
           /\ r \in ReaderRecords /\ r.tiles = <<>> /\ r.request /\ ~r.working /\ ~r.result
           /\ ~r.cancel /\ rpc = "wait" /\ ~r.error
           /\ TilesInStep(r, job, rpc, rows, 0)
<1> DEFINE r == ReaderSubmitted(rows)
<1>1. /\ rd \in ReaderRecords /\ ~rd.working /\ ~rd.result /\ ~rd.request /\ rd.tiles = <<>>
      /\ rpc = "wait" /\ Len(rows) \in Nat
    BY DEF ReaderInStep, ReaderBusy
<1>2. /\ r \in ReaderRecords /\ r.tiles = rd.tiles /\ r.request /\ r.working = rd.working
      /\ r.result = rd.result /\ ~r.cancel /\ r.rows = rows /\ r.total = Len(rows) /\ ~r.error
    BY <1>1 DEF ReaderSubmitted, ReaderRecords
<1> HIDE DEF r
<1>3. \A i \in 1..Len(r.tiles) : FALSE
    BY <1>1, <1>2
<1>4. TilesInStep(r, job, "wait", rows, 0)
    BY <1>1, <1>2, <1>3 DEF TilesInStep
<1>5. QED
    BY <1>1, <1>2, <1>4 DEF r

\* Prefetch
LEMMA PrefetchStep ==
    ASSUME ReaderInv, Prefetch
    PROVE  ReaderInv'
<1> DEFINE rows == HashRows(be.hash, txn.toks)
           new == [on |-> TRUE, epoch |-> txn.epoch, base |-> 0, rows |-> rows]
<1>1. pc = "prefetch" /\ UNCHANGED <<session, txn, off, tile, rpc, job>>
    BY DEF Prefetch, readerVars
<1>2. CASE last' # "ok" /\ pc' = "idle" /\ UNCHANGED <<be, rd>>
    BY <1>1, <1>2, FailFrame, Typing DEF ReaderInv, CallInStep, HashesInStep
<1>3. CASE /\ ~be.read.on /\ be.prov = 0 /\ Return
           /\ rd' = ReaderSubmitted(rows) /\ be' = [be EXCEPT !.read = new]
    <2>1. be \in BeRecords /\ be.hash \in Pairs /\ txn.toks \in Seq(Tokens) /\ txn.epoch \in Nat
        BY Typing DEF ReaderInv, CallInStep, BeRecords
    <2>2. rows \in Seq(Rows) /\ Len(rows) = Len(txn.toks)
        BY <2>1, HashTypes
    <2> HIDE DEF rows
    <2>3. /\ be' \in BeRecords /\ be'.read = new /\ be'.epoch = be.epoch /\ be'.prov = be.prov
          /\ be'.hashes = be.hashes
        BY <1>3, <2>1, <2>2 DEF BeRecords, ReadRecords
    <2>4. /\ rd' \in ReaderRecords /\ rd'.tiles = <<>> /\ rd'.request /\ ~rd'.working /\ ~rd'.result
          /\ ~rd'.cancel /\ rpc = "wait"
          /\ TilesInStep(rd', job, rpc, rows, 0)
        BY <1>3, <2>2, SubmittedFacts DEF ReaderInv
    <2>5. /\ be'.read.on = TRUE /\ be'.read.epoch = txn.epoch /\ be'.read.base = 0 /\ be'.read.rows = rows
        BY <2>3
    <2>6. /\ pc' = "idle" /\ pc' \notin Executing /\ pc' \notin Catching /\ pc' # "takefinal" /\ pc' # "run"
        BY <1>3, Places DEF Return
    <2>7. txn # NoTxn /\ off = 0 /\ txn.kind = "append"
        BY <1>1 DEF ReaderInv, CallInStep
    <2>8. CallInStep'
        BY <1>1, <2>3, <2>6, <2>7 DEF ReaderInv, CallInStep
    <2>9. HashesInStep'
        BY <1>3, <2>3 DEF ReaderInv, HashesInStep
    <2>10. ReaderInStep'
        BY <1>1, <2>4, <2>5, <2>6 DEF ReaderInv, ReaderInStep, ReaderBusy
    <2>11. NextRow' = 0
        <3>1. NextRow' = off' - be'.read.base + 0 + 0
            BY <2>6 DEF NextRow
        <3>2. QED
            BY <1>1, <2>5, <2>7, <3>1
    <2>12. ReadInStep'
        <3>1. be'.read.epoch \in 1..txn'.epoch /\ txn' # NoTxn
            BY <1>1, <2>5, <2>7, Typing
        <3>2. be'.read.base = 0 /\ txn'.kind = "append" /\ Len(be'.read.rows) = Len(txn'.toks)
            BY <1>1, <2>2, <2>5, <2>7
        <3>3. QED
            BY <2>6, <3>1, <3>2 DEF ReadInStep, Executing
    <2>13. (Reading => TilesInStep(rd, job, rpc, be.read.rows, NextRow))'
        BY <1>1, <2>4, <2>5, <2>11
    <2>14. QED
        BY <2>8, <2>9, <2>10, <2>12, <2>13 DEF ReaderInv
<1>4. QED
    <2>1. CASE be.read.on \/ be.prov # 0 \/ be.active
        BY <1>2, <2>1 DEF Prefetch, ReturnFailed
    <2>2. CASE ~(be.read.on \/ be.prov # 0 \/ be.active)
        <3>1. \/ ReturnCancelled /\ UNCHANGED <<be, rd>>
              \/ ReturnFailed("reader") /\ UNCHANGED <<be, rd>>
              \/ Return /\ rd' = ReaderSubmitted(rows) /\ be' = [be EXCEPT !.read = new]
            BY <2>2 DEF Prefetch
        <3>2. QED
            BY <1>2, <1>3, <2>2, <3>1 DEF ReturnFailed, ReturnCancelled
    <2>3. QED
        BY <2>1, <2>2

\* What EnterExecute makes of the backend: the transaction opened if need be, the
\* hashes of the chunk recorded, its tokens taken, its read submitted.
EnterBe == IF be.prov = 0 THEN Opened ELSE be
EnterHash ==
    IF EnterBe.hashes = <<>> THEN EnterBe.hash ELSE EnterBe.hashes[Len(EnterBe.hashes)]
EnterRows == HashRows(EnterHash, Chunk)
Hashed == [EnterBe EXCEPT !.hashes = @ \o HashesAfter(EnterHash, Chunk)]
Taken == [Hashed EXCEPT !.toks = @ \o Chunk]
EnterRead == [on |-> TRUE, epoch |-> EnterBe.prov, base |-> off, rows |-> EnterRows]
Submitted == [Taken EXCEPT !.read = EnterRead]

\* The ways through EnterExecute.
LEMMA EnterCases ==
    ASSUME EnterExecute
    PROVE  /\ pc = "enter" /\ tile' = 0
           /\ UNCHANGED <<session, txn, off, tripped, staged, graphs, rpc, job>>
           /\ \/ UNCHANGED <<be, gdn, ple, qsa, rd>> /\ ReturnCancelled /\ tripped
              \/ UNCHANGED <<be, gdn, ple, qsa, rd>> /\ ReturnFailed("protocol") /\ ~Accepted
              \/ /\ ~tripped /\ Accepted
                 /\ gdn' = IF be.prov = 0 THEN BankBegin(gdn, txn.epoch) ELSE gdn
                 /\ ple' = IF be.prov = 0 THEN BankBegin(ple, txn.epoch) ELSE ple
                 /\ qsa' = IF be.prov = 0 THEN QsaBegin(qsa, txn.epoch) ELSE qsa
                 /\ \/ /\ EnterBe.read.on /\ ~ReadCovers(EnterBe, EnterRows)
                       /\ be' = Hashed /\ ReturnFailed("read_ahead") /\ UNCHANGED rd
                    \/ /\ ~EnterBe.read.on /\ ReaderBusy
                       /\ be' = Hashed /\ ReturnFailed("reader") /\ UNCHANGED rd
                    \/ /\ EnterBe.read.on /\ ReadCovers(EnterBe, EnterRows)
                       /\ be' = Taken /\ pc' = "tile" /\ UNCHANGED <<rd, last, fail>>
                    \/ /\ ~EnterBe.read.on
                       /\ rd' = ReaderSubmitted(EnterRows)
                       /\ be' = Submitted /\ pc' = "tile" /\ UNCHANGED <<last, fail>>
<1>1. CASE tripped
    BY <1>1 DEF EnterExecute, readerVars, bankVars
<1>2. CASE ~tripped /\ ~Accepted
    BY <1>2 DEF EnterExecute, readerVars, bankVars
<1>3. CASE ~tripped /\ Accepted
    BY <1>3 DEF EnterExecute, readerVars, EnterBe, EnterHash, EnterRows, Hashed, Taken, EnterRead, Submitted
<1>4. QED
    BY <1>1, <1>2, <1>3

\* One field of the backend's record changes.
SameButToks(b, c) ==
    /\ b.frontier = c.frontier /\ b.epoch = c.epoch /\ b.hash = c.hash /\ b.prov = c.prov
    /\ b.base = c.base /\ b.expected = c.expected /\ b.processed = c.processed /\ b.ckpt = c.ckpt
    /\ b.kind = c.kind /\ b.active = c.active /\ b.hashes = c.hashes /\ b.read = c.read

SameButRead(b, c) ==
    /\ b.frontier = c.frontier /\ b.epoch = c.epoch /\ b.hash = c.hash /\ b.prov = c.prov
    /\ b.base = c.base /\ b.expected = c.expected /\ b.processed = c.processed /\ b.ckpt = c.ckpt
    /\ b.kind = c.kind /\ b.active = c.active /\ b.hashes = c.hashes /\ b.toks = c.toks

\* The tokens change.
LEMMA BeToks ==
    ASSUME NEW b \in BeRecords, NEW ts \in Seq(Tokens)
    PROVE  LET c == [b EXCEPT !.toks = ts] IN
           c \in BeRecords /\ c.toks = ts /\ SameButToks(c, b)
<1>1. [b EXCEPT !.toks = ts] \in BeRecords
    BY DEF BeRecords
<1>2. [b EXCEPT !.toks = ts].toks = ts
    BY DEF BeRecords
<1>3. SameButToks([b EXCEPT !.toks = ts], b)
    BY DEF BeRecords, SameButToks
<1>4. QED
    BY <1>1, <1>2, <1>3

\* The read changes.
LEMMA BeRead ==
    ASSUME NEW b \in BeRecords, NEW r \in ReadRecords
    PROVE  LET c == [b EXCEPT !.read = r] IN
           c \in BeRecords /\ c.read = r /\ SameButRead(c, b)
<1>1. [b EXCEPT !.read = r] \in BeRecords
    BY DEF BeRecords
<1>2. [b EXCEPT !.read = r].read = r
    BY DEF BeRecords
<1>3. SameButRead([b EXCEPT !.read = r], b)
    BY DEF BeRecords, SameButRead
<1>4. QED
    BY <1>1, <1>2, <1>3

\* A transaction opens.
LEMMA OpenedFacts ==
    ASSUME NEW b \in BeRecords, NEW e \in Nat, NEW m \in Nat, NEW n \in Nat,
           NEW k \in {"append", "decode", "speculative"}
    PROVE  [b EXCEPT !.prov = e, !.base = m, !.expected = n,
                     !.processed = 0, !.ckpt = 0, !.kind = k, !.active = TRUE,
                     !.toks = <<>>, !.hashes = <<>>] \in BeRecords
<1> DEFINE c == [b EXCEPT !.prov = e, !.base = m, !.expected = n, !.processed = 0]
           d == [c EXCEPT !.ckpt = 0, !.kind = k, !.active = TRUE]
           f == [d EXCEPT !.toks = <<>>, !.hashes = <<>>]
<1>1. <<>> \in Seq(Tokens) /\ <<>> \in Seq(Pairs)
    OBVIOUS
<1>2. c \in BeRecords
    BY DEF BeRecords
<1>3. ASSUME NEW x \in BeRecords PROVE [x EXCEPT !.ckpt = 0, !.kind = k, !.active = TRUE] \in BeRecords
    BY DEF BeRecords
<1>4. ASSUME NEW x \in BeRecords PROVE [x EXCEPT !.toks = <<>>, !.hashes = <<>>] \in BeRecords
    BY <1>1 DEF BeRecords
<1>5. f \in BeRecords
    BY <1>2, <1>3, <1>4
<1>6. QED
    BY <1>5

\* What the backend's record has become.
LEMMA EnterFacts ==
    ASSUME ReaderInv, pc = "enter", Accepted
    PROVE  /\ EnterBe \in BeRecords /\ EnterBe.read = be.read /\ EnterBe.epoch = be.epoch
           /\ EnterBe.prov = txn.epoch /\ EnterBe.hash = be.hash /\ Len(EnterBe.hashes) = off
           /\ EnterBe.hashes = be.hashes /\ txn.epoch # 0 /\ txn # NoTxn
           /\ EnterHash \in Pairs
           /\ EnterRows \in Seq(Rows) /\ Len(EnterRows) = ChunkLen
           /\ \A b \in {Hashed, Taken, Submitted} :
                /\ b \in BeRecords /\ b.epoch = be.epoch /\ b.prov = txn.epoch /\ b.hash = be.hash
                /\ b.hashes = be.hashes \o HashesAfter(EnterHash, Chunk)
                /\ Len(b.hashes) = off + ChunkLen
                /\ b.frontier = EnterBe.frontier /\ b.base = EnterBe.base
                /\ b.expected = EnterBe.expected /\ b.processed = EnterBe.processed
                /\ b.ckpt = EnterBe.ckpt /\ b.kind = EnterBe.kind /\ b.active = EnterBe.active
           /\ Hashed.read = be.read /\ Taken.read = be.read /\ Submitted.read = EnterRead
           /\ Taken.toks = EnterBe.toks \o Chunk /\ Submitted.toks = EnterBe.toks \o Chunk
<1>1. /\ be \in BeRecords /\ txn \in TxnRecords /\ off \in 0..Len(txn.toks) /\ txn # NoTxn
      /\ session \in Seq(Tokens) /\ pc \notin Executing /\ Good /\ txn.kind # "none"
    BY Places DEF ReaderInv, CallInStep, Good
<1>2. EnterBe \in BeRecords
    <2>1. Opened \in BeRecords
        <3>1. Len(session) \in Nat /\ Len(txn.toks) \in Nat
            BY <1>1, Typing
        <3>2. txn.kind \in {"append", "decode", "speculative"}
            BY <1>1 DEF TxnRecords
        <3>3. <<>> \in Seq(Tokens) /\ <<>> \in Seq(Pairs)
            OBVIOUS
        <3>4. QED
            BY <1>1, <3>1, <3>2, Typing, OpenedFacts, ZenonT(60) DEF Opened
    <2>2. QED
        BY <1>1, <2>1 DEF EnterBe
<1>3. EnterBe.read = be.read /\ EnterBe.epoch = be.epoch /\ EnterBe.prov = txn.epoch /\ EnterBe.hash = be.hash
    BY <1>1 DEF EnterBe, Opened, BeRecords, Accepted, NextRange
<1>4. EnterBe.hashes = be.hashes /\ Len(be.hashes) = off
    <2>1. CASE be.prov = 0
        <3>1. be.hashes = <<>> /\ off = 0
            BY <2>1 DEF ReaderInv, HashesInStep, Accepted, CanOpen
        <3>2. EnterBe.hashes = <<>>
            BY <1>1, <2>1 DEF EnterBe, Opened, BeRecords
        <3>3. QED
            BY <3>1, <3>2
    <2>2. CASE be.prov # 0
        <3>1. Len(be.hashes) = off + 0
            BY <1>1, <2>2 DEF ReaderInv, HashesInStep
        <3>2. QED
            BY <2>2, <3>1, Typing DEF EnterBe
    <2>3. QED
        BY <2>1, <2>2
<1>5. EnterHash \in Pairs
    <2>1. be.hash \in Pairs /\ be.hashes \in Seq(Pairs)
        BY <1>1 DEF BeRecords
    <2>2. QED
        BY <1>3, <1>4, <2>1 DEF EnterHash
<1>6. /\ Chunk \in Seq(Tokens) /\ Len(Chunk) = ChunkLen /\ ChunkLen \in Nat
    BY <1>1, ChunkFacts
<1>7. /\ EnterRows \in Seq(Rows) /\ Len(EnterRows) = ChunkLen
      /\ HashesAfter(EnterHash, Chunk) \in Seq(Pairs) /\ Len(HashesAfter(EnterHash, Chunk)) = ChunkLen
    BY <1>5, <1>6, HashTypes DEF EnterRows
<1> DEFINE hs == be.hashes \o HashesAfter(EnterHash, Chunk)
<1>8. hs \in Seq(Pairs) /\ Len(hs) = off + ChunkLen
    <2>1. be.hashes \in Seq(Pairs)
        BY <1>1 DEF BeRecords
    <2>2. QED
        <3>1. ASSUME NEW u \in Seq(Pairs), Len(u) = ChunkLen
              PROVE  be.hashes \o u \in Seq(Pairs) /\ Len(be.hashes \o u) = off + ChunkLen
            BY <1>4, <2>1, <3>1, ConcatProperties
        <3>2. QED
            BY <1>7, <3>1
<1>9. Hashed = [EnterBe EXCEPT !.hashes = hs]
    BY <1>4 DEF Hashed
<1> HIDE DEF hs
<1>10. EnterBe.toks \o Chunk \in Seq(Tokens)
    <2>1. EnterBe.toks \in Seq(Tokens)
        BY <1>2 DEF BeRecords
    <2>2. QED
        BY <1>6, <2>1
<1>11. /\ Hashed \in BeRecords /\ Hashed.hashes = hs /\ Hashed.toks = EnterBe.toks
       /\ Hashed.epoch = EnterBe.epoch /\ Hashed.prov = EnterBe.prov /\ Hashed.hash = EnterBe.hash
       /\ Hashed.read = EnterBe.read
       /\ Hashed.frontier = EnterBe.frontier /\ Hashed.base = EnterBe.base
       /\ Hashed.expected = EnterBe.expected /\ Hashed.processed = EnterBe.processed
       /\ Hashed.ckpt = EnterBe.ckpt /\ Hashed.kind = EnterBe.kind /\ Hashed.active = EnterBe.active
    BY <1>2, <1>8, <1>9, SMTT(60) DEF BeRecords
<1>12. /\ Taken \in BeRecords /\ Taken.hashes = hs /\ Taken.toks = EnterBe.toks \o Chunk
       /\ Taken.epoch = EnterBe.epoch /\ Taken.prov = EnterBe.prov /\ Taken.hash = EnterBe.hash
       /\ Taken.read = EnterBe.read
       /\ Taken.frontier = EnterBe.frontier /\ Taken.base = EnterBe.base
       /\ Taken.expected = EnterBe.expected /\ Taken.processed = EnterBe.processed
       /\ Taken.ckpt = EnterBe.ckpt /\ Taken.kind = EnterBe.kind /\ Taken.active = EnterBe.active
    <2>1. Taken = [Hashed EXCEPT !.toks = EnterBe.toks \o Chunk]
        BY <1>11 DEF Taken
    <2> DEFINE ts == EnterBe.toks \o Chunk
    <2>2. ts \in Seq(Tokens) /\ Taken = [Hashed EXCEPT !.toks = ts]
        BY <1>10, <2>1
    <2> HIDE DEF ts
    <2>3. Taken \in BeRecords /\ Taken.toks = ts /\ SameButToks(Taken, Hashed)
        BY <1>11, <2>2, BeToks
    <2>4. QED
        BY <1>11, <2>3, Zenon DEF ts, SameButToks
<1>13. EnterRead \in ReadRecords
    BY <1>3, <1>7, Typing DEF EnterRead, ReadRecords
<1>14. /\ Submitted \in BeRecords /\ Submitted.hashes = hs /\ Submitted.toks = EnterBe.toks \o Chunk
       /\ Submitted.epoch = EnterBe.epoch /\ Submitted.prov = EnterBe.prov /\ Submitted.hash = EnterBe.hash
       /\ Submitted.read = EnterRead
       /\ Submitted.frontier = EnterBe.frontier /\ Submitted.base = EnterBe.base
       /\ Submitted.expected = EnterBe.expected /\ Submitted.processed = EnterBe.processed
       /\ Submitted.ckpt = EnterBe.ckpt /\ Submitted.kind = EnterBe.kind /\ Submitted.active = EnterBe.active
    <2>1. Submitted \in BeRecords /\ Submitted.read = EnterRead /\ SameButRead(Submitted, Taken)
        BY <1>12, <1>13, BeRead DEF Submitted
    <2>2. QED
        BY <1>12, <2>1, Zenon DEF SameButRead
<1>15. txn.epoch # 0
    BY <1>1, Typing
<1>16. QED
    BY <1>1, <1>2, <1>3, <1>4, <1>5, <1>7, <1>8, <1>11, <1>12, <1>14, <1>15, Zenon DEF hs

\* The chunk's first tile.
LEMMA EnterTile ==
    ASSUME ReaderInv, pc = "enter", pc' = "tile", tile' = 0, last' = last,
           UNCHANGED <<session, txn, off, rpc, job>>, txn # NoTxn,
           be' \in BeRecords, be'.epoch = be.epoch, be'.prov = txn.epoch,
           Len(be'.hashes) = off + ChunkLen
    PROVE  /\ CallInStep' /\ HashesInStep' /\ NextRow' = off - be'.read.base /\ ChunkLen' = ChunkLen
<1>1. /\ pc' \in Executing /\ pc' \notin Catching /\ pc' # "takefinal" /\ pc' # "run"
      /\ pc' # "idle" /\ pc' # "enter" /\ pc' # "prefetch" /\ pc' # "reset"
    BY Places
<1>2. ChunkLen' = ChunkLen /\ ChunkLen >= 1
    <2>1. ChunkLen' = ChunkLen
        BY DEF ChunkLen
    <2>2. ChunkLen >= 1
        BY ChunkFacts DEF ReaderInv, CallInStep
    <2>3. QED
        BY <2>1, <2>2
<1>3. TileTokens \in Nat /\ tile' = 0 * TileTokens /\ 0 \in 0..tile'
    BY CudaAssumption
<1>4. \E m \in 0..tile' : tile' = m * TileTokens
    BY <1>3
<1>5. CallInStep'
    <2>1. txn.epoch # 0 /\ txn.epoch \in Nat /\ 0 < ChunkLen /\ last = "ok" /\ off < Len(txn.toks)
        BY <1>2, Typing DEF ReaderInv, CallInStep
    <2>2. QED
        BY <1>1, <1>2, <1>4, <2>1 DEF ReaderInv, CallInStep
<1>6. HashesInStep'
    BY <1>1, <1>2, Typing DEF HashesInStep
<1>7. NextRow' = off - be'.read.base
    <2>1. NextRow' = off' - be'.read.base + tile' + 0
        BY <1>1 DEF NextRow
    <2>2. be'.read.base \in Nat
        BY DEF BeRecords, ReadRecords
    <2>3. QED
        BY <2>1, <2>2, Typing, SMTT(40)
<1>8. QED
    BY <1>2, <1>5, <1>6, <1>7

\* EnterExecute
LEMMA EnterStep ==
    ASSUME ReaderInv, EnterExecute
    PROVE  ReaderInv'
<1>1. pc = "enter" /\ tile' = 0 /\ UNCHANGED <<session, txn, off, rpc, job>>
    BY EnterCases
<1>2. CASE UNCHANGED <<be, rd>> /\ pc' = "idle" /\ last' # "ok"
    BY <1>1, <1>2, FailFrame, Typing DEF ReaderInv, CallInStep, HashesInStep
<1>3. CASE Accepted /\ be' = Hashed /\ UNCHANGED rd /\ pc' = "idle" /\ last' # "ok"
    <2>1. /\ be' \in BeRecords /\ be'.read = be.read /\ be'.epoch = be.epoch /\ be'.prov = txn.epoch
          /\ txn.epoch # 0
        BY <1>1, <1>3, EnterFacts
    <2>2. QED
        BY <1>1, <1>3, <2>1, FailFrame
<1>4. CASE /\ Accepted /\ EnterBe.read.on /\ ReadCovers(EnterBe, EnterRows)
           /\ be' = Taken /\ pc' = "tile" /\ UNCHANGED <<rd, last>>
    <2>1. /\ be' \in BeRecords /\ be'.read = be.read /\ be'.epoch = be.epoch /\ be'.prov = txn.epoch
          /\ Len(be'.hashes) = off + ChunkLen /\ txn # NoTxn
          /\ EnterBe.read = be.read /\ EnterBe.prov = txn.epoch
        BY <1>1, <1>4, EnterFacts
    <2>2. CallInStep' /\ HashesInStep' /\ NextRow' = off - be'.read.base /\ ChunkLen' = ChunkLen
        BY <1>1, <1>4, <2>1, EnterTile
    <2>3. /\ pc' \in Executing /\ pc' \notin Catching /\ pc' # "takefinal" /\ pc' # "run"
          /\ pc \notin Executing /\ pc \notin Catching /\ pc # "takefinal" /\ pc # "run"
        BY <1>1, <1>4, Places
    <2>4. Live /\ Reading /\ Live' /\ Reading'
        BY <1>1, <1>4, <2>1, <2>3 DEF ReadCovers, Live, Reading
    <2>5. NextRow = off - be.read.base
        <3>1. NextRow = off - be.read.base + 0 + 0
            BY <2>3 DEF NextRow
        <3>2. QED
            BY <3>1, Typing
    <2>6. ReaderInStep'
        BY <1>1, <1>4, <2>1, <2>3, ReaderFrame DEF ReaderInv, ReaderInStep
    <2>7. ReadInStep'
        <3>1. be.read.base = 0 /\ txn.kind = "append" /\ Len(be.read.rows) = Len(txn.toks)
            BY <2>3, <2>4 DEF ReaderInv, ReadInStep
        <3>2. be.read.epoch \in 1..txn.epoch
            BY <2>1, <2>4 DEF ReaderInv, ReadInStep, Live
        <3>3. QED
            BY <1>1, <2>1, <2>3, <2>4, <3>1, <3>2 DEF ReadInStep
    <2>8. (Reading => TilesInStep(rd, job, rpc, be.read.rows, NextRow))'
        BY <1>1, <1>4, <2>1, <2>2, <2>4, <2>5, TilesFrame
    <2>9. QED
        BY <2>2, <2>6, <2>7, <2>8 DEF ReaderInv
<1>5. CASE /\ Accepted /\ ~EnterBe.read.on
           /\ rd' = ReaderSubmitted(EnterRows)
           /\ be' = Submitted /\ pc' = "tile" /\ last' = last
    <2>1. /\ be' \in BeRecords /\ be'.read = EnterRead /\ be'.epoch = be.epoch /\ be'.prov = txn.epoch
          /\ Len(be'.hashes) = off + ChunkLen /\ txn # NoTxn
          /\ EnterBe.read = be.read /\ EnterBe.prov = txn.epoch
          /\ EnterRows \in Seq(Rows) /\ Len(EnterRows) = ChunkLen
        BY <1>1, <1>5, EnterFacts
    <2>2. CallInStep' /\ HashesInStep' /\ NextRow' = off - be'.read.base /\ ChunkLen' = ChunkLen
        BY <1>1, <1>5, <2>1, EnterTile
    <2>3. /\ be'.read.on = TRUE /\ be'.read.epoch = txn.epoch /\ be'.read.base = off
          /\ be'.read.rows = EnterRows
        BY <2>1 DEF EnterRead
    <2>4. NextRow' = 0
        BY <2>2, <2>3, Typing
    <2>5. /\ rd' \in ReaderRecords /\ rd'.tiles = <<>> /\ rd'.request /\ ~rd'.working /\ ~rd'.result
          /\ ~rd'.cancel /\ rpc = "wait"
          /\ TilesInStep(rd', job, rpc, EnterRows, 0)
        BY <1>5, <2>1, SubmittedFacts DEF ReaderInv
    <2>6. pc' \in Executing /\ pc' \notin Catching /\ pc' # "takefinal" /\ pc' # "run" /\ pc' # "catch_extent"
        BY <1>5, Places
    <2>7. ReaderInStep'
        BY <1>1, <2>3, <2>5, <2>6 DEF ReaderInv, ReaderInStep, ReaderBusy
    <2>8. Live'
        BY <1>1, <2>3 DEF Live
    <2>9. ReadInStep'
        <3>1. be'.read.epoch \in 1..txn'.epoch
            BY <1>1, <2>1, <2>3, Typing
        <3>2. QED
            BY <1>1, <2>1, <2>2, <2>3, <2>6, <2>8, <3>1 DEF ReadInStep
    <2>10. (Reading => TilesInStep(rd, job, rpc, be.read.rows, NextRow))'
        BY <1>1, <2>3, <2>4, <2>5
    <2>11. QED
        BY <2>2, <2>7, <2>9, <2>10 DEF ReaderInv
<1>6. QED
    BY <1>2, <1>3, <1>4, <1>5, EnterCases DEF ReturnCancelled, ReturnFailed

\* The backend forgets the read.
LEMMA OverFacts ==
    ASSUME be \in BeRecords
    PROVE  ReadOver \in BeRecords /\ ReadOver.read = NoRead /\ SameButRead(ReadOver, be) /\ ~NoRead.on
<1>1. NoRead \in ReadRecords
    BY DEF NoRead, ReadRecords
<1>2. ~NoRead.on
    BY DEF NoRead
<1>3. QED
    BY <1>1, <1>2, BeRead DEF ReadOver

\* The backend forgets a read that is over.
LEMMA OverFrame ==
    ASSUME ReaderInv, be' = ReadOver, UNCHANGED <<rpc, job>>, rpc = "wait",
           rd' \in ReaderRecords, rd'.tiles = <<>>, ~rd'.request, ~rd'.working, ~rd'.result,
           ~rd'.cancel, pc' # "catch_extent"
    PROVE  /\ ReaderInStep' /\ ~Live' /\ ~be'.read.on
           /\ be' \in BeRecords /\ be'.prov = be.prov /\ be'.epoch = be.epoch /\ be'.hashes = be.hashes
<1>1. /\ be' \in BeRecords /\ be'.prov = be.prov /\ be'.epoch = be.epoch /\ be'.hashes = be.hashes
      /\ be'.read = NoRead /\ ~be'.read.on
    BY OverFacts DEF ReaderInv, CallInStep, SameButRead
<1>2. ReaderInStep'
    BY <1>1 DEF ReaderInv, ReaderInStep, ReaderBusy
<1>3. QED
    BY <1>1, <1>2 DEF Live

\* A tile of the read under way is one of the chunk's.
LEMMA TakeFacts ==
    ASSUME TilesFitChunks, ReaderInv, pc = "take"
    PROVE  /\ Live /\ Reading /\ NextRow = FirstRow /\ FirstRow \in Nat
           /\ TilesInStep(rd, job, rpc, be.read.rows, FirstRow)
           /\ TileLen \in Nat /\ TileLen >= 1 /\ tile + TileLen <= ChunkLen
           /\ TileLen = IF TileTokens < Len(be.read.rows) - FirstRow THEN TileTokens
                        ELSE Len(be.read.rows) - FirstRow
<1>1. pc \in Executing /\ pc \notin Catching /\ pc # "takefinal" /\ pc # "run"
    BY Places
<1>2. Live /\ Reading
    BY <1>1 DEF ReaderInv, ReadInStep, Reading
<1>3. NextRow = FirstRow /\ FirstRow \in Nat
    <2>1. NextRow = off - be.read.base + tile + 0
        BY <1>1 DEF NextRow
    <2>2. NextRow \in Nat
        BY <1>2, NextRowFacts
    <2>3. NextRow = off + tile - be.read.base
        BY <2>1, Typing
    <2>4. QED
        BY <2>2, <2>3 DEF FirstRow
<1>4. TilesInStep(rd, job, rpc, be.read.rows, FirstRow)
    BY <1>2, <1>3 DEF ReaderInv
<1>5. /\ TileLen \in Nat /\ TileLen >= 1 /\ tile + TileLen <= ChunkLen
      /\ TileLen = IF TileTokens < ChunkLen - tile THEN TileTokens ELSE ChunkLen - tile
      /\ txn.kind = "append" =>
                TileLen = IF TileTokens < Len(txn.toks) - off - tile THEN TileTokens
                          ELSE Len(txn.toks) - off - tile
    BY <1>1, TileFacts DEF ReaderInv, CallInStep
<1>6. TileLen = IF TileTokens < Len(be.read.rows) - FirstRow THEN TileTokens
                ELSE Len(be.read.rows) - FirstRow
    <2>1. CASE be.read.base = 0 /\ txn.kind = "append" /\ Len(be.read.rows) = Len(txn.toks)
        <3>1. Len(be.read.rows) - FirstRow = Len(txn.toks) - off - tile
            BY <2>1, Typing DEF FirstRow
        <3>2. QED
            BY <1>5, <2>1, <3>1
    <2>2. CASE be.read.base = off /\ Len(be.read.rows) = ChunkLen
        <3>1. Len(be.read.rows) - FirstRow = ChunkLen - tile
            BY <2>2, Typing DEF FirstRow
        <3>2. QED
            BY <1>5, <3>1
    <2>3. QED
        BY <1>2, <2>1, <2>2 DEF ReaderInv, ReadInStep
<1>7. QED
    BY <1>2, <1>3, <1>4, <1>5, <1>6

\* The two ways through Take.
LEMMA TakeCases ==
    ASSUME TilesFitChunks, ReaderInv, Take
    PROVE  /\ pc = "take" /\ UNCHANGED <<session, txn, off, tripped, tile, gdn, ple, qsa, graphs, rpc, job>>
           /\ UNCHANGED <<last, fail>>
           /\ \/ /\ rd.tiles = <<>> /\ rd.result /\ pc' = "catch_read" /\ be' = ReadOver
                 /\ rd' = [rd EXCEPT !.result = FALSE, !.error = FALSE] /\ staged' = staged
              \/ /\ rd.tiles # <<>> /\ rd' = [rd EXCEPT !.tiles = Tail(rd.tiles)] /\ be' = be
                 /\ Len(Head(rd.tiles).rows) = TileLen
                 /\ staged' = Head(rd.tiles).rows
                 /\ pc' = IF FirstRow + TileLen = rd.total THEN "takefinal" ELSE "run"
<1>1. /\ pc = "take" /\ UNCHANGED <<session, txn, off, tripped, tile, gdn, ple, qsa, graphs, rpc, job>>
    BY DEF Take, bankVars, readerVars
<1>2. /\ Live /\ TilesInStep(rd, job, rpc, be.read.rows, FirstRow) /\ FirstRow \in Nat
      /\ TileLen = IF TileTokens < Len(be.read.rows) - FirstRow THEN TileTokens
                   ELSE Len(be.read.rows) - FirstRow
    BY <1>1, TakeFacts
<1>3. be.read.on
    BY <1>2 DEF Live
<1>4. rd \in ReaderRecords /\ job \in [rows : Seq(Rows), first : Nat, error : BOOLEAN] /\ rd.tiles \in Seq(TileRecords)
    BY DEF ReaderInv, ReaderInStep, ReaderRecords
<1>5. ASSUME rd.tiles # <<>>
      PROVE  /\ TileReady /\ Len(Head(rd.tiles).rows) = TileLen
    <2> DEFINE s == [rd EXCEPT !.tiles = Tail(rd.tiles)]
    <2>1. Tail(rd.tiles) \in Seq(TileRecords)
        BY <1>4, <1>5, HeadTailProperties
    <2>2. /\ s \in ReaderRecords /\ s.tiles = Tail(rd.tiles) /\ s.total = rd.total
          /\ s.request = rd.request /\ s.rows = rd.rows
        BY <1>4, <2>1 DEF ReaderRecords
    <2> HIDE DEF s
    <2>3. /\ Head(rd.tiles).first = FirstRow
          /\ Len(Head(rd.tiles).rows) = TileLen
        <3> DEFINE rows == be.read.rows  next == FirstRow
        <3>1. rows \in Seq(Rows) /\ next \in Nat /\ TilesInStep(rd, job, rpc, rows, next)
            BY <1>2, Typing
        <3>2. TileLen = IF TileTokens < Len(rows) - next THEN TileTokens ELSE Len(rows) - next
            BY <1>2
        <3> HIDE DEF rows, next
        <3>3. Head(rd.tiles).first = next
            BY <1>4, <1>5, <2>2, <3>1, TilesTake
        <3>4. Len(Head(rd.tiles).rows) = IF TileTokens < Len(rows) - next THEN TileTokens ELSE Len(rows) - next
            BY <1>4, <1>5, <2>2, <3>1, TilesTake
        <3>5. QED
            BY <3>2, <3>3, <3>4, Zenon DEF next
    <2>4. QED
        BY <1>5, <2>3 DEF TileReady
<1>6. CASE rd.tiles = <<>>
    <2>1. ~TileReady
        BY <1>6 DEF TileReady
    <2>2. QED
        BY <1>1, <1>3, <1>6, <2>1 DEF Take, Catch
<1>7. CASE rd.tiles # <<>>
    BY <1>1, <1>3, <1>5, <1>7 DEF Take, Catch
<1>8. QED
    BY <1>6, <1>7

\* Take
LEMMA TakeStep ==
    ASSUME TilesFitChunks, ReaderInv, Take
    PROVE  ReaderInv'
<1>1. /\ pc = "take" /\ UNCHANGED <<session, txn, off, tile, rpc, job, last>>
    BY TakeCases
<1>2. pc \in Executing /\ pc \notin Catching
    BY <1>1, Places
<1>3. /\ Live /\ TilesInStep(rd, job, rpc, be.read.rows, FirstRow) /\ FirstRow \in Nat
      /\ NextRow = FirstRow /\ Reading
      /\ TileLen \in Nat /\ TileLen >= 1 /\ tile + TileLen <= ChunkLen
      /\ TileLen = IF TileTokens < Len(be.read.rows) - FirstRow THEN TileTokens
                   ELSE Len(be.read.rows) - FirstRow
    BY <1>1, TakeFacts
<1>4. /\ rd \in ReaderRecords /\ job \in [rows : Seq(Rows), first : Nat, error : BOOLEAN]
      /\ ~rd.cancel /\ rd.tiles \in Seq(TileRecords)
    BY <1>2 DEF ReaderInv, ReaderInStep, ReaderRecords
<1>5. txn # NoTxn
    BY <1>1 DEF ReaderInv, CallInStep
<1>6. CASE /\ rd.tiles = <<>> /\ rd.result /\ pc' = "catch_read" /\ be' = ReadOver
           /\ rd' = [rd EXCEPT !.result = FALSE, !.error = FALSE]
    <2>1. /\ rd' \in ReaderRecords /\ rd'.tiles = <<>> /\ rd'.request = rd.request
          /\ rd'.working = rd.working /\ ~rd'.result /\ rd'.cancel = rd.cancel
        BY <1>4, <1>6 DEF ReaderRecords
    <2>2. ~rd.request /\ ~rd.working /\ rpc = "wait"
        BY <1>6 DEF ReaderInv, ReaderInStep
    <2>3. pc' \in Catching /\ pc' \notin Executing /\ pc' # "takefinal" /\ pc' # "run" /\ pc' # "catch_extent"
        BY <1>6, Places
    <2>4. /\ ReaderInStep' /\ ~Live' /\ ~be'.read.on
          /\ be' \in BeRecords /\ be'.prov = be.prov /\ be'.epoch = be.epoch /\ be'.hashes = be.hashes
        BY <1>1, <1>4, <1>6, <2>1, <2>2, <2>3, OverFrame
    <2>5. CallInStep'
        BY <1>1, <1>5, <1>6, <2>3, <2>4 DEF ReaderInv, CallInStep
    <2>6. HashesInStep'
        BY <2>3, <2>4 DEF ReaderInv, HashesInStep, Good
    <2>7. ReadInStep'
        BY <2>3, <2>4 DEF ReadInStep, Reading, Executing
    <2>8. QED
        BY <2>4, <2>5, <2>6, <2>7 DEF ReaderInv, Reading
<1>7. CASE /\ rd.tiles # <<>> /\ rd' = [rd EXCEPT !.tiles = Tail(rd.tiles)] /\ be' = be
           /\ pc' = IF FirstRow + TileLen = rd.total THEN "takefinal" ELSE "run"
    <2>1. Tail(rd.tiles) \in Seq(TileRecords)
        BY <1>4, <1>7, HeadTailProperties
    <2>2. /\ rd' \in ReaderRecords /\ rd'.tiles = Tail(rd.tiles) /\ rd'.total = rd.total
          /\ rd'.request = rd.request /\ rd'.rows = rd.rows /\ rd'.working = rd.working
          /\ rd'.result = rd.result /\ rd'.cancel = rd.cancel
        BY <1>4, <1>7, <2>1 DEF ReaderRecords
    <2>3. TilesInStep(rd', job, rpc, be.read.rows, FirstRow + TileLen)
        BY <1>3, <1>4, <1>7, <2>2, TilesTake, Typing
    <2>4. pc' \in {"takefinal", "run"} /\ pc' \in Executing /\ pc' \notin Catching /\ pc' # "catch_extent"
        BY <1>7, Places
    <2>5. UNCHANGED <<Live, ChunkLen>>
        BY <1>1, <1>7 DEF Live, ChunkLen
    <2>6. UNCHANGED TileLen
        BY <1>1, <2>5 DEF TileLen
    <2>7. NextRow' = FirstRow + TileLen
        <3>1. NextRow' = off' - be'.read.base + tile' + TileLen'
            BY <2>4 DEF NextRow
        <3>2. off - be.read.base + tile = FirstRow
            BY Typing DEF FirstRow
        <3>3. QED
            BY <1>1, <1>7, <2>6, <3>1, <3>2
    <2>8. CallInStep'
        BY <1>1, <1>2, <1>5, <1>7, <2>4, <2>5 DEF ReaderInv, CallInStep
    <2>9. HashesInStep'
        BY <1>1, <1>2, <1>7, <2>4, <2>5 DEF ReaderInv, HashesInStep, Good
    <2>10. ReaderInStep'
        <3>1. be.read.on
            BY <1>3 DEF Live
        <3>2. QED
            BY <1>1, <1>4, <1>7, <2>2, <2>4, <3>1 DEF ReaderInv, ReaderInStep, ReaderBusy
    <2>11. rd.total = Len(be.read.rows)
        BY <1>3 DEF TilesInStep
    <2>12. ReadInStep'
        <3>1. be'.read.on => be'.read.epoch \in 1..(IF txn' = NoTxn THEN be'.epoch ELSE txn'.epoch)
            BY <1>1, <1>7 DEF ReaderInv, ReadInStep
        <3>2. \/ /\ be'.read.base = 0 /\ txn'.kind = "append"
                 /\ Len(be'.read.rows) = Len(txn'.toks)
              \/ /\ be'.read.base = off' /\ pc' \in Executing
                 /\ Len(be'.read.rows) = ChunkLen'
            BY <1>1, <1>3, <1>7, <2>4, <2>5 DEF ReaderInv, ReadInStep
        <3>3. pc' = "takefinal" => NextRow' = Len(be'.read.rows)
            BY <1>7, <2>7, <2>11
        <3>4. pc' = "run" => be'.read.on /\ Live' /\ NextRow' # Len(be'.read.rows)
            BY <1>3, <1>7, <2>5, <2>7, <2>11 DEF Live
        <3>5. Live'
            BY <1>3, <2>5
        <3>6. QED
            BY <3>1, <3>2, <3>3, <3>4, <3>5 DEF ReadInStep
    <2>13. (Reading => TilesInStep(rd, job, rpc, be.read.rows, NextRow))'
        BY <1>1, <1>7, <2>3, <2>7
    <2>14. QED
        BY <2>8, <2>9, <2>10, <2>12, <2>13 DEF ReaderInv
<1>8. QED
    BY <1>6, <1>7, TakeCases

\* TakeFinal
LEMMA TakeFinalStep ==
    ASSUME TilesFitChunks, ReaderInv, TakeFinal
    PROVE  ReaderInv'
<1>1. /\ pc = "takefinal" /\ rd.result /\ be' = ReadOver /\ pc' \in {"catch_read", "run"} /\ last' = last
      /\ rd' = [rd EXCEPT !.result = FALSE, !.error = FALSE]
      /\ UNCHANGED <<session, txn, off, tile, rpc, job>>
    BY DEF TakeFinal, Catch, readerVars
<1>2. pc \in Executing /\ pc \notin Catching
    BY <1>1, Places
<1>3. Live /\ Reading /\ NextRow = Len(be.read.rows)
    BY <1>1, <1>2 DEF ReaderInv, ReadInStep, Reading
<1>4. rd \in ReaderRecords /\ ~rd.cancel /\ rd.tiles \in Seq(TileRecords)
    BY <1>2 DEF ReaderInv, ReaderInStep, ReaderRecords
<1>5. rd.tiles = <<>>
    <2>1. ASSUME rd.tiles # <<>> PROVE FALSE
        <3>1. 1 \in 1..Len(rd.tiles)
            BY <1>4, <2>1
        <3>2. rd.tiles[1].first < Len(be.read.rows) /\ rd.tiles[1].first = NextRow
            BY <1>3, <3>1 DEF ReaderInv, TilesInStep
        <3>3. QED
            BY <1>3, <3>2, Typing
    <2>2. QED
        BY <2>1
<1>6. /\ rd' \in ReaderRecords /\ rd'.tiles = <<>> /\ rd'.request = rd.request
      /\ rd'.working = rd.working /\ ~rd'.result /\ rd'.cancel = rd.cancel
    BY <1>1, <1>4, <1>5 DEF ReaderRecords
<1>7. ~rd.request /\ ~rd.working /\ rpc = "wait"
    BY <1>1 DEF ReaderInv, ReaderInStep
<1>8. /\ pc' # "takefinal" /\ pc' # "catch_extent" /\ pc' # "tile" /\ pc' # "take"
      /\ pc' = "run" => pc' \in Executing /\ pc' \notin Catching
      /\ pc' = "catch_read" => pc' \in Catching /\ pc' \notin Executing
    BY <1>1, Places
<1>9. /\ ReaderInStep' /\ ~Live' /\ ~be'.read.on
      /\ be' \in BeRecords /\ be'.prov = be.prov /\ be'.epoch = be.epoch /\ be'.hashes = be.hashes
    BY <1>1, <1>4, <1>6, <1>7, <1>8, OverFrame
<1>10. UNCHANGED ChunkLen
    BY <1>1 DEF ChunkLen
<1>11. UNCHANGED TileLen
    BY <1>1, <1>10 DEF TileLen
<1>12. tile + TileLen = ChunkLen
    <2>1. NextRow = off - be.read.base + tile + TileLen
        BY <1>1, <1>2 DEF NextRow
    <2>2. TileLen \in Nat /\ tile + TileLen <= ChunkLen
        BY <1>2, TileFacts DEF ReaderInv, CallInStep
    <2>a. off \in Nat /\ tile \in Nat /\ ChunkLen \in Nat /\ off + ChunkLen <= Len(txn.toks) /\ Len(txn.toks) \in Nat
        BY Typing
    <2>3. CASE be.read.base = 0 /\ Len(be.read.rows) = Len(txn.toks)
        <3>1. off - 0 + tile + TileLen = Len(txn.toks)
            BY <1>3, <2>1, <2>3
        <3>2. QED
            BY <2>2, <2>a, <3>1
    <2>4. CASE be.read.base = off /\ Len(be.read.rows) = ChunkLen
        <3>1. off - off + tile + TileLen = ChunkLen
            BY <1>3, <2>1, <2>4
        <3>2. QED
            BY <2>2, <2>a, <3>1
    <2>5. QED
        BY <1>3, <2>3, <2>4 DEF ReaderInv, ReadInStep
<1>13. txn # NoTxn
    BY <1>1 DEF ReaderInv, CallInStep
<1>14. CallInStep'
    BY <1>1, <1>2, <1>8, <1>9, <1>10, <1>13 DEF ReaderInv, CallInStep
<1>15. HashesInStep'
    BY <1>1, <1>2, <1>8, <1>9, <1>10 DEF ReaderInv, HashesInStep, Good
<1>16. ReadInStep'
    BY <1>1, <1>8, <1>9, <1>10, <1>11, <1>12 DEF ReadInStep, Reading
<1>17. QED
    BY <1>9, <1>14, <1>15, <1>16 DEF ReaderInv, Reading

\* The ways through RunTile.
LEMMA RunCases ==
    ASSUME RunTile
    PROVE  /\ pc = "run" /\ staged' = <<>>
           /\ gdn' = BankFold(gdn, SubSeq(Chunk, tile + 1, tile + TileLen))
           /\ ple' = BankFold(ple, staged)
           /\ UNCHANGED <<session, txn, tripped, rd, rpc, job>>
           /\ \/ /\ pc' \in {"catch_device", "catch_cancelled"}
                 /\ UNCHANGED <<be, off, tile, last, fail>>
              \/ /\ tile + TileLen # ChunkLen /\ tile' = tile + TileLen /\ pc' = "tile"
                 /\ UNCHANGED <<be, off, last, fail>>
              \/ /\ tile + TileLen = ChunkLen /\ be' = [be EXCEPT !.processed = be.processed + ChunkLen]
                 /\ off' = off + ChunkLen /\ Return /\ tile' = tile
    BY DEF RunTile, Catch, readerVars

\* The chunk's rows and the place in it, while it is executed.
LEMMA RunFacts ==
    ASSUME TilesFitChunks, ReaderInv, pc = "run"
    PROVE  /\ TileLen \in Nat /\ TileLen >= 1 /\ tile + TileLen <= ChunkLen
           /\ pc \in Executing /\ pc \notin Catching /\ txn # NoTxn /\ ~rd.cancel
           /\ be.prov = txn.epoch /\ be.prov # 0 /\ last = "ok" /\ Good
           /\ tile + TileLen # ChunkLen =>
                /\ Live /\ TileLen = TileTokens
                /\ \E m \in 0..tile + TileLen : tile + TileLen = m * TileTokens
           /\ NextRow = off - be.read.base + tile + TileLen
<1>1. pc \in Executing /\ pc \notin Catching
    BY Places
<1>2. /\ TileLen \in Nat /\ TileLen >= 1 /\ tile + TileLen <= ChunkLen
      /\ tile + TileLen # ChunkLen =>
            TileLen = TileTokens /\ \E m \in 0..tile + TileLen : tile + TileLen = m * TileTokens
    BY <1>1, TileFacts DEF ReaderInv, CallInStep
<1>3. /\ txn # NoTxn /\ be.prov = txn.epoch /\ last = "ok" /\ ~rd.cancel
    BY <1>1 DEF ReaderInv, CallInStep, ReaderInStep
<1>4. be.prov # 0
    BY <1>3, Typing
<1>5. tile + TileLen # ChunkLen => Live
    BY DEF ReaderInv, ReadInStep
<1>6. NextRow = off - be.read.base + tile + TileLen
    BY <1>1 DEF NextRow
<1>7. QED
    BY <1>1, <1>2, <1>3, <1>4, <1>5, <1>6 DEF Good

\* RunTile
LEMMA RunStep ==
    ASSUME TilesFitChunks, ReaderInv, RunTile
    PROVE  ReaderInv'
<1>1. pc = "run" /\ UNCHANGED <<session, txn, rd, rpc, job>>
    BY RunCases
<1>2. /\ TileLen \in Nat /\ TileLen >= 1 /\ tile + TileLen <= ChunkLen
      /\ pc \in Executing /\ pc \notin Catching /\ txn # NoTxn /\ ~rd.cancel
      /\ be.prov = txn.epoch /\ be.prov # 0 /\ last = "ok" /\ Good
      /\ NextRow = off - be.read.base + tile + TileLen
    BY <1>1, RunFacts
<1>3. CASE pc' \in {"catch_device", "catch_cancelled"} /\ UNCHANGED <<be, off, tile, last>>
    <2>1. pc' \in Catching /\ pc' \notin Executing /\ pc' # "takefinal" /\ pc' # "run" /\ pc' # "catch_extent" /\ pc' # "reset"
        BY <1>3, Places
    <2>2. CallInStep'
        BY <1>1, <1>2, <1>3, <2>1 DEF ReaderInv, CallInStep
    <2>3. HashesInStep'
        BY <1>3, <2>1 DEF ReaderInv, HashesInStep, Good
    <2>4. ReaderInStep'
        BY <1>1, <1>3, <2>1, ReaderFrame DEF ReaderInv
    <2>5. ReadInStep'
        BY <1>1, <1>3, <2>1 DEF ReaderInv, ReadInStep, Reading, Executing
    <2>6. QED
        BY <2>1, <2>2, <2>3, <2>4, <2>5 DEF ReaderInv, Reading
<1>4. CASE tile + TileLen # ChunkLen /\ tile' = tile + TileLen /\ pc' = "tile" /\ UNCHANGED <<be, off, last>>
    <2>1. /\ Live /\ TileLen = TileTokens
          /\ \E m \in 0..tile + TileLen : tile + TileLen = m * TileTokens
        BY <1>1, <1>4, RunFacts
    <2>2. pc' \in Executing /\ pc' \notin Catching /\ pc' # "takefinal" /\ pc' # "run" /\ pc' # "catch_extent" /\ pc' # "reset"
        BY <1>4, Places
    <2>3. UNCHANGED <<ChunkLen, Live>> /\ tile + TileLen < ChunkLen /\ tile + TileLen \in Nat
        <3>1. UNCHANGED <<ChunkLen, Live>>
            BY <1>1, <1>4 DEF ChunkLen, Live
        <3>2. tile + TileLen < ChunkLen /\ tile + TileLen \in Nat
            BY <1>2, <1>4, Typing, SMTT(40)
        <3>3. QED
            BY <3>1, <3>2
    <2>4. CallInStep'
        BY <1>1, <1>2, <1>4, <2>1, <2>2, <2>3 DEF ReaderInv, CallInStep
    <2>5. HashesInStep'
        BY <1>1, <1>2, <1>4, <2>2, <2>3 DEF ReaderInv, HashesInStep
    <2>6. ReaderInStep'
        BY <1>1, <1>2, <1>4, <2>2, ReaderFrame DEF ReaderInv
    <2>7. NextRow' = NextRow /\ Reading
        <3>1. NextRow' = off - be.read.base + (tile + TileLen) + 0
            BY <1>1, <1>4, <2>2 DEF NextRow
        <3>2. off \in Nat /\ be.read.base \in Nat /\ tile \in Nat
            BY Typing
        <3>3. NextRow' = NextRow
            BY <1>2, <3>1, <3>2
        <3>4. QED
            BY <1>2, <2>1, <3>3 DEF Reading
    <2>8. ReadInStep'
        <3>1. be'.read.on => be'.read.epoch \in 1..(IF txn' = NoTxn THEN be'.epoch ELSE txn'.epoch)
            BY <1>1, <1>4 DEF ReaderInv, ReadInStep
        <3>2. \/ /\ be'.read.base = 0 /\ txn'.kind = "append"
                 /\ Len(be'.read.rows) = Len(txn'.toks)
              \/ /\ be'.read.base = off' /\ pc' \in Executing
                 /\ Len(be'.read.rows) = ChunkLen'
            BY <1>1, <1>4, <2>2, <2>3, <2>7 DEF ReaderInv, ReadInStep
        <3>3. QED
            BY <2>1, <2>2, <2>3, <3>1, <3>2 DEF ReadInStep
    <2>9. QED
        BY <1>1, <1>4, <2>4, <2>5, <2>6, <2>7, <2>8, TilesFrame DEF ReaderInv
<1>5. CASE /\ tile + TileLen = ChunkLen /\ be' = [be EXCEPT !.processed = be.processed + ChunkLen]
           /\ off' = off + ChunkLen /\ Return /\ tile' = tile
    <2>1. be \in BeRecords /\ be.processed + ChunkLen \in Nat
        BY Typing, SMTT(40) DEF ReaderInv, CallInStep, BeRecords
    <2>2. /\ be' \in BeRecords /\ be'.read = be.read /\ be'.prov = be.prov /\ be'.epoch = be.epoch
          /\ be'.hashes = be.hashes
        BY <1>5, <2>1 DEF BeRecords
    <2>3. /\ pc' = "idle" /\ pc' \notin Executing /\ pc' \notin Catching /\ pc' # "takefinal" /\ pc' # "run"
        BY <1>5, Places DEF Return
    <2>4. UNCHANGED Live
        BY <1>1, <2>2 DEF Live
    <2>5. off' \in 0..Len(txn.toks)
        BY <1>5, Typing
    <2>6. CallInStep'
        BY <1>1, <1>2, <1>5, <2>2, <2>3, <2>5 DEF ReaderInv, CallInStep
    <2>7. HashesInStep'
        <3>1. Len(be.hashes) = off + ChunkLen
            BY <1>2 DEF ReaderInv, HashesInStep
        <3>2. QED
            BY <1>2, <1>5, <2>2, <2>3, <3>1, Typing, SMTT(40) DEF HashesInStep
    <2>8. ReaderInStep'
        BY <1>1, <1>2, <2>2, <2>3, ReaderFrame DEF ReaderInv
    <2>9. NextRow' = NextRow
        <3>1. NextRow' = (off + ChunkLen) - be.read.base + 0 + 0
            BY <1>5, <2>2, <2>3 DEF NextRow
        <3>2. QED
            BY <1>2, <1>5, <3>1, Typing, SMTT(40)
    <2>10. ReadInStep'
        <3>1. be'.read.on => be'.read.epoch \in 1..(IF txn' = NoTxn THEN be'.epoch ELSE txn'.epoch)
            BY <1>1, <2>2 DEF ReaderInv, ReadInStep
        <3>2. ASSUME Reading'
              PROVE  be'.read.base = 0 /\ txn'.kind = "append" /\ Len(be'.read.rows) = Len(txn'.toks)
            <4>1. Reading /\ be.read.on
                BY <1>2, <2>4, <3>2 DEF Reading, Live
            <4>2. NextRow # Len(be.read.rows)
                BY <1>1, <4>1 DEF ReaderInv, ReadInStep
            <4>3. CASE be.read.base = off /\ Len(be.read.rows) = ChunkLen
                <5>1. NextRow = off - off + tile + TileLen
                    BY <1>2, <4>3
                <5>2. QED
                    BY <1>2, <1>5, <4>2, <4>3, <5>1, Typing
            <4>4. QED
                BY <1>1, <2>2, <4>1, <4>3 DEF ReaderInv, ReadInStep
        <3>3. QED
            BY <2>3, <3>1, <3>2 DEF ReadInStep, Executing
    <2>11. Reading' => Reading
        BY <1>2, <2>4 DEF Reading
    <2>12. QED
        BY <1>1, <2>2, <2>6, <2>7, <2>8, <2>9, <2>10, <2>11, TilesFrame DEF ReaderInv
<1>6. QED
    BY <1>3, <1>4, <1>5, RunCases

\* Drain
LEMMA DrainStep ==
    ASSUME ReaderInv, Drain
    PROVE  ReaderInv'
<1>1. /\ pc \in Catching /\ be.read.on /\ rd' = [rd EXCEPT !.cancel = TRUE]
      /\ UNCHANGED <<session, txn, off, last, pc, tile, be, rpc, job>>
    BY DEF Drain, driverVars, readerVars
<1>2. /\ rd' \in ReaderRecords /\ rd'.request = rd.request /\ rd'.working = rd.working
      /\ rd'.result = rd.result /\ rd'.tiles = rd.tiles
    BY <1>1 DEF ReaderInv, ReaderInStep, ReaderRecords
<1>3. UNCHANGED <<ChunkLen, Good, Live, Reading, ReaderBusy>>
    BY <1>1, <1>2 DEF ChunkLen, Good, Live, Reading, ReaderBusy
<1>4. UNCHANGED <<TileLen>>
    BY <1>1, <1>3 DEF TileLen
<1>5. UNCHANGED NextRow
    BY <1>1, <1>4 DEF NextRow
<1>6. CallInStep'
    BY <1>1, <1>3 DEF ReaderInv, CallInStep
<1>7. HashesInStep'
    BY <1>1, <1>3 DEF ReaderInv, HashesInStep
<1>8. ReaderInStep'
    BY <1>1, <1>2, <1>3 DEF ReaderInv, ReaderInStep
<1>9. ReadInStep'
    BY <1>1, <1>3, <1>4, <1>5 DEF ReaderInv, ReadInStep
<1>10. ~Reading'
    BY <1>1 DEF Reading
<1>11. QED
    BY <1>6, <1>7, <1>8, <1>9, <1>10 DEF ReaderInv

\* Once the backend has drained the read, the reader is at rest.
LEMMA DrainedFacts ==
    ASSUME ReaderInv, Drained, rd' = ReaderDrained
    PROVE  /\ rd' \in ReaderRecords /\ rd'.tiles = <<>> /\ ~rd'.request /\ ~rd'.working /\ ~rd'.result
           /\ ~rd'.cancel /\ rpc = "wait"
<1>1. CASE be.read.on
    <2>1. ReaderBusy /\ rd.cancel /\ (rd.result \/ ~(rd.request \/ rd.working))
        BY <1>1 DEF ReaderInv, ReaderInStep, Drained
    <2>2. ~rd.working /\ rpc = "wait"
        BY <2>1 DEF ReaderInv, ReaderInStep
    <2>3. rd' = FreshReader
        BY <1>1, <2>1 DEF ReaderDrained
    <2>4. <<>> \in Seq(Rows) /\ <<>> \in Seq(TileRecords)
        OBVIOUS
    <2>5. QED
        BY <2>2, <2>3, <2>4 DEF FreshReader, ReaderRecords
<1>2. CASE ~be.read.on
    BY <1>2 DEF ReaderInv, ReaderInStep, ReaderBusy, ReaderDrained
<1>3. QED
    BY <1>1, <1>2

\* Rethrow
LEMMA RethrowStep ==
    ASSUME ReaderInv, Rethrow
    PROVE  ReaderInv'
<1>1. /\ pc \in Catching \ {"reset"} /\ Drained /\ rd' = ReaderDrained /\ be' = ReadOver
      /\ pc' = "idle" /\ last' # "ok"
      /\ UNCHANGED <<session, txn, off, tile, rpc, job>>
    BY DEF Rethrow, ReturnCancelled, ReturnFailed, readerVars
<1>2. pc' \notin Executing /\ pc' \notin Catching /\ pc' # "takefinal" /\ pc' # "run" /\ pc' # "catch_extent"
    BY <1>1, Places
<1>3. /\ rd' \in ReaderRecords /\ rd'.tiles = <<>> /\ ~rd'.request /\ ~rd'.working /\ ~rd'.result
      /\ ~rd'.cancel /\ rpc = "wait"
    BY <1>1, DrainedFacts
<1>4. /\ ReaderInStep' /\ ~Live' /\ ~be'.read.on
      /\ be' \in BeRecords /\ be'.prov = be.prov /\ be'.epoch = be.epoch /\ be'.hashes = be.hashes
    BY <1>1, <1>2, <1>3, OverFrame
<1>5. CallInStep'
    BY <1>1, <1>2, <1>4 DEF ReaderInv, CallInStep, Catching
<1>6. HashesInStep'
    BY <1>1, <1>4 DEF ReaderInv, HashesInStep, Good
<1>7. ReadInStep'
    BY <1>2, <1>4 DEF ReadInStep, Reading, Executing
<1>8. QED
    BY <1>4, <1>5, <1>6, <1>7 DEF ReaderInv, Reading

\* FinishReset
LEMMA FinishResetStep ==
    ASSUME ReaderInv, FinishReset
    PROVE  ReaderInv'
<1>1. /\ pc = "reset" /\ Drained /\ rd' = ReaderDrained /\ be' = FreshBe /\ session' = <<>>
      /\ pc' = "idle" /\ UNCHANGED <<txn, off, tile, rpc, job>>
    BY DEF FinishReset, Return, readerVars
<1>2. pc' \notin Executing /\ pc' \notin Catching /\ pc' # "takefinal" /\ pc' # "run" /\ pc' # "catch_extent"
    BY <1>1, Places
<1>3. /\ rd' \in ReaderRecords /\ rd'.tiles = <<>> /\ ~rd'.request /\ ~rd'.working /\ ~rd'.result
      /\ ~rd'.cancel /\ rpc = "wait"
    BY <1>1, DrainedFacts
<1>4. /\ <<>> \in Seq(Tokens) /\ <<>> \in Seq(Pairs) /\ <<>> \in Seq(Rows) /\ FreshHash \in Pairs
    BY CudaAssumption DEF FreshHash, Pairs
<1>5. NoRead \in ReadRecords /\ ~NoRead.on
    BY <1>4 DEF NoRead, ReadRecords
<1>6. /\ FreshBe \in BeRecords /\ FreshBe.prov = 0 /\ FreshBe.read = NoRead /\ FreshBe.hashes = <<>>
    BY <1>4, <1>5 DEF FreshBe, BeRecords
<1>7. txn = NoTxn
    BY <1>1 DEF ReaderInv, CallInStep
<1>8. CallInStep'
    BY <1>1, <1>2, <1>4, <1>6, <1>7 DEF ReaderInv, CallInStep
<1>9. HashesInStep'
    BY <1>1, <1>6 DEF HashesInStep
<1>10. ReaderInStep'
    BY <1>1, <1>2, <1>3, <1>5, <1>6 DEF ReaderInv, ReaderInStep, ReaderBusy
<1>11. ReadInStep' /\ ~Reading'
    BY <1>1, <1>2, <1>5, <1>6 DEF ReadInStep, Reading, Live, Executing
<1>12. QED
    BY <1>8, <1>9, <1>10, <1>11 DEF ReaderInv

\* The stage's side of the invariant, when the reader moves.
LEMMA StageFrame ==
    ASSUME ReaderInv, UNCHANGED <<session, txn, off, last, pc, tile, be>>
    PROVE  CallInStep' /\ HashesInStep' /\ ReadInStep' /\ UNCHANGED <<Reading, NextRow>>
<1>1. UNCHANGED <<ChunkLen, Good, Live, Reading>>
    BY DEF ChunkLen, Good, Live, Reading
<1>2. UNCHANGED TileLen
    BY <1>1 DEF TileLen
<1>3. UNCHANGED NextRow
    BY <1>2 DEF NextRow
<1>4. CallInStep'
    BY <1>1 DEF ReaderInv, CallInStep
<1>5. HashesInStep'
    BY <1>1 DEF ReaderInv, HashesInStep
<1>6. ReadInStep'
    BY <1>1, <1>2, <1>3 DEF ReaderInv, ReadInStep
<1>7. QED
    BY <1>1, <1>3, <1>4, <1>5, <1>6

\* The four actions of the reader's thread.
LEMMA ReaderStep ==
    ASSUME TilesFitChunks, ReaderInv, Reader
    PROVE  ReaderInv'
<1>1. UNCHANGED <<session, txn, off, last, pc, tile, be>>
    BY DEF Reader, ReaderPick, ReaderRoom, ReaderRead, ReaderFinish, driverVars
<1>2. CallInStep' /\ HashesInStep' /\ ReadInStep' /\ Reading' = Reading /\ NextRow' = NextRow
    BY <1>1, StageFrame
<1>3. /\ rd \in ReaderRecords /\ job \in [rows : Seq(Rows), first : Nat, error : BOOLEAN]
      /\ rd.rows \in Seq(Rows) /\ rd.tiles \in Seq(TileRecords) /\ job.rows \in Seq(Rows)
      /\ job.first \in Nat /\ job.error \in BOOLEAN
    BY DEF ReaderInv, ReaderInStep, ReaderRecords
<1>4. be.read.rows \in Seq(Rows) /\ (Reading => NextRow \in Nat)
    BY Typing, NextRowFacts
<1>5. Reading => TilesInStep(rd, job, rpc, be.read.rows, NextRow)
    BY DEF ReaderInv
<1>6. SUFFICES /\ ReaderInStep'
               /\ Reading => TilesInStep(rd', job', rpc', be.read.rows, NextRow)
    BY <1>1, <1>2 DEF ReaderInv
<1>7. CASE ReaderPick
    <2>1. /\ rpc = "wait" /\ rd.request /\ rpc' = "room"
          /\ job' = [rows |-> rd.rows, first |-> 0, error |-> FALSE]
          /\ rd' = [rd EXCEPT !.rows = <<>>, !.request = FALSE, !.working = TRUE]
        BY <1>7 DEF ReaderPick
    <2>2. <<>> \in Seq(Rows)
        OBVIOUS
    <2>3. /\ rd' \in ReaderRecords /\ ~rd'.request /\ rd'.working /\ rd'.result = rd.result
          /\ rd'.tiles = rd.tiles /\ rd'.cancel = rd.cancel /\ rd'.total = rd.total
        BY <1>3, <2>1, <2>2 DEF ReaderRecords
    <2>4. job' \in [rows : Seq(Rows), first : Nat, error : BOOLEAN] /\ job'.rows = rd.rows /\ job'.first = 0
        BY <1>3, <2>1
    <2>5. ReaderInStep'
        BY <1>1, <2>1, <2>3, <2>4 DEF ReaderInv, ReaderInStep, ReaderBusy
    <2>6. Reading => TilesInStep(rd', job', rpc', be.read.rows, NextRow)
        BY <1>3, <1>4, <1>5, <2>1, <2>3, <2>4, TilesPick
    <2>7. QED
        BY <2>5, <2>6
<1>8. CASE ReaderRoom
    <2>1. /\ rpc = "room" /\ job.first < Len(job.rows) /\ rpc' \in {"read", "finish"} /\ UNCHANGED <<rd, job>>
        BY <1>8 DEF ReaderRoom
    <2>2. ReaderInStep'
        BY <1>1, <2>1 DEF ReaderInv, ReaderInStep, ReaderBusy
    <2>3. Reading => TilesInStep(rd', job', rpc', be.read.rows, NextRow)
        BY <1>3, <1>4, <1>5, <2>1, TilesRoom
    <2>4. QED
        BY <2>2, <2>3
<1>9. CASE ReaderRead
    <2> DEFINE end == IF job.first + TileTokens < Len(job.rows) THEN job.first + TileTokens ELSE Len(job.rows)
               new == [first |-> job.first, rows |-> SubSeq(job.rows, job.first + 1, end)]
    <2>0. TileTokens \in Nat
        BY CudaAssumption
    <2>1. rpc = "read"
        BY <1>9 DEF ReaderRead
    <2>2. new = TileAt(job.rows, job.first) /\ new \in TileRecords
        <3>1. end \in Nat /\ end <= Len(job.rows)
            BY <1>3, <2>0
        <3>2. new = TileAt(job.rows, job.first)
            BY DEF TileAt
        <3> HIDE DEF end
        <3>3. \A i \in job.first + 1..end : job.rows[i] \in Rows
            BY <1>3, <3>1
        <3>4. SubSeq(job.rows, job.first + 1, end) \in Seq(Rows)
            BY <1>3, <3>1, <3>3, SubSeqProperties
        <3>5. QED
            BY <1>3, <3>2, <3>4 DEF TileRecords
    <2>3. CASE /\ rd' = [rd EXCEPT !.tiles = Append(@, new)]
               /\ job' = [job EXCEPT !.first = @ + TileTokens] /\ rpc' = "room"
        <3> DEFINE ts == Append(rd.tiles, TileAt(job.rows, job.first))
        <3>1. ts \in Seq(TileRecords) /\ rd' = [rd EXCEPT !.tiles = ts]
            <4>1. ts \in Seq(TileRecords)
                BY <1>3, <2>2, AppendProperties, ZenonT(60)
            <4>2. ts = Append(rd.tiles, new)
                BY <2>2
            <4> HIDE DEF ts, new
            <4>3. rd' = [rd EXCEPT !.tiles = ts]
                BY <2>3, <4>2
            <4>4. QED
                BY <4>1, <4>3
        <3> HIDE DEF ts, new
        <3>2. /\ rd' \in ReaderRecords /\ rd'.request = rd.request /\ rd'.working = rd.working
              /\ rd'.result = rd.result /\ rd'.tiles = ts /\ rd'.cancel = rd.cancel /\ rd'.total = rd.total
            BY <1>3, <3>1 DEF ReaderRecords
        <3>3. /\ job' \in [rows : Seq(Rows), first : Nat, error : BOOLEAN]
              /\ job'.rows = job.rows /\ job'.first = job.first + TileTokens
            BY <1>3, <2>0, <2>3
        <3>4. rd.working /\ ~rd.request /\ be.read.on
            BY <2>1 DEF ReaderInv, ReaderInStep, ReaderBusy
        <3>5. ReaderInStep'
            BY <1>1, <2>1, <2>3, <3>2, <3>3, <3>4 DEF ReaderInv, ReaderInStep, ReaderBusy
        <3>6. Reading => TilesInStep(rd', job', "room", be.read.rows, NextRow)
            BY <1>3, <1>4, <1>5, <2>1, <3>2, <3>3, <3>4, TilesRead DEF ts
        <3>7. QED
            BY <2>3, <3>5, <3>6
    <2>4. CASE /\ job' = [job EXCEPT !.error = TRUE] /\ rpc' = "finish" /\ rd' = rd
        <3>1. job' \in [rows : Seq(Rows), first : Nat, error : BOOLEAN]
            BY <1>3, <2>4
        <3>2. ReaderInStep'
            BY <1>1, <2>1, <2>4, <3>1 DEF ReaderInv, ReaderInStep, ReaderBusy
        <3>3. Reading => TilesInStep(rd', job', "finish", be.read.rows, NextRow)
            BY <1>3, <1>4, <1>5, <2>4, TilesFinish
        <3>4. QED
            BY <2>4, <3>2, <3>3
    <2>5. QED
        BY <1>9, <2>3, <2>4 DEF ReaderRead
<1>10. CASE ReaderFinish
    <2>1. /\ rpc \in {"finish", "room"} /\ rpc' = "wait" /\ job' = NoJob
          /\ rd' = [rd EXCEPT !.working = FALSE, !.result = TRUE, !.error = job.error]
        BY <1>10 DEF ReaderFinish
    <2>2. /\ rd' \in ReaderRecords /\ rd'.request = rd.request /\ ~rd'.working /\ rd'.result
          /\ rd'.tiles = rd.tiles /\ rd'.cancel = rd.cancel /\ rd'.total = rd.total /\ rd'.rows = rd.rows
        BY <1>3, <2>1 DEF ReaderRecords
    <2>3. job' \in [rows : Seq(Rows), first : Nat, error : BOOLEAN]
        <3>1. <<>> \in Seq(Rows)
            OBVIOUS
        <3>2. QED
            BY <2>1, <3>1 DEF NoJob
    <2>4. ReaderInStep'
        BY <1>1, <2>1, <2>2, <2>3 DEF ReaderInv, ReaderInStep, ReaderBusy
    <2>5. Reading => TilesInStep(rd', job', "wait", be.read.rows, NextRow)
        BY <1>3, <1>4, <1>5, <2>2, TilesFinish
    <2>6. QED
        BY <2>1, <2>4, <2>5
<1>11. QED
    BY <1>7, <1>8, <1>9, <1>10 DEF Reader

\* The inputs of Begin are sequences of tokens that are not empty.
LEMMA InputFacts ==
    /\ \A n \in Nat : \A s \in Sequences(n) : s \in Seq(Tokens) /\ Len(s) >= 1
    /\ \A t \in Tokens : <<t>> \in Seq(Tokens) /\ Len(<<t>>) = 1
<1>1. ASSUME NEW n \in Nat, NEW s \in Sequences(n) PROVE s \in Seq(Tokens) /\ Len(s) >= 1
    <2>1. PICK m \in 1..n : s \in [1..m -> Tokens]
        BY DEF Sequences
    <2>2. QED
        BY <2>1
<1>2. QED
    BY <1>1

\* Every step of the two threads, the executor and the client.
LEMMA ReaderInvStep ==
    ASSUME TilesFitChunks, ReaderInv, CudaNext
    PROVE  ReaderInv'
<1>1. CASE StageWorker
    BY <1>1, PrefetchStep, EnterStep, TileTopStep, TakeStep, TakeFinalStep, RunStep, DrainStep,
       RethrowStep, FinishResetStep DEF StageWorker
<1>2. CASE Executor
    <2>1. ContextLimit \in Nat /\ MaxWidth + 1 \in Nat
        BY CudaAssumption
    <2>2. ASSUME NEW s \in Sequences(ContextLimit), Begin("append", s) PROVE ReaderInv'
        BY <2>1, <2>2, InputFacts, BeginStep
    <2>3. ASSUME NEW t \in Tokens, Begin("decode", <<t>>) PROVE ReaderInv'
        <3>1. <<t>> \in Seq(Tokens) /\ Len(<<t>>) >= 1
            BY InputFacts
        <3>2. QED
            BY <2>3, <3>1, BeginStep
    <2>4. ASSUME NEW s \in Sequences(MaxWidth + 1), Begin("speculative", s) PROVE ReaderInv'
        BY <2>1, <2>4, InputFacts, BeginStep
    <2>5. QED
        BY <1>2, <2>2, <2>3, <2>4, NextChunkStep, CheckpointStep, CommitStep, RollbackStep,
           ResetStep DEF Executor
<1>3. QED
    BY <1>1, <1>2, ReaderStep, TripStep DEF CudaNext

\* The initial states.
LEMMA ReaderInvInit ==
    ASSUME CudaInit
    PROVE  ReaderInv
<1>1. /\ session = <<>> /\ txn = NoTxn /\ off = 0 /\ last = "ok" /\ pc = "idle" /\ tile = 0
      /\ be = FreshBe /\ rd = FreshReader /\ rpc = "wait" /\ job = NoJob
    BY DEF CudaInit
<1>2. pc \notin Executing /\ pc \notin Catching /\ pc # "takefinal" /\ pc # "run" /\ pc # "catch_extent"
    BY <1>1, Places
<1>3. /\ <<>> \in Seq(Tokens) /\ <<>> \in Seq(Pairs) /\ <<>> \in Seq(Rows) /\ FreshHash \in Pairs
      /\ <<>> \in Seq(TileRecords) /\ Len(<<>>) = 0
    BY CudaAssumption DEF FreshHash, Pairs
<1>4. NoRead \in ReadRecords /\ ~NoRead.on
    BY <1>3 DEF NoRead, ReadRecords
<1>5. /\ FreshBe \in BeRecords /\ FreshBe.prov = 0 /\ FreshBe.read = NoRead /\ FreshBe.hashes = <<>>
    BY <1>3, <1>4 DEF FreshBe, BeRecords
<1>6. NoTxn \in TxnRecords /\ NoTxn.kind = "none" /\ NoTxn.toks = <<>>
    BY <1>3 DEF NoTxn, TxnRecords
<1>7. /\ FreshReader \in ReaderRecords /\ FreshReader.tiles = <<>> /\ ~FreshReader.request
      /\ ~FreshReader.working /\ ~FreshReader.result /\ ~FreshReader.cancel
    BY <1>3 DEF FreshReader, ReaderRecords
<1>8. NoJob \in [rows : Seq(Rows), first : Nat, error : BOOLEAN]
    BY <1>3 DEF NoJob
<1>9. CallInStep
    BY <1>1, <1>2, <1>3, <1>5, <1>6 DEF CallInStep
<1>10. HashesInStep
    BY <1>1, <1>5 DEF HashesInStep
<1>11. ReaderInStep
    BY <1>1, <1>2, <1>4, <1>5, <1>7, <1>8 DEF ReaderInStep, ReaderBusy
<1>12. ReadInStep /\ ~Reading
    BY <1>1, <1>2, <1>4, <1>5 DEF ReadInStep, Reading, Live, Executing
<1>13. QED
    BY <1>9, <1>10, <1>11, <1>12 DEF ReaderInv

\* Where tiles fit chunks, the two threads of stage 0 stay in step with each
\* other: one read at a time, of the transaction at hand or left behind by an
\* older one, its tiles in order.
THEOREM ReaderInvariant ==
    ASSUME TilesFitChunks
    PROVE  CudaSpec => []ReaderInv
<1>1. ReaderInv /\ UNCHANGED cudaVars => ReaderInv'
    <2>1. SUFFICES ASSUME ReaderInv, UNCHANGED cudaVars PROVE ReaderInv'
        OBVIOUS
    <2>2. UNCHANGED <<session, txn, off, last, pc, tile, be, rd, rpc, job>>
        BY <2>1 DEF cudaVars, driverVars, readerVars
    <2>3. CallInStep' /\ HashesInStep' /\ ReadInStep' /\ Reading' = Reading /\ NextRow' = NextRow
        BY <2>1, <2>2, StageFrame
    <2>4. ReaderInStep'
        BY <2>1, <2>2 DEF ReaderInv, ReaderInStep, ReaderBusy
    <2>5. QED
        BY <2>1, <2>2, <2>3, <2>4, TilesFrame DEF ReaderInv
<1>2. QED
    BY <1>1, ReaderInvInit, ReaderInvStep, PTL DEF CudaSpec

\* Where tiles fit chunks, also with faults, every tile taken has the extent that
\* was read for it: PleAsyncReader::take never throws "PLE async tile extent
\* differs".
THEOREM TilesMeetChunks ==
    ASSUME TilesFitChunks
    PROVE  CudaSpec => []ReadAheadServesChunks
<1>1. ReaderInv => ReadAheadServesChunks
    BY DEF ReaderInv, ReaderInStep, ReadAheadServesChunks
<1>2. QED
    BY <1>1, ReaderInvariant, PTL

\* Where tiles fit chunks: whenever the backend believes that no read is under
\* way, the reader's thread has stopped and left nothing behind.
THEOREM ReaderIsQuiet ==
    ASSUME TilesFitChunks
    PROVE  CudaSpec => []ReaderQuiet
<1>1. ReaderInv => ReaderQuiet
    <2>1. SUFFICES ASSUME ReaderInv, ~be.read.on
                   PROVE  ~ReaderBusy /\ rd.tiles = <<>> /\ rpc = "wait" /\ ~rd.cancel
        BY DEF ReaderQuiet
    <2>2. ~ReaderBusy /\ rd.tiles = <<>> /\ ~rd.cancel
        BY <2>1 DEF ReaderInv, ReaderInStep
    <2>3. ~rd.working
        BY <2>2 DEF ReaderBusy
    <2>4. rpc = "wait"
        BY <2>1, <2>3 DEF ReaderInv, ReaderInStep
    <2>5. QED
        BY <2>2, <2>4
<1>2. QED
    BY <1>1, ReaderInvariant, PTL

(* The state banks.                                                        *)

\* The two copies of a bank.
LEMMA BankTypes ==
    ASSUME NEW S, NEW b \in Banks(S)
    PROVE  /\ b.at \in {0, 1} /\ 1 - b.at \in {0, 1} /\ 1 - b.at # b.at
           /\ DOMAIN b.copy = {0, 1} /\ b.copy \in [{0, 1} -> Seq(S)]
           /\ Working(b) = b.copy[1 - b.at] /\ CommittedCopy(b) = b.copy[b.at]
           /\ Working(b) \in Seq(S) /\ CommittedCopy(b) \in Seq(S)
           /\ b.ckpt \in Seq(S) /\ b.active \in BOOLEAN /\ b.epoch \in Nat
<1>1. /\ b.at \in {0, 1} /\ b.copy \in [{0, 1} -> Seq(S)] /\ b.ckpt \in Seq(S)
      /\ b.active \in BOOLEAN /\ b.epoch \in Nat
    BY DEF Banks
<1>2. 1 - b.at \in {0, 1} /\ 1 - b.at # b.at
    BY <1>1
<1>3. QED
    BY <1>1, <1>2 DEF Working, CommittedCopy

\* A new working copy leaves the committed one alone.
LEMMA BankWrite ==
    ASSUME NEW S, NEW b \in Banks(S), NEW w \in Seq(S)
    PROVE  LET c == [b EXCEPT !.copy[1 - b.at] = w] IN
           /\ c \in Banks(S) /\ Working(c) = w /\ CommittedCopy(c) = CommittedCopy(b)
           /\ c.at = b.at /\ c.active = b.active /\ c.epoch = b.epoch
           /\ c.ckpt = b.ckpt /\ c.valid = b.valid
<1> DEFINE f == [b.copy EXCEPT ![1 - b.at] = w]
           c == [b EXCEPT !.copy[1 - b.at] = w]
<1>1. f \in [{0, 1} -> Seq(S)] /\ f[1 - b.at] = w /\ f[b.at] = b.copy[b.at]
    BY BankTypes
<1>2. c = [b EXCEPT !.copy = f]
    OBVIOUS
<1> HIDE DEF f, c
<1>3. /\ c \in Banks(S) /\ c.copy = f
      /\ c.at = b.at /\ c.active = b.active /\ c.epoch = b.epoch
      /\ c.ckpt = b.ckpt /\ c.valid = b.valid
    BY <1>1, <1>2 DEF Banks
<1>4. QED
    BY <1>1, <1>3 DEF Working, CommittedCopy, c

\* A transaction begins.
LEMMA BankBeginFacts ==
    ASSUME NEW S, NEW b \in Banks(S), NEW e \in Nat
    PROVE  LET c == BankBegin(b, e) IN
           /\ c \in Banks(S) /\ Working(c) = CommittedCopy(b) /\ CommittedCopy(c) = CommittedCopy(b)
           /\ c.at = b.at /\ c.active /\ c.epoch = e
<1> DEFINE w == CommittedCopy(b)
           d == [b EXCEPT !.copy[1 - b.at] = w]
           c == [d EXCEPT !.active = TRUE, !.epoch = e, !.valid = FALSE, !.ckpt = <<>>]
<1>1. w \in Seq(S) /\ <<>> \in Seq(S)
    BY BankTypes
<1>2. BankBegin(b, e) = c
    BY DEF BankBegin
<1> HIDE DEF w
<1>3. /\ d \in Banks(S) /\ Working(d) = w /\ CommittedCopy(d) = CommittedCopy(b) /\ d.at = b.at
    BY <1>1, BankWrite, SMTT(40)
<1> HIDE DEF d
<1>4. /\ c \in Banks(S) /\ c.copy = d.copy /\ c.at = d.at /\ c.active /\ c.epoch = e
    BY <1>1, <1>3 DEF Banks
<1> HIDE DEF c
<1>5. QED
    BY <1>2, <1>3, <1>4 DEF Working, CommittedCopy, w

\* Kernels fold inputs into the working copy.
LEMMA BankFoldFacts ==
    ASSUME NEW S, NEW b \in Banks(S), NEW s \in Seq(S)
    PROVE  LET c == BankFold(b, s) IN
           /\ c \in Banks(S) /\ Working(c) = Working(b) \o s /\ CommittedCopy(c) = CommittedCopy(b)
           /\ c.at = b.at /\ c.active = b.active /\ c.epoch = b.epoch
           /\ c.ckpt = b.ckpt /\ c.valid = b.valid
<1> DEFINE w == Working(b) \o s
           c == [b EXCEPT !.copy[1 - b.at] = w]
<1>1. Working(b) \in Seq(S) /\ w \in Seq(S)
    BY BankTypes, ConcatProperties
<1>2. BankFold(b, s) = c
    BY BankTypes DEF BankFold
<1> HIDE DEF w
<1>3. /\ c \in Banks(S) /\ Working(c) = w /\ CommittedCopy(c) = CommittedCopy(b)
      /\ c.at = b.at /\ c.active = b.active /\ c.epoch = b.epoch
      /\ c.ckpt = b.ckpt /\ c.valid = b.valid
    BY <1>1, BankWrite, ZenonT(60)
<1> HIDE DEF c
<1>4. QED
    BY <1>2, <1>3 DEF w

\* The working copy is kept aside, and put back.
LEMMA BankCheckpointFacts ==
    ASSUME NEW S, NEW b \in Banks(S)
    PROVE  /\ BankCheckpoint(b) \in Banks(S)
           /\ Working(BankCheckpoint(b)) = Working(b)
           /\ CommittedCopy(BankCheckpoint(b)) = CommittedCopy(b)
           /\ BankCheckpoint(b).ckpt = Working(b) /\ BankCheckpoint(b).valid
           /\ BankCheckpoint(b).at = b.at
           /\ BankCheckpoint(b).active = b.active /\ BankCheckpoint(b).epoch = b.epoch
           /\ BankRestoreCheckpoint(b) \in Banks(S)
           /\ Working(BankRestoreCheckpoint(b)) = b.ckpt
           /\ CommittedCopy(BankRestoreCheckpoint(b)) = CommittedCopy(b)
           /\ BankRestoreCheckpoint(b).at = b.at
<1> DEFINE w == Working(b)  c == [b EXCEPT !.ckpt = w, !.valid = TRUE]
<1>1. w \in Seq(S) /\ b.ckpt \in Seq(S)
    BY BankTypes
<1>2. BankCheckpoint(b) = c
    BY DEF BankCheckpoint
<1> HIDE DEF w
<1>3. /\ c \in Banks(S) /\ c.copy = b.copy /\ c.at = b.at /\ c.ckpt = w /\ c.valid
      /\ c.active = b.active /\ c.epoch = b.epoch
    BY <1>1 DEF Banks
<1> HIDE DEF c
<1>4. Working(c) = Working(b) /\ CommittedCopy(c) = CommittedCopy(b)
    BY <1>3 DEF Working, CommittedCopy
<1>5. /\ BankRestoreCheckpoint(b) \in Banks(S)
      /\ Working(BankRestoreCheckpoint(b)) = b.ckpt
      /\ CommittedCopy(BankRestoreCheckpoint(b)) = CommittedCopy(b)
      /\ BankRestoreCheckpoint(b).at = b.at
    <2> DEFINE x == b.ckpt  r == [b EXCEPT !.copy[1 - b.at] = x]
    <2>1. BankRestoreCheckpoint(b) = r
        BY DEF BankRestoreCheckpoint
    <2>2. x \in Seq(S)
        BY <1>1
    <2> HIDE DEF x
    <2>3. r \in Banks(S) /\ Working(r) = x /\ CommittedCopy(r) = CommittedCopy(b) /\ r.at = b.at
        BY <2>2, BankWrite
    <2> HIDE DEF r
    <2>4. QED
        BY <2>1, <2>3 DEF x
<1>6. QED
    BY <1>2, <1>3, <1>4, <1>5 DEF w

\* The banks flip, or do not.
LEMMA BankEndFacts ==
    ASSUME NEW S, NEW b \in Banks(S)
    PROVE  /\ BankCommit(b) \in Banks(S) /\ CommittedCopy(BankCommit(b)) = Working(b)
           /\ ~BankCommit(b).active /\ BankCommit(b).at = 1 - b.at
           /\ BankRollback(b) \in Banks(S) /\ CommittedCopy(BankRollback(b)) = CommittedCopy(b)
           /\ ~BankRollback(b).active /\ BankRollback(b).at = b.at
<1>1. b.at \in {0, 1} /\ 1 - b.at \in {0, 1} /\ <<>> \in Seq(S)
    BY BankTypes
<1> DEFINE c == BankCommit(b)  d == BankRollback(b)
<1>2. c \in Banks(S) /\ c.copy = b.copy /\ c.at = 1 - b.at /\ ~c.active
    BY <1>1 DEF BankCommit, Banks
<1>3. d \in Banks(S) /\ d.copy = b.copy /\ d.at = b.at /\ ~d.active
    BY <1>1 DEF BankRollback, Banks
<1> HIDE DEF c, d
<1>4. CommittedCopy(c) = Working(b) /\ CommittedCopy(d) = CommittedCopy(b)
    BY <1>2, <1>3 DEF CommittedCopy, Working
<1>5. QED
    BY <1>2, <1>3, <1>4 DEF c, d

-----------------------------------------------------------------------------
(* Hash states and rows.                                                   *)

\* The hash state after the first n tokens of a session.
LEMMA HashOfPrefix ==
    ASSUME NEW u \in Seq(Tokens), NEW n \in 0..Len(u)
    PROVE  /\ SubSeq(u, 1, n) \in Seq(Tokens) /\ Len(SubSeq(u, 1, n)) = n
           /\ HashOf(SubSeq(u, 1, n)) \in Pairs
           /\ n = 0 => HashOf(SubSeq(u, 1, n)) = FreshHash
           /\ n = 1 => HashOf(SubSeq(u, 1, n)) = <<Eos, u[1]>>
           /\ n > 1 => HashOf(SubSeq(u, 1, n)) = <<u[n - 1], u[n]>>
<1> DEFINE p == SubSeq(u, 1, n)
<1>1. /\ p \in Seq(Tokens) /\ Len(p) = n /\ \A i \in 1..n : p[i] = u[i]
    <2>1. \A i \in 1..n : u[i] \in Tokens
        OBVIOUS
    <2>2. QED
        BY <2>1, SubSeqProperties
<1>2. FreshHash \in Pairs /\ FreshHash[2] = Eos
    BY CudaAssumption DEF FreshHash, Pairs
<1> HIDE DEF p
<1>3. CASE n = 0
    <2>1. p = <<>>
        BY <1>1, <1>3, EmptySeq
    <2>2. HashOf(p) = FreshHash
        BY <2>1 DEF HashOf
    <2>3. QED
        BY <1>1, <1>2, <1>3, <2>2 DEF p
<1>4. CASE n # 0
    <2>1. p # <<>> /\ n \in 1..Len(p)
        BY <1>1, <1>4, EmptySeq
    <2>2. HashOf(p) = HashesAfter(FreshHash, p)[n]
        BY <1>1, <2>1 DEF HashOf
    <2>3. HashesAfter(FreshHash, p)[n] = <<IF n = 1 THEN Eos ELSE p[n - 1], p[n]>>
        BY <1>2, <2>1 DEF HashesAfter
    <2>4. HashesAfter(FreshHash, p)[n] \in Pairs
        BY <1>1, <1>2, <2>1, HashTypes
    <2>5. n = 1 => HashOf(p) = <<Eos, u[1]>>
        BY <1>1, <2>1, <2>2, <2>3
    <2>6. n > 1 => HashOf(p) = <<u[n - 1], u[n]>>
        BY <1>1, <2>1, <2>2, <2>3
    <2>7. QED
        BY <1>1, <1>4, <2>2, <2>4, <2>5, <2>6 DEF p
<1>5. QED
    BY <1>3, <1>4

\* The row of a token, from the tokens before it.
LEMMA RowAt ==
    ASSUME NEW u \in Seq(Tokens), NEW n \in 1..Len(u)
    PROVE  HashRows(FreshHash, u)[n] = HashRow(HashOf(SubSeq(u, 1, n - 1)), u[n])
<1>1. HashRows(FreshHash, u)[n] =
        HashRow(IF n = 1 THEN FreshHash ELSE HashesAfter(FreshHash, u)[n - 1], u[n])
    BY DEF HashRows
<1>2. CASE n = 1
    BY <1>1, <1>2, HashOfPrefix
<1>3. CASE n # 1
    <2>1. n - 1 \in 1..Len(u) /\ n - 1 \in 0..Len(u)
        BY <1>3
    <2>2. HashesAfter(FreshHash, u)[n - 1] = <<IF n - 1 = 1 THEN FreshHash[2] ELSE u[(n - 1) - 1], u[n - 1]>>
        BY <2>1 DEF HashesAfter
    <2>3. FreshHash[2] = Eos
        BY DEF FreshHash
    <2>4. HashesAfter(FreshHash, u)[n - 1] = HashOf(SubSeq(u, 1, n - 1))
        <3>1. CASE n - 1 = 1
            BY <2>1, <2>2, <2>3, <3>1, HashOfPrefix
        <3>2. CASE n - 1 > 1
            BY <2>1, <2>2, <3>2, HashOfPrefix
        <3>3. QED
            BY <1>3, <3>1, <3>2
    <2>5. QED
        BY <1>1, <1>3, <2>4
<1>4. QED
    BY <1>2, <1>3

\* The hash states and the rows of the tokens u[a + 1], ..., from the state after
\* u[a] on: the program's way of hashing chunk by chunk.
LEMMA ChunkHashes ==
    ASSUME NEW u \in Seq(Tokens), NEW a \in 0..Len(u), NEW t \in Seq(Tokens),
           a + Len(t) <= Len(u), \A i \in 1..Len(t) : t[i] = u[a + i]
    PROVE  LET h == HashOf(SubSeq(u, 1, a)) IN
           /\ \A i \in 1..Len(t) : HashesAfter(h, t)[i] = HashOf(SubSeq(u, 1, a + i))
           /\ \A i \in 1..Len(t) : HashRows(h, t)[i] = HashRows(FreshHash, u)[a + i]
           /\ HashRows(h, t) = SubSeq(HashRows(FreshHash, u), a + 1, a + Len(t))
<1> DEFINE h == HashOf(SubSeq(u, 1, a))
<1>0. Len(u) \in Nat /\ Len(t) \in Nat /\ a \in Nat
    OBVIOUS
<1>1. h \in Pairs /\ FreshHash \in Pairs
    BY HashOfPrefix, CudaAssumption DEF FreshHash, Pairs
<1>2. h[2] = IF a = 0 THEN Eos ELSE u[a]
    <2>1. CASE a = 0
        BY <2>1, HashOfPrefix DEF FreshHash
    <2>2. CASE a = 1
        BY <2>2, HashOfPrefix
    <2>3. CASE a > 1
        BY <2>3, HashOfPrefix
    <2>4. QED
        BY <1>0, <2>1, <2>2, <2>3
<1> HIDE DEF h
<1>3. ASSUME NEW i \in 1..Len(t) PROVE HashesAfter(h, t)[i] = HashOf(SubSeq(u, 1, a + i))
    <2>1. HashesAfter(h, t)[i] = <<IF i = 1 THEN h[2] ELSE t[i - 1], t[i]>>
        BY DEF HashesAfter
    <2>2. a + i \in 0..Len(u) /\ t[i] = u[a + i]
        BY <1>0
    <2>3. CASE i = 1 /\ a = 0
        <3>1. HashOf(SubSeq(u, 1, a + i)) = <<Eos, u[1]>>
            BY <2>2, <2>3, HashOfPrefix
        <3>2. QED
            BY <1>2, <2>1, <2>2, <2>3, <3>1
    <2>4. CASE i = 1 /\ a > 0
        <3>1. a + i > 1 /\ (a + i) - 1 = a
            BY <2>4
        <3>2. HashOf(SubSeq(u, 1, a + i)) = <<u[a], u[a + i]>>
            BY <2>2, <3>1, HashOfPrefix
        <3>3. QED
            BY <1>2, <2>1, <2>2, <2>4, <3>2
    <2>5. CASE i # 1
        <3>1. i - 1 \in 1..Len(t) /\ (a + i) - 1 = a + (i - 1) /\ a + i > 1
            BY <1>0, <2>5
        <3>2. t[i - 1] = u[(a + i) - 1]
            BY <3>1
        <3>3. HashOf(SubSeq(u, 1, a + i)) = <<u[(a + i) - 1], u[a + i]>>
            BY <2>2, <3>1, HashOfPrefix
        <3>4. QED
            BY <2>1, <2>2, <2>5, <3>2, <3>3
    <2>6. QED
        BY <1>0, <2>3, <2>4, <2>5
<1>4. ASSUME NEW i \in 1..Len(t) PROVE HashRows(h, t)[i] = HashRows(FreshHash, u)[a + i]
    <2>1. a + i \in 1..Len(u) /\ t[i] = u[a + i]
        BY <1>0
    <2>2. HashRows(FreshHash, u)[a + i] = HashRow(HashOf(SubSeq(u, 1, (a + i) - 1)), u[a + i])
        BY <2>1, RowAt
    <2>3. HashRows(h, t)[i] = HashRow(IF i = 1 THEN h ELSE HashesAfter(h, t)[i - 1], t[i])
        BY DEF HashRows
    <2>4. CASE i = 1
        <3>1. (a + i) - 1 = a
            BY <1>0, <2>4
        <3>2. QED
            BY <2>1, <2>2, <2>3, <2>4, <3>1 DEF h
    <2>5. CASE i # 1
        <3>1. i - 1 \in 1..Len(t) /\ a + (i - 1) = (a + i) - 1
            BY <1>0, <2>5
        <3>2. HashesAfter(h, t)[i - 1] = HashOf(SubSeq(u, 1, (a + i) - 1))
            BY <1>3, <3>1
        <3>3. QED
            BY <2>1, <2>2, <2>3, <2>5, <3>2
    <2>6. QED
        BY <2>4, <2>5
<1>5. HashRows(h, t) = SubSeq(HashRows(FreshHash, u), a + 1, a + Len(t))
    <2> DEFINE r == HashRows(FreshHash, u)  v == SubSeq(r, a + 1, a + Len(t))
    <2>1. /\ r \in Seq(Rows) /\ Len(r) = Len(u)
          /\ HashRows(h, t) \in Seq(Rows) /\ Len(HashRows(h, t)) = Len(t)
        BY <1>1, HashTypes
    <2> HIDE DEF r
    <2>2. \A i \in a + 1..a + Len(t) : r[i] \in Rows
        BY <1>0, <2>1
    <2>3. /\ v \in Seq(Rows) /\ Len(v) = Len(t)
          /\ \A i \in 1..Len(t) : v[i] = r[a + i]
        <3>1. /\ v \in Seq(Rows) /\ Len(v) = IF a + 1 <= a + Len(t) THEN a + Len(t) - (a + 1) + 1 ELSE 0
              /\ \A i \in 1..a + Len(t) - (a + 1) + 1 : v[i] = r[a + 1 + i - 1]
            BY <1>0, <2>2, SubSeqProperties
        <3>2. Len(v) = Len(t)
            BY <1>0, <3>1
        <3>3. ASSUME NEW i \in 1..Len(t) PROVE v[i] = r[a + i]
            <4>1. i \in 1..a + Len(t) - (a + 1) + 1 /\ a + 1 + i - 1 = a + i
                BY <1>0
            <4>2. QED
                BY <3>1, <4>1
        <3>4. QED
            BY <3>1, <3>2, <3>3
    <2> HIDE DEF v
    <2>4. HashRows(h, t) = v
        BY <1>4, <2>1, <2>3, SeqEqual DEF r
    <2>5. QED
        BY <2>4 DEF v, r
<1>6. QED
    BY <1>3, <1>4, <1>5 DEF h

\* The rows of a prefix are a prefix of the rows.
LEMMA PrefixRows ==
    ASSUME NEW u \in Seq(Tokens), NEW n \in 0..Len(u)
    PROVE  HashRows(FreshHash, SubSeq(u, 1, n)) = SubSeq(HashRows(FreshHash, u), 1, n)
<1> DEFINE t == SubSeq(u, 1, n)
<1>1. t \in Seq(Tokens) /\ Len(t) = n /\ \A i \in 1..Len(t) : t[i] = u[0 + i]
    <2>1. \A i \in 1..n : u[i] \in Tokens
        OBVIOUS
    <2>2. QED
        BY <2>1, SubSeqProperties
<1> HIDE DEF t
<1>2. 0 \in 0..Len(u) /\ 0 + Len(t) <= Len(u)
    BY <1>1
<1>3. HashRows(HashOf(SubSeq(u, 1, 0)), t) = SubSeq(HashRows(FreshHash, u), 0 + 1, 0 + Len(t))
    BY <1>1, <1>2, ChunkHashes
<1>4. HashOf(SubSeq(u, 1, 0)) = FreshHash
    BY <1>2, HashOfPrefix
<1>5. 0 + 1 = 1 /\ 0 + Len(t) = n
    BY <1>1
<1>6. QED
    BY <1>3, <1>4, <1>5 DEF t

(* What the banks and the read hold.                                       *)

\* A part of a part of a sequence.
LEMMA PartOfPart ==
    ASSUME NEW S, NEW r \in Seq(S), NEW a \in Nat, NEW v, NEW n \in Nat, a + n <= Len(r),
           v = SubSeq(r, a + 1, a + n),
           NEW m \in Nat, NEW k \in Nat, m + k <= n
    PROVE  /\ v \in Seq(S) /\ Len(v) = n /\ \A i \in 1..n : v[i] = r[a + i]
           /\ SubSeq(v, m + 1, m + k) = SubSeq(r, a + m + 1, a + m + k)
           /\ SubSeq(v, m + 1, m + k) \in Seq(S)
<1>0. Len(r) \in Nat
    OBVIOUS
<1>1. ASSUME NEW u \in Seq(S), NEW b \in Nat, NEW l \in Nat, b + l <= Len(u)
      PROVE  /\ SubSeq(u, b + 1, b + l) \in Seq(S) /\ Len(SubSeq(u, b + 1, b + l)) = l
             /\ \A i \in 1..l : SubSeq(u, b + 1, b + l)[i] = u[b + i]
    <2> DEFINE w == SubSeq(u, b + 1, b + l)
    <2>1. \A i \in b + 1..b + l : u[i] \in S
        BY <1>1
    <2>2. /\ w \in Seq(S) /\ Len(w) = IF b + 1 <= b + l THEN (b + l) - (b + 1) + 1 ELSE 0
          /\ \A i \in 1..(b + l) - (b + 1) + 1 : w[i] = u[(b + 1) + i - 1]
        BY <1>1, <2>1, SubSeqProperties
    <2>3. Len(w) = l
        BY <1>1, <2>2
    <2>4. ASSUME NEW i \in 1..l PROVE w[i] = u[b + i]
        <3>1. i \in 1..(b + l) - (b + 1) + 1 /\ (b + 1) + i - 1 = b + i
            BY <1>1
        <3>2. QED
            BY <2>2, <3>1
    <2>5. QED
        BY <2>2, <2>3, <2>4
<1>2. v \in Seq(S) /\ Len(v) = n /\ \A i \in 1..n : v[i] = r[a + i]
    BY <1>1
<1> DEFINE x == SubSeq(v, m + 1, m + k)  y == SubSeq(r, (a + m) + 1, (a + m) + k)
<1>3. x \in Seq(S) /\ Len(x) = k /\ \A i \in 1..k : x[i] = v[m + i]
    BY <1>1, <1>2
<1>4. y \in Seq(S) /\ Len(y) = k /\ \A i \in 1..k : y[i] = r[(a + m) + i]
    <2>1. a + m \in Nat /\ (a + m) + k <= Len(r)
        BY <1>0
    <2>2. QED
        BY <1>1, <2>1
<1> HIDE DEF x, y
<1>5. ASSUME NEW i \in 1..k PROVE x[i] = y[i]
    <2>1. m + i \in 1..n /\ a + (m + i) = (a + m) + i
        OBVIOUS
    <2>2. QED
        BY <1>2, <1>3, <1>4, <2>1
<1>6. x = y
    BY <1>3, <1>4, <1>5, SeqEqual
<1>7. QED
    BY <1>2, <1>3, <1>6 DEF x, y

\* A prefix and the part that follows it.
LEMMA PrefixGrows ==
    ASSUME NEW S, NEW r \in Seq(S), NEW a \in Nat, NEW n \in Nat, a + n <= Len(r)
    PROVE  SubSeq(r, 1, a) \o SubSeq(r, a + 1, a + n) = SubSeq(r, 1, a + n)
<1>1. 1 \in 1..Len(r) + 1 /\ a \in 1 - 1..Len(r) /\ a + n \in a..Len(r)
    OBVIOUS
<1>2. QED
    BY <1>1, ConcatAdjacentSubSeq

\* The session and the transaction, one after the other.
LEMMA GivenFacts ==
    ASSUME ReaderInv
    PROVE  /\ session \in Seq(Tokens) /\ Len(session) \in Nat
           /\ TokensGiven \in Seq(Tokens) /\ Len(TokensGiven) = Len(session) + Len(txn.toks)
           /\ \A i \in 1..Len(txn.toks) : TokensGiven[Len(session) + i] = txn.toks[i]
           /\ SubSeq(TokensGiven, 1, Len(session)) = session
           /\ RowsGiven \in Seq(Rows) /\ Len(RowsGiven) = Len(TokensGiven)
           /\ FreshHash \in Pairs
<1>1. session \in Seq(Tokens) /\ Len(session) \in Nat /\ txn.toks \in Seq(Tokens) /\ Len(txn.toks) \in Nat
    BY Typing DEF ReaderInv, CallInStep
<1>2. /\ TokensGiven \in Seq(Tokens) /\ Len(TokensGiven) = Len(session) + Len(txn.toks)
      /\ \A i \in 1..Len(session) + Len(txn.toks) :
            TokensGiven[i] = IF i <= Len(session) THEN session[i] ELSE txn.toks[i - Len(session)]
    BY <1>1, ConcatProperties DEF TokensGiven
<1>3. ASSUME NEW i \in 1..Len(txn.toks) PROVE TokensGiven[Len(session) + i] = txn.toks[i]
    <2>1. /\ Len(session) + i \in 1..Len(session) + Len(txn.toks)
          /\ ~(Len(session) + i <= Len(session)) /\ (Len(session) + i) - Len(session) = i
        BY <1>1
    <2>2. QED
        BY <1>2, <2>1
<1>4. SubSeq(TokensGiven, 1, Len(session)) = session
    <2> DEFINE v == SubSeq(TokensGiven, 0 + 1, 0 + Len(session))
    <2>1. /\ v \in Seq(Tokens) /\ Len(v) = Len(session)
          /\ \A i \in 1..Len(session) : v[i] = TokensGiven[0 + i]
        BY <1>1, <1>2, PartOfPart
    <2>2. v = SubSeq(TokensGiven, 1, Len(session))
        BY <1>1
    <2> HIDE DEF v
    <2>3. \A i \in 1..Len(session) : v[i] = session[i]
        BY <1>1, <1>2, <2>1
    <2>4. v = session
        BY <1>1, <2>1, <2>3, SeqEqual
    <2>5. QED
        BY <2>2, <2>4
<1>5. FreshHash \in Pairs
    BY CudaAssumption DEF FreshHash, Pairs
<1>6. RowsGiven \in Seq(Rows) /\ Len(RowsGiven) = Len(TokensGiven)
    BY <1>2, <1>5, HashTypes DEF RowsGiven
<1>7. QED
    BY <1>1, <1>2, <1>3, <1>4, <1>5, <1>6

\* How far the kernels have come.
LEMMA DoneFacts ==
    ASSUME TilesFitChunks, ReaderInv
    PROVE  /\ Done \in Nat /\ Done <= Len(TokensGiven)
           /\ pc \in Executing => Done = Len(session) + off + tile
           /\ pc \notin Executing => Done = Len(session) + off
           /\ pc \in Executing => Done + TileLen <= Len(TokensGiven) /\ TileLen \in Nat
<1>1. /\ pc \in Executing => tile < ChunkLen /\ TileLen \in Nat /\ tile + TileLen <= ChunkLen
    BY TileFacts DEF ReaderInv, CallInStep
<1>2. /\ off \in Nat /\ off <= Len(txn.toks) /\ tile \in Nat /\ ChunkLen \in Nat
      /\ off + ChunkLen <= Len(txn.toks) /\ Len(txn.toks) \in Nat
    BY Typing
<1>3. Len(session) \in Nat /\ Len(TokensGiven) = Len(session) + Len(txn.toks)
    BY GivenFacts
<1>4. CASE pc \in Executing
    <2>1. Done = Len(session) + off + tile
        BY <1>4 DEF Done
    <2>2. QED
        BY <1>1, <1>2, <1>3, <1>4, <2>1
<1>5. CASE pc \notin Executing
    <2>1. Done = Len(session) + off + 0
        BY <1>5 DEF Done
    <2>2. Done = Len(session) + off
        BY <1>2, <1>3, <2>1
    <2>3. QED
        BY <1>2, <1>3, <1>5, <2>2
<1>6. QED
    BY <1>4, <1>5

\* What a step that neither opens nor closes the transaction leaves as it is.
LEMMA BanksFrame ==
    ASSUME BanksInStep, UNCHANGED <<session, txn, gdn, ple>>,
           be'.prov = be.prov,
           Good' /\ be.prov # 0 => /\ Good /\ Done' = Done /\ off' = off
                                   /\ be'.processed = be.processed /\ be'.ckpt = be.ckpt
    PROVE  BanksInStep'
<1>1. UNCHANGED <<TokensGiven, RowsGiven>>
    BY DEF TokensGiven, RowsGiven
<1>2. QED
    BY <1>1 DEF BanksInStep

\* A step that changes no hash, no read and no staged row.
LEMMA HashesFrame ==
    ASSUME HashesAreOwn, UNCHANGED <<session, txn>>,
           be'.prov = be.prov, be'.hash = be.hash,
           Good' /\ be.prov # 0 => Good /\ be'.hashes = be.hashes,
           Reading' => Reading /\ be'.read = be.read,
           pc' \in {"takefinal", "run"} =>
                pc \in {"takefinal", "run"} /\ staged' = staged /\ Done' = Done /\ TileLen' = TileLen
    PROVE  HashesAreOwn'
<1>1. UNCHANGED <<TokensGiven, RowsGiven>>
    BY DEF TokensGiven, RowsGiven
<1>2. QED
    BY <1>1 DEF HashesAreOwn

\* The steps that touch neither a bank nor a hash: a token is tripped, a call
\* is made, the reader moves, an exception is drained and rethrown.
LEMMA QuietRows ==
    ASSUME RowsInv, ReaderInv',
           \/ Trip \/ NextChunk \/ TileTop \/ Reset \/ Drain \/ Rethrow \/ Reader \/ TakeFinal
           \/ UNCHANGED cudaVars
    PROVE  RowsInv'
<1>0. BanksInStep /\ HashesAreOwn /\ ReaderInv
    BY DEF RowsInv
<1>1. UNCHANGED <<session, txn, off, gdn, ple, tile, staged>>
    BY DEF Trip, NextChunk, TileTop, Reset, Drain, Rethrow, Reader, ReaderPick, ReaderRoom,
           ReaderRead, ReaderFinish, TakeFinal, driverVars, bankVars, cudaVars
<1>2. CASE UNCHANGED <<be, pc, last>>
    <2>1. UNCHANGED <<Good, Done, Reading, ChunkLen>>
        BY <1>1, <1>2 DEF Good, Done, Reading, Live, ChunkLen
    <2>2. UNCHANGED TileLen
        BY <1>1, <2>1 DEF TileLen
    <2>3. BanksInStep' /\ HashesAreOwn'
        BY <1>0, <1>1, <1>2, <2>1, <2>2, BanksFrame, HashesFrame
    <2>4. QED
        BY <2>3 DEF RowsInv
<1>3. CASE be' = be /\ ~Good' /\ ~Reading' /\ pc' \notin Executing
    <2>1. pc' \notin {"takefinal", "run"}
        BY <1>3 DEF Executing
    <2>2. BanksInStep' /\ HashesAreOwn'
        BY <1>0, <1>1, <1>3, <2>1, BanksFrame, HashesFrame
    <2>3. QED
        BY <2>2 DEF RowsInv
<1>4. CASE NextChunk
    <2>1. pc = "idle" /\ pc' = "enter" /\ last' = last /\ be' = be
        BY <1>4 DEF NextChunk, driverVars, MayGoOn
    <2>2. /\ pc \notin Executing /\ pc' \notin Executing /\ pc \notin Catching /\ pc' \notin Catching
          /\ pc' \notin {"takefinal", "run"}
        BY <2>1, Places
    <2>3. UNCHANGED <<Good, Done, Reading>>
        BY <1>1, <2>1, <2>2 DEF Good, Done, Reading, Live
    <2>4. BanksInStep' /\ HashesAreOwn'
        BY <1>0, <1>1, <2>1, <2>2, <2>3, BanksFrame, HashesFrame
    <2>5. QED
        BY <2>4 DEF RowsInv
<1>5. CASE TileTop
    <2>1. pc = "tile" /\ pc' \in {"take", "catch_cancelled"} /\ last' = last /\ be' = be
        BY <1>5 DEF TileTop, Catch
    <2>2. pc \in Executing /\ pc \notin Catching /\ pc' \notin {"takefinal", "run"}
        BY <2>1, Places
    <2>3. CASE pc' = "take"
        <3>1. pc' \in Executing /\ pc' \notin Catching
            BY <2>3, Places
        <3>2. UNCHANGED <<Good, Done, Reading>>
            BY <1>1, <2>1, <2>2, <3>1 DEF Good, Done, Reading, Live
        <3>3. BanksInStep' /\ HashesAreOwn'
            BY <1>0, <1>1, <2>1, <2>2, <3>2, BanksFrame, HashesFrame
        <3>4. QED
            BY <3>3 DEF RowsInv
    <2>4. CASE pc' = "catch_cancelled"
        <3>1. pc' \in Catching /\ pc' \notin Executing
            BY <2>4, Places
        <3>2. QED
            BY <1>3, <2>1, <3>1 DEF Good, Reading
    <2>5. QED
        BY <2>1, <2>3, <2>4
<1>6. CASE Reset
    <2>1. pc' = "reset" /\ be' = be
        BY <1>6 DEF Reset
    <2>2. pc' \in Catching /\ pc' \notin Executing
        BY <2>1, Places
    <2>3. QED
        BY <1>3, <2>1, <2>2 DEF Good, Reading
<1>7. CASE Rethrow \/ TakeFinal
    <2>1. /\ be' = ReadOver
          /\ \/ pc' = "idle" /\ last' # "ok"
             \/ pc = "takefinal" /\ pc' \in {"catch_read", "run"} /\ last' = last
        BY <1>7 DEF Rethrow, TakeFinal, ReturnCancelled, ReturnFailed, Catch
    <2>2. be'.read = NoRead /\ SameButRead(be', be) /\ ~NoRead.on
        BY <1>0, <2>1, OverFacts DEF ReaderInv, CallInStep
    <2>3. ~Reading'
        BY <2>2 DEF Reading, Live
    <2>4. /\ be'.prov = be.prov /\ be'.hash = be.hash /\ be'.hashes = be.hashes
          /\ be'.processed = be.processed /\ be'.ckpt = be.ckpt
        BY <2>2 DEF SameButRead
    <2>5. CASE pc' # "run"
        <3>1. ~Good'
            BY <2>1, <2>5, Places DEF Good
        <3>2. pc' \notin {"takefinal", "run"}
            BY <2>1, <2>5
        <3>3. BanksInStep' /\ HashesAreOwn'
            BY <1>0, <1>1, <2>3, <2>4, <3>1, <3>2, BanksFrame, HashesFrame
        <3>4. QED
            BY <3>3 DEF RowsInv
    <2>6. CASE pc' = "run"
        <3>1. pc = "takefinal" /\ last' = last
            BY <2>1, <2>6
        <3>2. pc \in Executing /\ pc' \in Executing /\ pc \notin Catching /\ pc' \notin Catching
            BY <2>6, <3>1, Places
        <3>3. UNCHANGED <<Good, Done, ChunkLen>>
            BY <1>1, <3>1, <3>2 DEF Good, Done, ChunkLen
        <3>4. UNCHANGED TileLen
            BY <1>1, <3>3 DEF TileLen
        <3>5. BanksInStep' /\ HashesAreOwn'
            BY <1>0, <1>1, <2>3, <2>4, <3>1, <3>3, <3>4, BanksFrame, HashesFrame
        <3>6. QED
            BY <3>5 DEF RowsInv
    <2>7. QED
        BY <2>5, <2>6
<1>8. CASE Trip \/ Drain \/ Reader \/ UNCHANGED cudaVars
    <2>1. UNCHANGED <<be, pc, last>>
        BY <1>8 DEF Trip, Drain, Reader, ReaderPick, ReaderRoom, ReaderRead, ReaderFinish,
                    driverVars, cudaVars
    <2>2. QED
        BY <1>2, <2>1
<1>9. QED
    BY <1>4, <1>5, <1>6, <1>7, <1>8

\* A transaction begins.
LEMMA BeginRows ==
    ASSUME RowsInv, ReaderInv', NEW kind, NEW toks, Begin(kind, toks)
    PROVE  RowsInv'
<1>0. BanksInStep /\ HashesAreOwn /\ ReaderInv
    BY DEF RowsInv
<1>1. /\ pc = "idle" /\ txn = NoTxn /\ pc' \in {"prefetch", "enter"} /\ UNCHANGED <<session, be, gdn, ple>>
      /\ txn'.epoch = be.epoch + 1
    BY DEF Begin, bankVars
<1>2. be.prov = 0 /\ be'.prov = 0
    BY <1>0, <1>1 DEF ReaderInv, CallInStep
<1>3. BanksInStep'
    BY <1>0, <1>1, <1>2 DEF BanksInStep
<1>4. ~Reading'
    <2>1. be.read.on => be.read.epoch <= be.epoch
        BY <1>0, <1>1, Typing DEF ReaderInv, ReadInStep
    <2>2. QED
        BY <1>0, <1>1, <2>1, Typing DEF Reading, Live
<1>5. pc' \notin {"takefinal", "run"}
    BY <1>1
<1>6. HashesAreOwn'
    BY <1>0, <1>1, <1>2, <1>4, <1>5 DEF HashesAreOwn
<1>7. QED
    BY <1>3, <1>6 DEF RowsInv

\* A prefix is checkpointed.
LEMMA CheckpointRows ==
    ASSUME TilesFitChunks, RowsInv, ReaderInv', Checkpoint
    PROVE  RowsInv'
<1>0. BanksInStep /\ HashesAreOwn /\ ReaderInv
    BY DEF RowsInv
<1>1. /\ pc = "idle" /\ be' = [be EXCEPT !.ckpt = off] /\ gdn' = BankCheckpoint(gdn)
      /\ ple' = BankCheckpoint(ple) /\ off \in 1..Len(txn.toks) - 1
      /\ UNCHANGED <<session, txn, off, last, pc, tile, staged>>
    BY DEF Checkpoint, MayGoOn, driverVars
<1>2. /\ be'.prov = be.prov /\ be'.hash = be.hash /\ be'.hashes = be.hashes /\ be'.read = be.read
      /\ be'.processed = be.processed /\ be'.ckpt = off
    BY <1>0, <1>1 DEF ReaderInv, CallInStep, BeRecords
<1>3. pc \notin Executing /\ pc' \notin {"takefinal", "run"}
    BY <1>1, Places
<1>4. UNCHANGED <<Good, Done, Reading, TokensGiven, RowsGiven>>
    BY <1>1, <1>2 DEF Good, Done, Reading, Live, TokensGiven, RowsGiven
<1>5. Done = Len(session) + off
    BY <1>0, <1>3, DoneFacts
<1>6. /\ gdn' \in Banks(Tokens) /\ Working(gdn') = Working(gdn) /\ CommittedCopy(gdn') = CommittedCopy(gdn)
      /\ gdn'.ckpt = Working(gdn)
      /\ ple' \in Banks(Rows) /\ Working(ple') = Working(ple) /\ CommittedCopy(ple') = CommittedCopy(ple)
      /\ ple'.ckpt = Working(ple)
    BY <1>0, <1>1, BankCheckpointFacts DEF BanksInStep
<1>7. BanksInStep'
    <2>1. ASSUME Good', be'.prov # 0
          PROVE  /\ Working(gdn') = SubSeq(TokensGiven', 1, Done')
                 /\ Working(ple') = SubSeq(RowsGiven', 1, Done')
                 /\ be'.processed = off' /\ be'.ckpt \in 0..off'
                 /\ gdn'.ckpt = SubSeq(TokensGiven', 1, Len(session') + be'.ckpt)
                 /\ ple'.ckpt = SubSeq(RowsGiven', 1, Len(session') + be'.ckpt)
        <3>1. Good /\ be.prov # 0
            BY <1>2, <1>4, <2>1
        <3>2. /\ Working(gdn) = SubSeq(TokensGiven, 1, Done)
              /\ Working(ple) = SubSeq(RowsGiven, 1, Done)
              /\ be.processed = off
            BY <1>0, <3>1 DEF BanksInStep
        <3>3. off \in 0..off
            BY <1>1
        <3>4. QED
            BY <1>1, <1>2, <1>4, <1>5, <1>6, <3>2, <3>3
    <2>2. CommittedCopy(gdn') = session' /\ CommittedCopy(ple') = HashRows(FreshHash, session')
        BY <1>0, <1>1, <1>6 DEF BanksInStep
    <2>3. QED
        BY <1>6, <2>1, <2>2 DEF BanksInStep
<1>8. HashesAreOwn'
    BY <1>0, <1>1, <1>2, <1>3, <1>4, HashesFrame
<1>9. QED
    BY <1>7, <1>8 DEF RowsInv

\* The rows of the whole append are asked for.
LEMMA PrefetchRows ==
    ASSUME RowsInv, ReaderInv', Prefetch
    PROVE  RowsInv'
<1> DEFINE rows == HashRows(be.hash, txn.toks)
           new == [on |-> TRUE, epoch |-> txn.epoch, base |-> 0, rows |-> rows]
<1>0. BanksInStep /\ HashesAreOwn /\ ReaderInv
    BY DEF RowsInv
<1>1. pc = "prefetch" /\ pc' = "idle" /\ UNCHANGED <<session, txn, off, tile, gdn, ple, staged>>
    BY DEF Prefetch, bankVars, Return, ReturnFailed, ReturnCancelled
<1>2. /\ pc' \notin Catching /\ pc \notin Catching /\ pc \notin Executing /\ pc' \notin Executing
      /\ pc' \notin {"takefinal", "run"}
    BY <1>1, Places
<1>3. CASE last' # "ok" /\ be' = be
    <2>1. ~Good'
        BY <1>3 DEF Good
    <2>2. UNCHANGED Reading
        BY <1>1, <1>2, <1>3 DEF Reading, Live
    <2>3. BanksInStep' /\ HashesAreOwn'
        BY <1>0, <1>1, <1>2, <1>3, <2>1, <2>2, BanksFrame, HashesFrame
    <2>4. QED
        BY <2>3 DEF RowsInv
<1>4. CASE be.prov = 0 /\ be' = [be EXCEPT !.read = new]
    <2>1. be \in BeRecords /\ be.hash \in Pairs /\ txn.toks \in Seq(Tokens) /\ txn.epoch \in Nat
        BY <1>0, Typing DEF ReaderInv, CallInStep, BeRecords
    <2>2. rows \in Seq(Rows) /\ Len(rows) = Len(txn.toks)
        BY <2>1, HashTypes
    <2>3. new \in ReadRecords
        BY <2>1, <2>2 DEF ReadRecords
    <2>4. be'.read = new /\ SameButRead(be', be)
        BY <1>4, <2>1, <2>3, BeRead
    <2>5. be'.read.rows = rows /\ be'.read.base = 0
        BY <2>4
    <2>6. be'.prov = 0 /\ be'.hash = be.hash
        BY <1>4, <2>4 DEF SameButRead
    <2>7. BanksInStep'
        BY <1>0, <1>1, <2>6 DEF BanksInStep
    <2>8. rows = SubSeq(RowsGiven, Len(session) + 1, Len(session) + Len(txn.toks))
        <3> DEFINE G == TokensGiven  n == Len(session)  t == txn.toks
        <3>1. /\ G \in Seq(Tokens) /\ n \in 0..Len(G) /\ t \in Seq(Tokens) /\ n + Len(t) <= Len(G)
              /\ \A i \in 1..Len(t) : t[i] = G[n + i]
            BY <1>0, <2>1, GivenFacts
        <3>2. be.hash = HashOf(SubSeq(G, 1, n))
            BY <1>0, GivenFacts DEF HashesAreOwn
        <3> HIDE DEF G, n, t
        <3>3. HashRows(HashOf(SubSeq(G, 1, n)), t) = SubSeq(HashRows(FreshHash, G), n + 1, n + Len(t))
            BY <3>1, ChunkHashes
        <3>4. QED
            BY <3>2, <3>3 DEF G, n, t, RowsGiven
    <2>9. be'.read.rows = SubSeq(RowsGiven', Len(session') + be'.read.base + 1,
                                 Len(session') + be'.read.base + Len(be'.read.rows))
        <3>1. Len(session) + 0 = Len(session) /\ RowsGiven' = RowsGiven
            BY <1>0, <1>1, GivenFacts DEF RowsGiven, TokensGiven
        <3>2. QED
            BY <1>1, <2>2, <2>5, <2>8, <3>1
    <2>10. HashesAreOwn'
        BY <1>0, <1>1, <1>2, <2>6, <2>9 DEF HashesAreOwn
    <2>11. QED
        BY <2>7, <2>10 DEF RowsInv
<1>5. QED
    <2>1. CASE be.read.on \/ be.prov # 0 \/ be.active
        BY <1>3, <2>1 DEF Prefetch, ReturnFailed
    <2>2. CASE ~(be.read.on \/ be.prov # 0 \/ be.active)
        <3>1. \/ ReturnCancelled /\ UNCHANGED <<be, rd>>
              \/ ReturnFailed("reader") /\ UNCHANGED <<be, rd>>
              \/ Return /\ rd' = ReaderSubmitted(rows) /\ be' = [be EXCEPT !.read = new]
            BY <2>2 DEF Prefetch
        <3>2. QED
            BY <1>3, <1>4, <2>2, <3>1 DEF ReturnFailed, ReturnCancelled
    <2>3. QED
        BY <2>1, <2>2

\* A read never outlives its transaction's number.
LEMMA EndedRead ==
    ASSUME ReaderInv, txn' = NoTxn, be'.read = be.read
    PROVE  ~Reading'
<1>1. be.read.on => be.read.epoch >= 1
    BY Typing DEF ReaderInv, ReadInStep
<1>2. txn'.epoch = 0
    BY Typing
<1>3. QED
    BY <1>1, <1>2 DEF Reading, Live

\* A transaction is rolled back.
LEMMA RollbackRows ==
    ASSUME RowsInv, ReaderInv', Rollback
    PROVE  RowsInv'
<1>0. BanksInStep /\ HashesAreOwn /\ ReaderInv
    BY DEF RowsInv
<1>1. /\ pc = "idle" /\ txn # NoTxn /\ txn' = NoTxn /\ be' = Closed(be, txn.epoch)
      /\ gdn' \in {gdn, BankRollback(gdn)} /\ ple' \in {ple, BankRollback(ple)}
      /\ UNCHANGED <<session, pc>>
    BY DEF Rollback
<1>2. be'.prov = 0 /\ be'.read = be.read /\ be'.hash = be.hash
    BY <1>0, <1>1, ClosedFacts, Typing, ZenonT(60) DEF ReaderInv, CallInStep
<1>3. /\ gdn' \in Banks(Tokens) /\ CommittedCopy(gdn') = CommittedCopy(gdn)
      /\ ple' \in Banks(Rows) /\ CommittedCopy(ple') = CommittedCopy(ple)
    BY <1>0, <1>1, BankEndFacts DEF BanksInStep
<1>4. BanksInStep'
    BY <1>0, <1>1, <1>2, <1>3 DEF BanksInStep
<1>5. ~Reading' /\ pc' \notin {"takefinal", "run"}
    BY <1>0, <1>1, <1>2, EndedRead
<1>6. HashesAreOwn'
    BY <1>0, <1>1, <1>2, <1>5 DEF HashesAreOwn
<1>7. QED
    BY <1>4, <1>6 DEF RowsInv

\* What a fresh session has.
LEMMA FreshRows ==
    /\ FreshBank \in Banks(Tokens) /\ FreshBank \in Banks(Rows)
    /\ CommittedCopy(FreshBank) = <<>> /\ HashRows(FreshHash, <<>>) = <<>>
    /\ FreshBe.hash = HashOf(<<>>) /\ FreshBe.prov = 0 /\ ~FreshBe.read.on
<1>1. ASSUME NEW S PROVE FreshBank \in Banks(S)
    <2>1. <<>> \in Seq(S)
        OBVIOUS
    <2>2. [i \in {0, 1} |-> <<>>] \in [{0, 1} -> Seq(S)]
        BY <2>1
    <2>3. QED
        BY <2>1, <2>2 DEF FreshBank, Banks
<1>2. CommittedCopy(FreshBank) = <<>>
    BY DEF FreshBank, CommittedCopy
<1>3. HashRows(FreshHash, <<>>) = <<>>
    <2>1. <<>> \in Seq(Tokens) /\ Len(<<>>) = 0 /\ FreshHash \in Pairs
        BY CudaAssumption DEF FreshHash, Pairs
    <2>2. HashRows(FreshHash, <<>>) \in Seq(Rows) /\ Len(HashRows(FreshHash, <<>>)) = 0
        BY <2>1, HashTypes
    <2>3. QED
        BY <2>2, EmptySeq
<1>4. FreshBe.hash = HashOf(<<>>) /\ FreshBe.prov = 0 /\ ~FreshBe.read.on
    BY DEF FreshBe, HashOf, NoRead
<1>5. QED
    BY <1>1, <1>2, <1>3, <1>4

\* The session is reset.
LEMMA FinishResetRows ==
    ASSUME RowsInv, ReaderInv', FinishReset
    PROVE  RowsInv'
<1>1. /\ gdn' = FreshBank /\ ple' = FreshBank /\ be' = FreshBe /\ session' = <<>> /\ pc' = "idle"
    BY DEF FinishReset, Return
<1>2. ~Reading' /\ pc' \notin {"takefinal", "run"}
    BY <1>1, FreshRows DEF Reading, Live
<1>3. BanksInStep'
    BY <1>1, FreshRows DEF BanksInStep
<1>4. HashesAreOwn'
    BY <1>1, <1>2, FreshRows DEF HashesAreOwn
<1>5. QED
    BY <1>3, <1>4 DEF RowsInv

\* The initial states.
LEMMA RowsInvInit ==
    ASSUME CudaInit
    PROVE  RowsInv
<1>1. /\ gdn = FreshBank /\ ple = FreshBank /\ be = FreshBe /\ session = <<>> /\ pc = "idle"
    BY DEF CudaInit
<1>2. ~Reading /\ pc \notin {"takefinal", "run"}
    BY <1>1, FreshRows DEF Reading, Live
<1>3. BanksInStep
    BY <1>1, FreshRows DEF BanksInStep
<1>4. HashesAreOwn
    BY <1>1, <1>2, FreshRows DEF HashesAreOwn
<1>5. QED
    BY <1>3, <1>4, ReaderInvInit DEF RowsInv

\* A tile is taken: it holds the rows of the tokens that come next.
LEMMA TakeRows ==
    ASSUME TilesFitChunks, RowsInv, ReaderInv', Take
    PROVE  RowsInv'
<1>0. BanksInStep /\ HashesAreOwn /\ ReaderInv
    BY DEF RowsInv
<1>1. /\ pc = "take" /\ UNCHANGED <<session, txn, off, tile, gdn, ple, last>>
    BY <1>0, TakeCases
<1>2. pc \in Executing /\ pc \notin Catching
    BY <1>1, Places
<1>3. CASE pc' = "catch_read" /\ be' = ReadOver
    <2>1. be'.read = NoRead /\ SameButRead(be', be) /\ ~NoRead.on
        BY <1>0, <1>3, OverFacts DEF ReaderInv, CallInStep
    <2>2. be'.prov = be.prov /\ be'.hash = be.hash
        BY <2>1 DEF SameButRead
    <2>3. ~Good' /\ ~Reading' /\ pc' \notin {"takefinal", "run"}
        BY <1>3, <2>1, Places DEF Good, Reading, Live
    <2>4. BanksInStep' /\ HashesAreOwn'
        BY <1>0, <1>1, <2>2, <2>3, BanksFrame, HashesFrame
    <2>5. QED
        BY <2>4 DEF RowsInv
<1>4. CASE /\ rd.tiles # <<>> /\ be' = be /\ staged' = Head(rd.tiles).rows
           /\ pc' \in {"takefinal", "run"}
    <2>1. pc' \in Executing /\ pc' \notin Catching
        BY <1>4, Places
    <2>2. UNCHANGED <<Good, Done, Reading, ChunkLen, TokensGiven, RowsGiven>>
        BY <1>1, <1>2, <1>4, <2>1 DEF Good, Done, Reading, Live, ChunkLen, TokensGiven, RowsGiven
    <2>3. UNCHANGED TileLen
        BY <1>1, <2>2 DEF TileLen
    <2>4. BanksInStep'
        BY <1>0, <1>1, <1>4, <2>2, BanksFrame
    <2>5. /\ TilesInStep(rd, job, rpc, be.read.rows, FirstRow) /\ FirstRow \in Nat /\ Reading
          /\ TileLen \in Nat
          /\ TileLen = IF TileTokens < Len(be.read.rows) - FirstRow THEN TileTokens
                       ELSE Len(be.read.rows) - FirstRow
        BY <1>0, <1>1, TakeFacts
    <2> DEFINE rows == be.read.rows  next == FirstRow  base == Len(session) + be.read.base
    <2>6. rows \in Seq(Rows) /\ Len(rows) \in Nat /\ base \in Nat /\ next \in Nat
        BY <1>0, <2>5, Typing, GivenFacts, SMTT(40)
    <2>7. Head(rd.tiles).rows = SubSeq(rows, next + 1, next + TileLen) /\ next + TileLen <= Len(rows)
        <3> DEFINE s == [rd EXCEPT !.tiles = Tail(rd.tiles)]
        <3>1. rd \in ReaderRecords /\ job \in [rows : Seq(Rows), first : Nat, error : BOOLEAN] /\ rd.tiles \in Seq(TileRecords)
            BY <1>0 DEF ReaderInv, ReaderInStep, ReaderRecords
        <3>2. Tail(rd.tiles) \in Seq(TileRecords)
            BY <1>4, <3>1, HeadTailProperties
        <3>3. /\ s \in ReaderRecords /\ s.tiles = Tail(rd.tiles) /\ s.total = rd.total
              /\ s.request = rd.request /\ s.rows = rd.rows
            BY <3>1, <3>2 DEF ReaderRecords
        <3>4. TilesInStep(rd, job, rpc, rows, next)
            BY <2>5
        <3>5. TileLen = IF TileTokens < Len(rows) - next THEN TileTokens ELSE Len(rows) - next
            BY <2>5
        <3> HIDE DEF rows, next, s
        <3> DEFINE len == IF TileTokens < Len(rows) - next THEN TileTokens ELSE Len(rows) - next
        <3>10. rd.tiles # <<>> /\ rows \in Seq(Rows) /\ next \in Nat
            BY <1>4, <2>6
        <3>11. next < Len(rows)
            BY <3>1, <3>3, <3>4, <3>10, TilesTake
        <3>12. Head(rd.tiles).rows = SubSeq(rows, next + 1, next + len)
            BY <3>1, <3>3, <3>4, <3>10, TilesTake
        <3>6. next < Len(rows) /\ Head(rd.tiles).rows = SubSeq(rows, next + 1, next + len)
            BY <3>11, <3>12
        <3>7. TileLen = len /\ TileTokens \in Nat
            BY <3>5, CudaAssumption
        <3>8. next + TileLen <= Len(rows)
            BY <2>6, <3>5, <3>6, <3>7
        <3> HIDE DEF len
        <3>9. QED
            BY <3>6, <3>7, <3>8
    <2>8. rows = SubSeq(RowsGiven, base + 1, base + Len(rows))
        BY <1>0, <2>5 DEF HashesAreOwn
    <2>9. base + Len(rows) <= Len(RowsGiven) /\ RowsGiven \in Seq(Rows)
        <3>1. Len(RowsGiven) = Len(session) + Len(txn.toks) /\ RowsGiven \in Seq(Rows) /\ Len(session) \in Nat
            BY <1>0, GivenFacts
        <3>2. be.read.base + Len(rows) <= Len(txn.toks)
            <4>1. \/ be.read.base = 0 /\ Len(rows) = Len(txn.toks)
                  \/ be.read.base = off /\ Len(rows) = ChunkLen
                BY <1>0, <2>5 DEF ReaderInv, ReadInStep
            <4>2. Len(txn.toks) \in Nat /\ off + ChunkLen <= Len(txn.toks)
                BY <1>0, Typing
            <4>3. QED
                BY <4>1, <4>2
        <3>3. be.read.base \in Nat /\ Len(rows) \in Nat /\ Len(txn.toks) \in Nat
            BY <1>0, Typing
        <3>4. QED
            BY <3>1, <3>2, <3>3, SMTT(40)
    <2>10. base + next = Done
        <3>1. Done = Len(session) + off + tile
            BY <1>0, <1>2, DoneFacts
        <3>2. off \in Nat /\ tile \in Nat /\ be.read.base \in Nat /\ Len(session) \in Nat
            BY <1>0, Typing, GivenFacts
        <3>3. QED
            BY <3>1, <3>2 DEF FirstRow
    <2> HIDE DEF rows, next, base
    <2>11. SubSeq(rows, next + 1, next + TileLen) = SubSeq(RowsGiven, base + next + 1, base + next + TileLen)
        <3> DEFINE k == TileLen  n == Len(rows)  r == RowsGiven
        <3>1. k \in Nat /\ n \in Nat /\ next + k <= n /\ rows = SubSeq(r, base + 1, base + n)
            BY <2>5, <2>6, <2>7, <2>8
        <3>2. base + n <= Len(r) /\ r \in Seq(Rows) /\ base \in Nat /\ next \in Nat
            BY <2>6, <2>9
        <3> HIDE DEF k, n, r
        <3>3. SubSeq(rows, next + 1, next + k) = SubSeq(r, base + next + 1, base + next + k)
            BY <3>1, <3>2, PartOfPart
        <3>4. QED
            BY <3>3 DEF k, r
    <2>12. staged' = SubSeq(RowsGiven', Done' + 1, Done' + TileLen')
        BY <1>4, <2>2, <2>3, <2>7, <2>10, <2>11
    <2>13. HashesAreOwn'
        BY <1>0, <1>1, <1>4, <2>2, <2>12 DEF HashesAreOwn
    <2>14. QED
        BY <2>4, <2>13 DEF RowsInv
<1>5. QED
    BY <1>0, <1>3, <1>4, TakeCases

\* The chunk is a part of the tokens given.
LEMMA ChunkGiven ==
    ASSUME ReaderInv
    PROVE  LET a == Len(session) + off IN
           /\ Chunk \in Seq(Tokens) /\ Len(Chunk) = ChunkLen
           /\ a \in Nat /\ a + ChunkLen <= Len(TokensGiven)
           /\ \A i \in 1..ChunkLen : Chunk[i] = TokensGiven[a + i]
           /\ Chunk = SubSeq(TokensGiven, a + 1, a + ChunkLen)
<1> DEFINE G == TokensGiven  n == Len(session)  t == txn.toks  l == Len(txn.toks)  c == ChunkLen
<1>1. /\ G \in Seq(Tokens) /\ n \in Nat /\ l \in Nat /\ Len(G) = n + l /\ t \in Seq(Tokens)
      /\ \A i \in 1..l : G[n + i] = t[i]
    BY GivenFacts, Typing
<1>2. off \in Nat /\ c \in Nat /\ off + c <= l /\ l = Len(t)
    BY Typing
<1> HIDE DEF G, n, t, l, c
<1> DEFINE v == SubSeq(G, n + 1, n + l)
<1>3. v \in Seq(Tokens) /\ Len(v) = l /\ \A i \in 1..l : v[i] = G[n + i]
    BY <1>1, PartOfPart
<1>4. SubSeq(v, off + 1, off + c) = SubSeq(G, n + off + 1, n + off + c)
    BY <1>1, <1>2, PartOfPart, SMTT(40)
<1> HIDE DEF v
<1>5. v = t
    BY <1>1, <1>2, <1>3, SeqEqual
<1> DEFINE w == SubSeq(G, (n + off) + 1, (n + off) + c)
<1>6. n + off \in Nat /\ (n + off) + c <= Len(G)
    BY <1>1, <1>2
<1>7. w \in Seq(Tokens) /\ Len(w) = c /\ \A i \in 1..c : w[i] = G[(n + off) + i]
    BY <1>1, <1>2, <1>6, PartOfPart
<1>8. Chunk = w
    BY <1>4, <1>5 DEF Chunk, t, c
<1> HIDE DEF w
<1>9. Chunk \in Seq(Tokens) /\ Len(Chunk) = c /\ \A i \in 1..c : Chunk[i] = G[(n + off) + i]
    BY <1>7, <1>8
<1>10. QED
    BY <1>6, <1>8, <1>9 DEF G, n, c, w

\* The session followed by the first n tokens of the transaction.
LEMMA GivenPrefix ==
    ASSUME ReaderInv, NEW n \in Nat, n <= Len(txn.toks)
    PROVE  SubSeq(TokensGiven, 1, Len(session) + n) = session \o SubSeq(txn.toks, 1, n)
<1> DEFINE G == TokensGiven  N == Len(session)  t == txn.toks  l == Len(txn.toks)
           v == SubSeq(G, N + 1, N + l)
<1>1. /\ G \in Seq(Tokens) /\ N \in Nat /\ t \in Seq(Tokens) /\ l \in Nat /\ l = Len(t)
      /\ Len(G) = N + l /\ n <= l /\ \A i \in 1..l : G[N + i] = t[i]
    BY GivenFacts, Typing
<1>2. SubSeq(G, 1, N) = session
    BY GivenFacts
<1> HIDE DEF G, N, t, l
<1>3. N + l <= Len(G) /\ 0 + n <= l /\ N + n <= Len(G)
    BY <1>1
<1>4. v \in Seq(Tokens) /\ Len(v) = l /\ \A i \in 1..l : v[i] = G[N + i]
    BY <1>1, <1>3, PartOfPart
<1>5. SubSeq(v, 0 + 1, 0 + n) = SubSeq(G, N + 0 + 1, N + 0 + n)
    BY <1>1, <1>3, PartOfPart
<1> HIDE DEF v
<1>6. v = t
    BY <1>1, <1>4, SeqEqual
<1>7. N + 0 = N /\ 0 + n = n /\ 0 + 1 = 1
    BY <1>1
<1>8. SubSeq(G, 1, N) \o SubSeq(G, N + 1, N + n) = SubSeq(G, 1, N + n)
    BY <1>1, <1>3, PrefixGrows
<1>9. QED
    BY <1>2, <1>5, <1>6, <1>7, <1>8 DEF G, N, t

\* The kernels run one tile.
LEMMA RunRows ==
    ASSUME TilesFitChunks, RowsInv, ReaderInv', RunTile
    PROVE  RowsInv'
<1> DEFINE toks == SubSeq(Chunk, tile + 1, tile + TileLen)
           G == TokensGiven  R == RowsGiven  D == Done  len == TileLen
<1>0. BanksInStep /\ HashesAreOwn /\ ReaderInv
    BY DEF RowsInv
<1>1. /\ pc = "run" /\ gdn' = BankFold(gdn, toks) /\ ple' = BankFold(ple, staged)
      /\ UNCHANGED <<session, txn>>
    BY RunCases
<1>2. /\ TileLen \in Nat /\ tile + TileLen <= ChunkLen /\ pc \in Executing /\ pc \notin Catching
      /\ be.prov # 0 /\ last = "ok" /\ Good
    BY <1>0, <1>1, RunFacts
<1>3. /\ G \in Seq(Tokens) /\ R \in Seq(Rows) /\ Len(R) = Len(G) /\ D \in Nat /\ len \in Nat /\ D + len <= Len(G)
      /\ D = Len(session) + off + tile
    BY <1>0, <1>2, GivenFacts, DoneFacts
<1>4. toks \in Seq(Tokens) /\ toks = SubSeq(G, D + 1, D + len)
    <2> DEFINE a == Len(session) + off  c == ChunkLen
    <2>1. a \in Nat /\ a + c <= Len(G) /\ Chunk = SubSeq(G, a + 1, a + c) /\ c \in Nat
        BY <1>0, ChunkGiven, Typing
    <2>2. tile \in Nat /\ tile + len <= c /\ D = a + tile
        BY <1>0, <1>2, <1>3, Typing
    <2> HIDE DEF G, a, c, D, len
    <2>3. /\ SubSeq(Chunk, tile + 1, tile + len) \in Seq(Tokens)
          /\ SubSeq(Chunk, tile + 1, tile + len) = SubSeq(G, a + tile + 1, a + tile + len)
        BY <1>3, <2>1, <2>2, PartOfPart
    <2>4. QED
        BY <2>2, <2>3 DEF len
<1>5. staged \in Seq(Rows) /\ staged = SubSeq(R, D + 1, D + len)
    <2>1. staged = SubSeq(R, D + 1, D + len)
        BY <1>0, <1>1 DEF HashesAreOwn
    <2> HIDE DEF R, D, len
    <2>2. D + len <= Len(R) /\ 0 \in Nat /\ 0 + 0 <= len /\ R \in Seq(Rows) /\ D \in Nat /\ len \in Nat
        BY <1>3
    <2>3. staged \in Seq(Rows)
        BY <2>1, <2>2, PartOfPart
    <2>4. QED
        BY <2>1, <2>3
<1>6. /\ Working(gdn) = SubSeq(G, 1, D) /\ Working(ple) = SubSeq(R, 1, D)
      /\ be.processed = off /\ be.ckpt \in 0..off
      /\ be.ckpt # 0 => /\ gdn.ckpt = SubSeq(G, 1, Len(session) + be.ckpt)
                        /\ ple.ckpt = SubSeq(R, 1, Len(session) + be.ckpt)
    BY <1>0, <1>2 DEF BanksInStep
<1>7. /\ gdn' \in Banks(Tokens) /\ CommittedCopy(gdn') = session' /\ gdn'.ckpt = gdn.ckpt
      /\ ple' \in Banks(Rows) /\ CommittedCopy(ple') = HashRows(FreshHash, session') /\ ple'.ckpt = ple.ckpt
      /\ Working(gdn') = Working(gdn) \o toks /\ Working(ple') = Working(ple) \o staged
    <2> HIDE DEF toks
    <2>1. gdn \in Banks(Tokens) /\ ple \in Banks(Rows) /\ CommittedCopy(gdn) = session
          /\ CommittedCopy(ple) = HashRows(FreshHash, session)
        BY <1>0 DEF BanksInStep
    <2>2. QED
        BY <1>1, <1>4, <1>5, <2>1, BankFoldFacts
<1>8. Working(gdn') = SubSeq(G, 1, D + len) /\ Working(ple') = SubSeq(R, 1, D + len)
    <2> HIDE DEF G, R, D, len, toks
    <2>1. D + len <= Len(R)
        BY <1>3
    <2>2. SubSeq(G, 1, D) \o SubSeq(G, D + 1, D + len) = SubSeq(G, 1, D + len)
        BY <1>3, PrefixGrows
    <2>3. SubSeq(R, 1, D) \o SubSeq(R, D + 1, D + len) = SubSeq(R, 1, D + len)
        BY <1>3, <2>1, PrefixGrows
    <2>4. QED
        BY <1>4, <1>5, <1>6, <1>7, <2>2, <2>3
<1>9. G' = G /\ R' = R
    BY <1>1 DEF TokensGiven, RowsGiven
<1> HIDE DEF toks
<1>10. CASE pc' \in {"catch_device", "catch_cancelled"} /\ UNCHANGED <<be, off, tile, last, fail>>
    <2>1. ~Good' /\ ~Reading' /\ pc' \notin {"takefinal", "run"}
        BY <1>10, Places DEF Good, Reading
    <2>2. BanksInStep'
        BY <1>7, <2>1 DEF BanksInStep
    <2>3. HashesAreOwn'
        BY <1>0, <1>1, <1>10, <2>1, HashesFrame
    <2>4. QED
        BY <2>2, <2>3 DEF RowsInv
<1>11. CASE tile' = tile + TileLen /\ pc' = "tile" /\ UNCHANGED <<be, off, last, fail>>
    <2>1. pc' \in Executing /\ pc' \notin Catching /\ pc' \notin {"takefinal", "run"}
        BY <1>11, Places
    <2>2. Done' = D + len
        <3>1. Done' = Len(session) + off + (tile + len)
            BY <1>1, <1>11, <2>1 DEF Done
        <3>2. tile \in Nat /\ off \in Nat /\ Len(session) \in Nat
            BY <1>0, Typing, GivenFacts
        <3>3. QED
            BY <1>3, <3>1, <3>2
    <2>3. BanksInStep'
        BY <1>1, <1>6, <1>7, <1>8, <1>9, <1>11, <2>2 DEF BanksInStep
    <2>4. Good /\ UNCHANGED Reading
        BY <1>1, <1>2, <1>11, <2>1 DEF Reading, Live
    <2>5. HashesAreOwn'
        BY <1>0, <1>1, <1>11, <2>1, <2>4, HashesFrame
    <2>6. QED
        BY <2>3, <2>5 DEF RowsInv
<1>12. CASE /\ tile + TileLen = ChunkLen /\ be' = [be EXCEPT !.processed = be.processed + ChunkLen]
            /\ off' = off + ChunkLen /\ Return /\ tile' = tile
    <2>1. pc' = "idle" /\ pc' \notin Executing /\ pc' \notin Catching /\ pc' \notin {"takefinal", "run"}
        BY <1>12, Places DEF Return
    <2>2. /\ be'.processed = be.processed + ChunkLen /\ be'.prov = be.prov /\ be'.ckpt = be.ckpt
          /\ be'.hash = be.hash /\ be'.hashes = be.hashes /\ be'.read = be.read
        BY <1>0, <1>12 DEF ReaderInv, CallInStep, BeRecords
    <2>3. Done' = D + len /\ be'.processed = off' /\ be'.ckpt \in 0..off'
        <3>1. Done' = Len(session) + (off + ChunkLen) + 0
            BY <1>1, <1>12, <2>1 DEF Done
        <3>2. tile \in Nat /\ off \in Nat /\ Len(session) \in Nat /\ ChunkLen \in Nat
            BY <1>0, Typing, GivenFacts
        <3>3. Done' = D + len
            BY <1>3, <1>12, <3>1, <3>2
        <3>4. QED
            BY <1>6, <1>12, <2>2, <3>2, <3>3
    <2>4. BanksInStep'
        BY <1>1, <1>6, <1>7, <1>8, <1>9, <2>2, <2>3 DEF BanksInStep
    <2>5. Good /\ UNCHANGED Reading
        BY <1>1, <1>2, <2>1, <2>2 DEF Reading, Live
    <2>6. HashesAreOwn'
        BY <1>0, <1>1, <2>1, <2>2, <2>5, HashesFrame
    <2>7. QED
        BY <2>4, <2>6 DEF RowsInv
<1>13. QED
    BY <1>10, <1>11, <1>12, RunCases

\* What a commit keeps: everything that was executed, or all but the last row.
LEMMA RestoredFacts ==
    ASSUME NEW S, NEW b \in Banks(S), NEW n \in Nat, NEW r \in Seq(S), NEW m \in Nat,
           be.processed \in Nat,
           n = be.processed => Working(b) = SubSeq(r, 1, m),
           n < be.processed => b.ckpt = SubSeq(r, 1, m),
           n <= be.processed
    PROVE  /\ BankCommit(Restored(b, n)) \in Banks(S)
           /\ CommittedCopy(BankCommit(Restored(b, n))) = SubSeq(r, 1, m)
<1>1. Restored(b, n) \in Banks(S) /\ Working(Restored(b, n)) = SubSeq(r, 1, m)
    BY BankCheckpointFacts DEF Restored
<1>2. QED
    BY <1>1, BankEndFacts

\* A transaction is committed.
LEMMA CommitRows ==
    ASSUME TilesFitChunks, RowsInv, ReaderInv', NEW n \in 1..ContextLimit, Commit(n)
    PROVE  RowsInv'
<1> DEFINE G == TokensGiven  R == RowsGiven  N == Len(session)
<1>0. BanksInStep /\ HashesAreOwn /\ ReaderInv
    BY DEF RowsInv
<1>1. MayGoOn /\ pc = "idle"
    BY DEF Commit, MayGoOn
<1>2. CASE ReturnFailed(IF CommitAccepted(n) THEN "commit_device" ELSE "commit") /\ UNCHANGED <<bankVars, be, session, txn, off>>
    <2>1. ~Good' /\ pc' = "idle" /\ pc' \notin {"takefinal", "run"} /\ UNCHANGED <<gdn, ple>>
        BY <1>2 DEF ReturnFailed, Good, bankVars
    <2>2. UNCHANGED Reading
        BY <1>1, <1>2, <2>1 DEF Reading, Live
    <2>3. BanksInStep' /\ HashesAreOwn'
        BY <1>0, <1>2, <2>1, <2>2, BanksFrame, HashesFrame
    <2>4. QED
        BY <2>3 DEF RowsInv
<1>3. CASE /\ CommitAccepted(n)
           /\ gdn' = BankCommit(Restored(gdn, n)) /\ ple' = BankCommit(Restored(ple, n))
           /\ be' = [Closed(be, be.prov) EXCEPT !.frontier = be.base + n, !.hash = be.hashes[n]]
           /\ session' = session \o SubSeq(txn.toks, 1, n)
           /\ txn' = NoTxn /\ off' = 0 /\ Return
    <2>1. /\ n = off \/ (n = off - 1 /\ n = be.ckpt)
        BY DEF Commit
    <2>2. /\ n \in 1..off /\ n \in 1..Len(txn.toks) /\ n \in 1..Len(be.hashes)
          /\ be.prov # 0 /\ Good
        BY <1>0, <1>1, <1>3, CommitFacts DEF Commit
    <2>3. pc \notin Executing
        BY <1>1, Places
    <2>4. /\ Working(gdn) = SubSeq(G, 1, N + off) /\ Working(ple) = SubSeq(R, 1, N + off)
          /\ be.processed = off /\ gdn \in Banks(Tokens) /\ ple \in Banks(Rows)
          /\ be.ckpt # 0 => /\ gdn.ckpt = SubSeq(G, 1, N + be.ckpt)
                            /\ ple.ckpt = SubSeq(R, 1, N + be.ckpt)
        BY <1>0, <2>2, <2>3, DoneFacts DEF BanksInStep
    <2>5. /\ G \in Seq(Tokens) /\ R \in Seq(Rows) /\ N \in Nat /\ off \in Nat /\ n \in Nat /\ n >= 1
          /\ n <= off /\ off <= Len(txn.toks) /\ Len(txn.toks) \in Nat /\ Len(G) = N + Len(txn.toks)
          /\ R = HashRows(FreshHash, G)
        BY <1>0, <2>2, GivenFacts, Typing DEF RowsGiven
    <2>6. session' = SubSeq(G, 1, N + n)
        <3>1. n \in Nat /\ n <= Len(txn.toks)
            BY <2>5
        <3>2. SubSeq(TokensGiven, 1, Len(session) + n) = session \o SubSeq(txn.toks, 1, n)
            BY <1>0, <3>1, GivenPrefix
        <3>3. QED
            BY <1>3, <3>2
    <2>7. /\ gdn' \in Banks(Tokens) /\ CommittedCopy(gdn') = SubSeq(G, 1, N + n)
          /\ ple' \in Banks(Rows) /\ CommittedCopy(ple') = SubSeq(R, 1, N + n)
        <3>1. be.processed \in Nat /\ N + n \in Nat /\ n <= be.processed
            BY <2>4, <2>5
        <3>2. /\ n = be.processed => Working(gdn) = SubSeq(G, 1, N + n) /\ Working(ple) = SubSeq(R, 1, N + n)
              /\ n < be.processed => gdn.ckpt = SubSeq(G, 1, N + n) /\ ple.ckpt = SubSeq(R, 1, N + n)
            <4>1. CASE n = be.processed
                BY <2>4, <2>5, <4>1
            <4>2. CASE n # be.processed
                <5>1. n = be.ckpt /\ be.ckpt # 0
                    BY <2>1, <2>4, <2>5, <4>2
                <5>2. QED
                    BY <2>4, <4>2, <5>1
            <4>3. QED
                BY <4>1, <4>2
        <3> HIDE DEF G, R, N
        <3> DEFINE m == N + n
        <3>6. gdn \in Banks(Tokens) /\ ple \in Banks(Rows) /\ G \in Seq(Tokens) /\ R \in Seq(Rows) /\ n \in Nat
              /\ m \in Nat /\ be.processed \in Nat /\ n <= be.processed
            BY <2>4, <2>5, <3>1
        <3>7. /\ n = be.processed => Working(gdn) = SubSeq(G, 1, m) /\ Working(ple) = SubSeq(R, 1, m)
              /\ n < be.processed => gdn.ckpt = SubSeq(G, 1, m) /\ ple.ckpt = SubSeq(R, 1, m)
            BY <3>2
        <3> HIDE DEF m
        <3>3. BankCommit(Restored(gdn, n)) \in Banks(Tokens) /\ CommittedCopy(BankCommit(Restored(gdn, n))) = SubSeq(G, 1, m)
            BY <3>6, <3>7, RestoredFacts
        <3>4. BankCommit(Restored(ple, n)) \in Banks(Rows) /\ CommittedCopy(BankCommit(Restored(ple, n))) = SubSeq(R, 1, m)
            BY <3>6, <3>7, RestoredFacts
        <3>5. QED
            BY <1>3, <3>3, <3>4 DEF m
    <2>8. SubSeq(R, 1, N + n) = HashRows(FreshHash, SubSeq(G, 1, N + n))
        <3> HIDE DEF G, R, N
        <3>1. N + n \in 0..Len(G)
            BY <2>5
        <3>2. QED
            BY <2>5, <3>1, PrefixRows
    <2>9. be'.prov = 0 /\ be'.read = be.read /\ be'.hash = be.hashes[n]
        <3> DEFINE c == Closed(be, be.prov)
        <3>1. c \in BeRecords /\ c.prov = 0 /\ c.read = be.read
            BY <1>0, ClosedFacts, Typing DEF ReaderInv, CallInStep
        <3> HIDE DEF c
        <3>2. be' = [c EXCEPT !.frontier = be.base + n, !.hash = be.hashes[n]]
            BY <1>3 DEF c
        <3>3. QED
            BY <3>1, <3>2 DEF BeRecords
    <2>10. be.hashes[n] = HashOf(SubSeq(G, 1, N + n))
        BY <1>0, <2>2 DEF HashesAreOwn
    <2> HIDE DEF G, R, N
    <2>11. BanksInStep'
        BY <2>6, <2>7, <2>8, <2>9 DEF BanksInStep
    <2>12. ~Reading' /\ pc' \notin {"takefinal", "run"}
        BY <1>0, <1>3, <2>9, EndedRead DEF Return
    <2>13. HashesAreOwn'
        BY <2>6, <2>9, <2>10, <2>12 DEF HashesAreOwn
    <2>14. QED
        BY <2>11, <2>13 DEF RowsInv
<1>4. QED
    BY <1>2, <1>3 DEF Commit

\* The hash that a chunk starts from is the hash of all that precedes it, and so
\* its hashes and its rows are those of its tokens.
LEMMA EnterHashes ==
    ASSUME RowsInv, pc = "enter", Accepted
    PROVE  LET a == Len(session) + off
               hs == be.hashes \o HashesAfter(EnterHash, Chunk) IN
           /\ EnterHash = HashOf(SubSeq(TokensGiven, 1, a))
           /\ EnterRows = SubSeq(RowsGiven, a + 1, a + ChunkLen)
           /\ \A i \in 1..Len(hs) : hs[i] = HashOf(SubSeq(TokensGiven, 1, Len(session) + i))
<1> DEFINE G == TokensGiven  N == Len(session)  a == N + off  t == Chunk
           f == HashesAfter(EnterHash, Chunk)  hs == be.hashes \o f
<1>0. BanksInStep /\ HashesAreOwn /\ ReaderInv
    BY DEF RowsInv
<1>1. /\ EnterBe.hash = be.hash /\ EnterBe.hashes = be.hashes /\ Len(be.hashes) = off
      /\ EnterHash \in Pairs
    BY <1>0, EnterFacts
<1>2. /\ G \in Seq(Tokens) /\ N \in Nat /\ off \in Nat /\ a \in Nat /\ SubSeq(G, 1, N) = session
      /\ t \in Seq(Tokens) /\ Len(t) = ChunkLen /\ ChunkLen \in Nat /\ a + ChunkLen <= Len(G)
      /\ \A i \in 1..ChunkLen : t[i] = G[a + i]
      /\ be.hashes \in Seq(Pairs)
    BY <1>0, GivenFacts, Typing, ChunkGiven DEF ReaderInv, CallInStep, BeRecords
<1>3. \A i \in 1..off : be.hashes[i] = HashOf(SubSeq(G, 1, N + i))
    <2>1. CASE be.prov = 0
        <3>1. off = 0
            BY <2>1 DEF Accepted, CanOpen
        <3>2. QED
            BY <3>1
    <2>2. CASE be.prov # 0
        <3>1. Good
            BY <1>0, Places DEF Good, ReaderInv, CallInStep
        <3>2. QED
            BY <1>0, <1>1, <2>2, <3>1 DEF HashesAreOwn
    <2>3. QED
        BY <2>1, <2>2
<1>4. EnterHash = HashOf(SubSeq(G, 1, a))
    <2>1. CASE be.hashes = <<>>
        <3>5. off = 0
            BY <1>1, <2>1
        <3>1. off = 0 /\ a = N
            BY <1>2, <3>5
        <3>2. EnterHash = be.hash
            BY <1>1, <2>1 DEF EnterHash
        <3>3. be.hash = HashOf(session)
            BY <1>0 DEF HashesAreOwn
        <3>4. QED
            BY <1>2, <3>1, <3>2, <3>3
    <2>2. CASE be.hashes # <<>>
        <3>1. off \in 1..off
            BY <1>1, <1>2, <2>2, EmptySeq
        <3>2. EnterHash = be.hashes[off]
            BY <1>1, <2>2 DEF EnterHash
        <3>3. QED
            BY <1>3, <3>1, <3>2
    <2>3. QED
        BY <2>1, <2>2
<1>5. f \in Seq(Pairs) /\ Len(f) = ChunkLen
    BY <1>1, <1>2, HashTypes
<1>6. /\ \A i \in 1..ChunkLen : f[i] = HashOf(SubSeq(G, 1, a + i))
      /\ EnterRows = SubSeq(RowsGiven, a + 1, a + ChunkLen)
    <2> DEFINE h == HashOf(SubSeq(G, 1, a))
    <2>1. a \in 0..Len(G) /\ a + Len(t) <= Len(G) /\ \A i \in 1..Len(t) : t[i] = G[a + i]
        BY <1>2
    <2>2. f = HashesAfter(h, t) /\ EnterRows = HashRows(h, t) /\ RowsGiven = HashRows(FreshHash, G)
        BY <1>4 DEF EnterRows, RowsGiven
    <2>3. G \in Seq(Tokens) /\ t \in Seq(Tokens) /\ Len(t) = ChunkLen
        BY <1>2
    <2> HIDE DEF G, a, t, f
    <2>4. /\ \A i \in 1..Len(t) : HashesAfter(h, t)[i] = HashOf(SubSeq(G, 1, a + i))
          /\ HashRows(h, t) = SubSeq(HashRows(FreshHash, G), a + 1, a + Len(t))
        BY <2>1, <2>3, ChunkHashes
    <2> HIDE DEF h
    <2>5. QED
        BY <2>2, <2>3, <2>4
<1>7. /\ Len(hs) = off + ChunkLen
      /\ \A i \in 1..off + ChunkLen : hs[i] = IF i <= off THEN be.hashes[i] ELSE f[i - off]
    <2> HIDE DEF f
    <2> DEFINE g == be.hashes
    <2>1. g \in Seq(Pairs) /\ f \in Seq(Pairs) /\ Len(g) = off /\ Len(f) = ChunkLen
        BY <1>1, <1>2, <1>5
    <2> HIDE DEF g
    <2>2. /\ Len(g \o f) = Len(g) + Len(f)
          /\ \A i \in 1..Len(g) + Len(f) : (g \o f)[i] = IF i <= Len(g) THEN g[i] ELSE f[i - Len(g)]
        BY <2>1, ConcatProperties
    <2>3. QED
        BY <2>1, <2>2 DEF g
<1> HIDE DEF f, hs
<1>8. ASSUME NEW i \in 1..Len(hs) PROVE hs[i] = HashOf(SubSeq(G, 1, N + i))
    <2>1. CASE i <= off
        <3>1. i \in 1..off /\ i \in 1..off + ChunkLen
            BY <1>2, <1>7, <2>1
        <3>2. hs[i] = be.hashes[i]
            BY <1>7, <2>1, <3>1
        <3>3. QED
            BY <1>3, <3>1, <3>2
    <2>2. CASE ~(i <= off)
        <3>1. i - off \in 1..ChunkLen /\ a + (i - off) = N + i
            BY <1>2, <1>7, <2>2, SMTT(40)
        <3>2. hs[i] = f[i - off]
            BY <1>2, <1>7, <2>2
        <3>3. QED
            BY <1>6, <3>1, <3>2
    <2>3. QED
        BY <2>1, <2>2
<1>9. QED
    BY <1>4, <1>6, <1>8 DEF f, hs

\* The banks when a chunk begins.
LEMMA EnterBanks ==
    ASSUME TilesFitChunks, RowsInv, pc = "enter", Accepted,
           gdn' = IF be.prov = 0 THEN BankBegin(gdn, txn.epoch) ELSE gdn,
           ple' = IF be.prov = 0 THEN BankBegin(ple, txn.epoch) ELSE ple
    PROVE  LET a == Len(session) + off IN
           /\ gdn' \in Banks(Tokens) /\ ple' \in Banks(Rows)
           /\ CommittedCopy(gdn') = session /\ CommittedCopy(ple') = HashRows(FreshHash, session)
           /\ Working(gdn') = SubSeq(TokensGiven, 1, a)
           /\ Working(ple') = SubSeq(RowsGiven, 1, a)
           /\ EnterBe.processed = off /\ EnterBe.ckpt \in 0..off
           /\ EnterBe.ckpt # 0 =>
                /\ gdn'.ckpt = SubSeq(TokensGiven, 1, Len(session) + EnterBe.ckpt)
                /\ ple'.ckpt = SubSeq(RowsGiven, 1, Len(session) + EnterBe.ckpt)
<1>0. BanksInStep /\ HashesAreOwn /\ ReaderInv
    BY DEF RowsInv
<1>1. /\ gdn \in Banks(Tokens) /\ ple \in Banks(Rows)
      /\ CommittedCopy(gdn) = session /\ CommittedCopy(ple) = HashRows(FreshHash, session)
    BY <1>0 DEF BanksInStep
<1>2. off \in Nat /\ Len(session) \in Nat /\ txn.epoch \in Nat
    BY <1>0, Typing, GivenFacts
<1>3. CASE be.prov = 0
    <2>1. off = 0 /\ Len(session) + off = Len(session)
        BY <1>2, <1>3 DEF Accepted, CanOpen
    <2>2. EnterBe.processed = 0 /\ EnterBe.ckpt = 0
        BY <1>0, <1>3 DEF EnterBe, Opened, ReaderInv, CallInStep, BeRecords
    <2>3. /\ gdn' \in Banks(Tokens) /\ ple' \in Banks(Rows)
          /\ CommittedCopy(gdn') = session /\ CommittedCopy(ple') = HashRows(FreshHash, session)
          /\ Working(gdn') = session /\ Working(ple') = HashRows(FreshHash, session)
        BY <1>1, <1>2, <1>3, BankBeginFacts
    <2>4. SubSeq(TokensGiven, 1, Len(session)) = session
        BY <1>0, GivenFacts
    <2>5. SubSeq(RowsGiven, 1, Len(session)) = HashRows(FreshHash, session)
        <3>1. TokensGiven \in Seq(Tokens) /\ Len(session) \in 0..Len(TokensGiven)
            BY <1>0, GivenFacts, Typing
        <3>2. HashRows(FreshHash, SubSeq(TokensGiven, 1, Len(session))) =
                SubSeq(HashRows(FreshHash, TokensGiven), 1, Len(session))
            BY <3>1, PrefixRows
        <3>3. QED
            BY <2>4, <3>2 DEF RowsGiven
    <2>6. QED
        BY <2>1, <2>2, <2>3, <2>4, <2>5
<1>4. CASE be.prov # 0
    <2>1. Good /\ pc \notin Executing
        BY <1>0, Places DEF Good, ReaderInv, CallInStep
    <2>2. Done = Len(session) + off
        BY <1>0, <2>1, DoneFacts
    <2>3. EnterBe = be
        BY <1>4 DEF EnterBe
    <2>4. QED
        BY <1>0, <1>4, <2>1, <2>2, <2>3 DEF BanksInStep
<1>5. QED
    BY <1>3, <1>4

\* A chunk begins.
LEMMA EnterRowsStep ==
    ASSUME TilesFitChunks, RowsInv, ReaderInv', EnterExecute
    PROVE  RowsInv'
<1> DEFINE a == Len(session) + off
<1>0. BanksInStep /\ HashesAreOwn /\ ReaderInv
    BY DEF RowsInv
<1>1. pc = "enter" /\ tile' = 0 /\ UNCHANGED <<session, txn, off>>
    BY EnterCases
<1>2. pc \notin Executing /\ pc \notin Catching
    BY <1>1, Places
<1>3. UNCHANGED <<TokensGiven, RowsGiven, ChunkLen>>
    BY <1>1 DEF TokensGiven, RowsGiven, ChunkLen
<1>4. CASE UNCHANGED <<be, gdn, ple>> /\ pc' = "idle" /\ last' # "ok"
    <2>1. ~Good' /\ pc' \notin {"takefinal", "run"} /\ pc' \notin Catching
        BY <1>4, Places DEF Good
    <2>2. UNCHANGED Reading
        BY <1>1, <1>2, <1>4, <2>1 DEF Reading, Live
    <2>3. BanksInStep' /\ HashesAreOwn'
        BY <1>0, <1>1, <1>4, <2>1, <2>2, BanksFrame, HashesFrame
    <2>4. QED
        BY <2>3 DEF RowsInv
<1>5. ASSUME Accepted,
             gdn' = IF be.prov = 0 THEN BankBegin(gdn, txn.epoch) ELSE gdn,
             ple' = IF be.prov = 0 THEN BankBegin(ple, txn.epoch) ELSE ple,
             be' \in {Hashed, Taken, Submitted}
      PROVE  /\ be'.hash = be.hash /\ be'.prov = txn.epoch
             /\ pc' = "tile" => BanksInStep'
             /\ ~Good' => BanksInStep'
             /\ \A i \in 1..Len(be'.hashes) : be'.hashes[i] = HashOf(SubSeq(TokensGiven, 1, Len(session) + i))
    <2>1. /\ gdn' \in Banks(Tokens) /\ ple' \in Banks(Rows)
          /\ CommittedCopy(gdn') = session /\ CommittedCopy(ple') = HashRows(FreshHash, session)
          /\ Working(gdn') = SubSeq(TokensGiven, 1, a)
          /\ Working(ple') = SubSeq(RowsGiven, 1, a)
          /\ EnterBe.processed = off /\ EnterBe.ckpt \in 0..off
          /\ EnterBe.ckpt # 0 =>
                /\ gdn'.ckpt = SubSeq(TokensGiven, 1, Len(session) + EnterBe.ckpt)
                /\ ple'.ckpt = SubSeq(RowsGiven, 1, Len(session) + EnterBe.ckpt)
        BY <1>1, <1>5, EnterBanks
    <2>2. /\ be'.hash = be.hash /\ be'.prov = txn.epoch
          /\ be'.hashes = be.hashes \o HashesAfter(EnterHash, Chunk)
          /\ be'.processed = EnterBe.processed /\ be'.ckpt = EnterBe.ckpt
        BY <1>0, <1>1, <1>5, EnterFacts
    <2>3. pc' = "tile" => BanksInStep'
        <3>1. ASSUME pc' = "tile" PROVE BanksInStep'
            <4>1. pc' \in Executing
                BY <3>1, Places
            <4>2. Done' = a + 0
                BY <1>1, <4>1 DEF Done
            <4>3. Done' = a
                BY <1>0, <4>2, Typing, GivenFacts
            <4>4. QED
                BY <1>1, <1>3, <2>1, <2>2, <4>3 DEF BanksInStep
        <3>2. QED
            BY <3>1
    <2>4. ~Good' => BanksInStep'
        BY <1>1, <2>1 DEF BanksInStep
    <2>5. \A i \in 1..Len(be'.hashes) : be'.hashes[i] = HashOf(SubSeq(TokensGiven, 1, Len(session) + i))
        BY <1>1, <1>5, <2>2, EnterHashes
    <2>6. QED
        BY <2>2, <2>3, <2>4, <2>5
<1>6. CASE /\ Accepted /\ be' = Hashed /\ pc' = "idle" /\ last' # "ok"
           /\ gdn' = IF be.prov = 0 THEN BankBegin(gdn, txn.epoch) ELSE gdn
           /\ ple' = IF be.prov = 0 THEN BankBegin(ple, txn.epoch) ELSE ple
    <2>1. ~Good' /\ pc' \notin {"takefinal", "run"} /\ pc' \notin Catching
        BY <1>6, Places DEF Good
    <2>2. be'.hash = be.hash /\ BanksInStep'
        BY <1>5, <1>6, <2>1
    <2>3. be'.read = be.read
        BY <1>0, <1>1, <1>6, EnterFacts
    <2>4. UNCHANGED Reading
        BY <1>1, <1>2, <2>1, <2>3 DEF Reading, Live
    <2>5. HashesAreOwn'
        BY <1>0, <1>1, <1>3, <2>1, <2>2, <2>3, <2>4 DEF HashesAreOwn
    <2>6. QED
        BY <2>2, <2>5 DEF RowsInv
<1>7. CASE /\ Accepted /\ pc' = "tile"
           /\ \/ be' = Taken /\ EnterBe.read.on /\ ReadCovers(EnterBe, EnterRows)
              \/ be' = Submitted
           /\ gdn' = IF be.prov = 0 THEN BankBegin(gdn, txn.epoch) ELSE gdn
           /\ ple' = IF be.prov = 0 THEN BankBegin(ple, txn.epoch) ELSE ple
    <2>1. pc' \notin {"takefinal", "run"}
        BY <1>7
    <2>2. /\ be'.hash = be.hash /\ BanksInStep'
          /\ \A i \in 1..Len(be'.hashes) : be'.hashes[i] = HashOf(SubSeq(TokensGiven, 1, Len(session) + i))
        BY <1>5, <1>7
    <2>3. be'.read.rows = SubSeq(RowsGiven, Len(session) + be'.read.base + 1,
                                 Len(session) + be'.read.base + Len(be'.read.rows))
        <3>1. CASE be' = Taken /\ EnterBe.read.on /\ ReadCovers(EnterBe, EnterRows)
            <4>1. be'.read = be.read /\ EnterBe.read = be.read /\ EnterBe.prov = txn.epoch
                BY <1>0, <1>1, <1>7, <3>1, EnterFacts
            <4>2. Reading
                BY <1>2, <3>1, <4>1 DEF ReadCovers, Reading, Live
            <4>3. QED
                BY <1>0, <4>1, <4>2 DEF HashesAreOwn
        <3>2. CASE be' = Submitted
            <4>1. be'.read = EnterRead /\ Len(EnterRows) = ChunkLen
                BY <1>0, <1>1, <1>7, <3>2, EnterFacts
            <4>2. be'.read.rows = EnterRows /\ be'.read.base = off
                BY <4>1 DEF EnterRead
            <4>3. EnterRows = SubSeq(RowsGiven, a + 1, a + ChunkLen)
                BY <1>1, <1>7, EnterHashes
            <4>4. QED
                BY <4>1, <4>2, <4>3
        <3>3. QED
            BY <1>7, <3>1, <3>2
    <2>4. HashesAreOwn'
        BY <1>0, <1>1, <1>3, <2>1, <2>2, <2>3 DEF HashesAreOwn
    <2>5. QED
        BY <2>2, <2>4 DEF RowsInv
<1>8. QED
    BY <1>4, <1>6, <1>7, EnterCases DEF ReturnCancelled, ReturnFailed

-----------------------------------------------------------------------------

\* Every step of the two threads, the executor and the client.
LEMMA RowsInvStep ==
    ASSUME TilesFitChunks, RowsInv, CudaNext
    PROVE  RowsInv'
<1>0. ReaderInv'
    BY ReaderInvStep DEF RowsInv
<1>1. CASE StageWorker
    BY <1>0, <1>1, PrefetchRows, EnterRowsStep, TakeRows, RunRows, FinishResetRows, QuietRows DEF StageWorker
<1>2. CASE Executor
    BY <1>0, <1>2, BeginRows, CheckpointRows, CommitRows, RollbackRows, QuietRows DEF Executor
<1>3. QED
    BY <1>0, <1>1, <1>2, QuietRows DEF CudaNext

\* Where tiles fit chunks, the rows that wait, that are staged and that went
\* through the kernels are the rows of the tokens at their place, and the banks
\* hold the folds of just those.
THEOREM RowsInvariant ==
    ASSUME TilesFitChunks
    PROVE  CudaSpec => []RowsInv
<1>1. RowsInv /\ UNCHANGED cudaVars /\ ReaderInv' => RowsInv'
    BY QuietRows
<1>2. QED
    BY <1>1, ReaderInvariant, RowsInvInit, RowsInvStep, PTL DEF CudaSpec

\* Where tiles fit chunks, a boundary row that execute hands to stage 1 was
\* computed from the rows of its own tokens.
THEOREM RowsReachTheirTokens ==
    ASSUME TilesFitChunks
    PROVE  CudaSpec => []RowsAreOwn
<1>1. RowsInv => RowsAreOwn
    <2>1. SUFFICES ASSUME RowsInv, MayGoOn, be.prov # 0
                   PROVE  Working(ple) = HashRows(FreshHash, session \o SubSeq(txn.toks, 1, off))
        BY DEF RowsAreOwn
    <2> DEFINE G == TokensGiven  N == Len(session)
    <2>2. BanksInStep /\ ReaderInv /\ Good /\ pc \notin Executing
        BY <2>1, Places DEF RowsInv, MayGoOn, Good
    <2>3. Working(ple) = SubSeq(RowsGiven, 1, N + off)
        BY <2>1, <2>2, DoneFacts DEF BanksInStep
    <2>4. /\ G \in Seq(Tokens) /\ N \in Nat /\ off \in Nat /\ off <= Len(txn.toks)
          /\ Len(G) = N + Len(txn.toks) /\ Len(txn.toks) \in Nat /\ SubSeq(G, 1, N) = session
        BY <2>2, GivenFacts, Typing
    <2>5. SubSeq(G, 1, N + off) = session \o SubSeq(txn.toks, 1, off)
        BY <2>2, <2>4, GivenPrefix
    <2>6. SubSeq(RowsGiven, 1, N + off) = HashRows(FreshHash, SubSeq(G, 1, N + off))
        <3>1. N + off \in 0..Len(G)
            BY <2>4
        <3>2. QED
            BY <2>4, <3>1, PrefixRows DEF RowsGiven
    <2>7. QED
        BY <2>3, <2>5, <2>6
<1>2. QED
    BY <1>1, RowsInvariant, PTL
=============================================================================
