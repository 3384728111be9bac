---------------------------- MODULE QsaAttention ----------------------------
(***************************************************************************)
(* The attention over the selected positions (src/cuda/q38_qsa.cu), for    *)
(* the query heads of one KV head and one token, by each of the paths the  *)
(* backend may take: decode, split, grouped, fused and persistent.         *)
(*                                                                         *)
(* A path is the sequence of the steps its kernels have a warp take.  The  *)
(* end of a kernel is a barrier.  Where a kernel has one block per head    *)
(* the heads come one after the other here: their blocks share nothing.    *)
(* Sums stay unevaluated, so that their order can be compared: a           *)
(* denominator is the sequence of its terms, an output element that of its *)
(* weighted positions.  A weight is the score with the maximum and the     *)
(* denominator it was normalised with.                                     *)
(***************************************************************************)
EXTENDS Integers, Sequences, FiniteSetsExt, SequencesExt, ThreadBlock

CONSTANTS AttnHeads,     \* query heads of the KV head
          AttnWarps,
          KeyTile,       \* kQsaGroupedKeyTile
          ValueTile,     \* kQsaGroupedValueTile
          AttnDot,       \* AttnDot[h][p]: query of head h by key of position p
          MaxAttended,   \* bound: selected positions
          MaxAttnCalls   \* bound: launches on the same scratch

ASSUME QsaAttentionAssumption ==
    {AttnHeads, AttnWarps, KeyTile, ValueTile, MaxAttended, MaxAttnCalls} \subseteq Nat \ {0}

VARIABLES attn,        \* the launch under way, its shared memory and registers
          attnScores,  \* workspace.attention_scores, by head and selected index
          attnCalls    \* launches so far
attnVars == <<attn, attnScores, attnCalls>>

AHeads == 0..(AttnHeads - 1)
AWarps == 0..(AttnWarps - 1)
Torn == -1
Raw(s) == [s |-> s, max |-> Torn, den |-> <<>>]

-----------------------------------------------------------------------------
(* The programs.                                                           *)

\* A step: what it does, to which head or tile, and whether __syncthreads() or
\* the beginning of a kernel stands before it.
Op(op, k, sync) == [op |-> op, k |-> k, sync |-> sync]
OverHeads(P(_)) == FlattenSeq([i \in 1..AttnHeads |-> P(i - 1)])
OverTiles(P(_), tile, n) == FlattenSeq([i \in 1..((n + tile - 1) \div tile) |-> P(i - 1)])

\* Mutant: a warp begins to load the next tile of keys when it is through with
\* its part of this one.
NoTrailingBarrier(t) == <<Op("keys", t, t = 0), Op("dots", t, TRUE)>>

\* One tile of the grouped scores: the keys are staged by all the warps, then
\* each warp takes rows of the tile; a barrier ends the tile.
KeyTileSteps(t) == <<Op("keys", t, TRUE), Op("dots", t, TRUE)>>
GroupedScores(n) == <<Op("queries", 0, TRUE)>> \o OverTiles(KeyTileSteps, KeyTile, n)

DirectScores == OverHeads(LAMBDA h : <<Op("direct", h, TRUE)>>)

\* block_max and block_sum around the two loops over a head's scores, and what
\* is done with the result.
Reduction(h, sync, last) ==
    <<Op("max", h, sync), Op("maxAll", h, TRUE), Op("sum", h, TRUE),
      Op("sumAll", h, TRUE), Op(last, h, TRUE)>>
Softmax == OverHeads(LAMBDA h : Reduction(h, TRUE, "norm"))
SoftmaxInOneBlock(last) == OverHeads(LAMBDA h : Reduction(h, h = 0, last))

\* The values: from a staged tile of weights and positions, or directly.
ValueTileSteps(t) == <<Op("stage", t, TRUE), Op("tile", t, TRUE)>>
GroupedValues(n) == OverTiles(ValueTileSteps, ValueTile, n)
Values == <<Op("values", 0, TRUE)>>

Program(path, n) ==
    CASE path \in {"decode", "split"} -> DirectScores \o Softmax \o Values
      [] path = "grouped" -> GroupedScores(n) \o Softmax \o GroupedValues(n)
      [] path = "fused" -> GroupedScores(n) \o SoftmaxInOneBlock("norm") \o Values
      [] path = "persistent" -> GroupedScores(n) \o SoftmaxInOneBlock("keep")
                                    \o <<Op("weighted", 0, TRUE)>>

Paths == {"decode", "split", "grouped", "fused", "persistent"}

-----------------------------------------------------------------------------
(* A launch.                                                               *)

NoShared == [keys |-> [r \in 0..(KeyTile - 1) |-> [w \in AWarps |-> Torn]],
           queries |-> {},
           weights |-> [h \in AHeads |-> [r \in 0..(ValueTile - 1) |-> Raw(Torn)]],
           positions |-> [r \in 0..(ValueTile - 1) |-> Torn]]
NoAttn == [path |-> "none", n |-> 0, at |-> [w \in AWarps |-> 0], shared |-> NoShared,
           maxPart |-> [w \in AWarps |-> Torn], sumPart |-> [w \in AWarps |-> <<>>],
           maximum |-> [w \in AWarps |-> Torn],
           kept |-> [h \in AHeads |-> [max |-> Torn, den |-> <<>>]],
           out |-> [w \in AWarps |-> [h \in AHeads |-> <<>>]]]

AttnInit ==
    /\ attn = NoAttn
    /\ attnScores = [h \in AHeads |-> [i \in 0..(MaxAttended - 1) |-> Raw(Torn)]]
    /\ attnCalls = 0

AttnDone ==
    \A w \in AWarps : attn.at[w] = Len(Program(attn.path, attn.n))

\* The scratch still holds what the last launch left in it.
LaunchAttention(path, n) ==
    /\ attnCalls < MaxAttnCalls
    /\ attn.path # "none" => AttnDone
    /\ attn' = [NoAttn EXCEPT !.path = path, !.n = n]
    /\ attnCalls' = attnCalls + 1
    /\ UNCHANGED attnScores

\* Selected index i holds position i: which positions these are is QsaSelect's.
Indices(w) == Strided(w, AttnWarps, attn.n)
TileRows(t, tile) == {r \in 0..(tile - 1) : t * tile + r < attn.n}

\* A warp's partial result over its own indices, in ascending order.
LocalMax(h, w) == Max({Torn} \cup {attnScores[h][i].s : i \in Indices(w)})
LocalSum(h, w) ==
    [j \in 1..Cardinality(Indices(w)) |->
        [s |-> attnScores[h][w + (j - 1) * AttnWarps].s, max |-> attn.maxPart[0]]]

\* The dot product with a staged key; a row of which the warps have loaded
\* different positions, or none, has no meaning.
StagedDot(h, r) ==
    LET row == attn.shared.keys[r] IN
    IF attn.shared.queries = AWarps /\ row[0] # Torn /\ \A w \in AWarps : row[w] = row[0]
    THEN AttnDot[h][row[0]] ELSE Torn

\* The scores after a step.
ScoresAfter(op, k, w) ==
    [h \in AHeads |-> [i \in 0..(MaxAttended - 1) |->
        CASE op = "direct" /\ h = k /\ i \in Indices(w) -> Raw(AttnDot[h][i])
          [] op = "dots" /\ i < attn.n /\ i \div KeyTile = k
                    /\ (i % KeyTile) % AttnWarps = w -> Raw(StagedDot(h, i % KeyTile))
          [] op = "norm" /\ h = k /\ i \in Indices(w) ->
                [s |-> attnScores[h][i].s, max |-> attn.maximum[w], den |-> attn.sumPart[0]]
          [] OTHER -> attnScores[h][i]]]

\* The shared tiles after a step: every warp loads a part of each key row, and
\* rows of its own of the weights and positions.
SharedAfter(op, k, w) ==
    LET s == attn.shared IN
    CASE op = "queries" -> [s EXCEPT !.queries = @ \cup {w}]
      [] op = "keys" -> [s EXCEPT !.keys = [r \in 0..(KeyTile - 1) |-> [v \in AWarps |->
            IF v = w /\ r \in TileRows(k, KeyTile) THEN k * KeyTile + r ELSE @[r][v]]]]
      [] op = "stage" -> [s EXCEPT
            !.positions = [r \in 0..(ValueTile - 1) |->
                IF r \in TileRows(k, ValueTile) /\ r % AttnWarps = w
                THEN k * ValueTile + r ELSE @[r]],
            !.weights = [h \in AHeads |-> [r \in 0..(ValueTile - 1) |->
                IF r \in TileRows(k, ValueTile) /\ (h * ValueTile + r) % AttnWarps = w
                THEN attnScores[h][k * ValueTile + r] ELSE @[h][r]]]]
      [] OTHER -> s

\* The terms a step adds to the accumulator of a head.
Terms(op, k, h) ==
    CASE op = "values" -> [i \in 1..attn.n |-> <<attnScores[h][i - 1], i - 1>>]
      [] op = "tile" -> [r \in 1..Cardinality(TileRows(k, ValueTile)) |->
            <<attn.shared.weights[h][r - 1], attn.shared.positions[r - 1]>>]
      [] op = "weighted" -> [i \in 1..attn.n |->
            <<[s |-> attnScores[h][i - 1].s, max |-> attn.kept[h].max,
               den |-> attn.kept[h].den], i - 1>>]
      [] OTHER -> <<>>

AttnStep(w) ==
    LET program == Program(attn.path, attn.n)
        step == program[attn.at[w] + 1]
        op == step.op
        k == step.k IN
    /\ attn.path # "none" /\ attn.at[w] < Len(program)
    /\ MayStep(attn.at, step.sync, w)
    /\ attnScores' = ScoresAfter(op, k, w)
    /\ attn' = [attn EXCEPT
            !.at = Stepped(@, w),
            !.shared = SharedAfter(op, k, w),
            !.maxPart = CASE op = "max" -> [@ EXCEPT ![w] = LocalMax(k, w)]
                          [] op = "maxAll" /\ w = 0 ->
                                [@ EXCEPT ![0] = Max({attn.maxPart[v] : v \in AWarps})]
                          [] OTHER -> @,
            !.maximum[w] = IF op = "sum" THEN attn.maxPart[0] ELSE @,
            !.sumPart = CASE op = "sum" -> [@ EXCEPT ![w] = LocalSum(k, w)]
                          [] op = "sumAll" /\ w = 0 ->
                                [@ EXCEPT ![0] = FlattenSeq(
                                    [v \in 1..AttnWarps |-> attn.sumPart[v - 1]])]
                          [] OTHER -> @,
            !.kept = IF op = "keep" /\ w = 0
                     THEN [@ EXCEPT ![k] = [max |-> attn.maximum[0], den |-> attn.sumPart[0]]]
                     ELSE @,
            !.out[w] = [h \in AHeads |-> @[h] \o Terms(op, k, h)]]
    /\ UNCHANGED attnCalls

AttnNext ==
    \/ \E path \in Paths, n \in 1..MaxAttended : LaunchAttention(path, n)
    \/ \E w \in AWarps : AttnStep(w)

-----------------------------------------------------------------------------
(* Properties.                                                             *)

\* Every warp has, for every head, the softmax over exactly the selected
\* positions, with the reductions in one and the same order: the paths give the
\* same numbers to the last bit ("Match the split softmax's per-head reduction
\* order exactly"), however the warps meet on the tiles of keys and weights, on
\* the partial sums of the reductions and on the scores a normalised row
\* overwrites, and whatever an earlier launch left in the scratch.
AttentionIsSoftmax ==
    attn.path # "none" /\ AttnDone =>
        \A h \in AHeads :
            LET max == Max({AttnDot[h][p] : p \in 0..(attn.n - 1)})
                part(w) == [j \in 1..Cardinality(Indices(w)) |->
                    [s |-> AttnDot[h][w + (j - 1) * AttnWarps], max |-> max]]
                den == FlattenSeq([w \in 1..AttnWarps |-> part(w - 1)])
            IN \A w \in AWarps : attn.out[w][h] =
                [i \in 1..attn.n |-> <<[s |-> AttnDot[h][i - 1], max |-> max, den |-> den], i - 1>>]
=============================================================================
