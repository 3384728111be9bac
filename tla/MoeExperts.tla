----------------------------- MODULE MoeExperts -----------------------------
(***************************************************************************)
(* The routed experts of a layer, on the three paths run_moe may take:     *)
(* grouped (src/cuda/q38_moe_prefill.cu: a route plan, tiles of rows of    *)
(* one expert, a reduction in rank order), decode and legacy               *)
(* (src/cuda/q38_moe.cu).                                                  *)
(*                                                                         *)
(* Assignment a is rank a % MTopK of token a \div MTopK.  Arithmetic stays *)
(* symbolic: an accumulator is the sequence of the cells it was fed with.  *)
(* Weights, their quantisation and their layouts are left out: they are    *)
(* read only, and an expert stands for its weights.  A block has a gate    *)
(* warp and an up warp; warps also own the output columns.  The blocks of  *)
(* a grid write different rows and run one after the other here.           *)
(***************************************************************************)
EXTENDS Integers, Sequences, FiniteSets, FiniteSetsExt, SequencesExt, ThreadBlock

CONSTANTS MExperts,      \* kQ38RouteExperts
          MTopK,         \* kQ38RouteTopK
          MmqM,          \* rows of a task
          KTiles,        \* column tiles of a row
          MaxMoeTokens   \* bound: tokens of a launch

ASSUME MoeAssumption == {MExperts, MTopK, MmqM, KTiles, MaxMoeTokens} \subseteq Nat \ {0}

VARIABLES moe,     \* the layer under way: path, ids, program counters, tiles
          plan,    \* the route plan
          rows,    \* packed_hidden, weighted_mid and route_output, by packed row
          result   \* result[t][w]: the terms of token t's output
moeVars == <<moe, plan, rows, result>>

MIds == 0..(MExperts - 1)
MWarps == {0, 1}
Columns == 1..KTiles
Routes == Len(moe.ids)
Assignments == 0..(Routes - 1)
ExpertOf(a) == moe.ids[a + 1]
Valid(a) == ExpertOf(a) \in MIds
TokenOf(a) == a \div MTopK
CeilDiv(n, d) == (n + d - 1) \div d

\* q38_moe_prefill_max_tasks_v1.
MaxTasks(tokens) ==
    LET routes == tokens * MTopK
        active == Min({routes, MExperts})
    IN active + (routes - active) \div MmqM

AllRows == 0..(MaxMoeTokens * MTopK - 1)
AllTasks == 0..(MaxTasks(MaxMoeTokens) - 1)

NoTask == [begin |-> 0, expert |-> 0, rows |-> 0]
NoMid == <<<<>>, <<>>, -1, -1>>
NoTile == [w \in MWarps |-> [r \in 0..(MmqM - 1) |-> <<>>]]
NoMoe == [path |-> "none", ids |-> <<>>, pc |-> "none", sharedA |-> FALSE, block |-> 0,
          thread |-> [e \in MIds |-> 0], at |-> [w \in MWarps |-> 0], tile |-> NoTile,
          cache |-> [c \in Columns |-> <<>>],
          acc |-> [w \in MWarps |-> [r \in 0..(MmqM - 1) |-> <<>>]]]

\* What an earlier slab may have left in the plan: tasks that are not empty, and
\* shared memory that nobody has written.
StalePlan == [status |-> "stale", sharedStatus |-> "unwritten",
              experts |-> [a \in AllRows |-> -1],
              packed |-> [p \in AllRows |-> 0], toPacked |-> [a \in AllRows |-> 0],
              counts |-> [e \in MIds |-> 0], offsets |-> [e \in MIds |-> 0],
              taskOffsets |-> [e \in MIds |-> 0], count |-> 0,
              tasks |-> [k \in AllTasks |-> [begin |-> 0, expert |-> 0, rows |-> 1]]]

MoeInit ==
    /\ moe = NoMoe
    /\ plan = StalePlan
    /\ rows = [p \in AllRows |-> [hidden |-> -1, mid |-> NoMid,
                                  out |-> [w \in MWarps |-> <<-1, <<>>>>]]]
    /\ result = <<>>

\* run_moe: one token is decoded; several are grouped if the workspace has a
\* route plan; the legacy kernels take what is left.
LaunchMoe(path, ids) ==
    /\ path = "decode" => Len(ids) = MTopK
    /\ path = "grouped" => Len(ids) > MTopK
    /\ moe' = [NoMoe EXCEPT !.path = path, !.ids = ids,
                 !.pc = CASE path = "grouped" -> "plan" [] path = "decode" -> "gateDecode"
                          [] OTHER -> "legacy"]
    /\ result' = [t \in 0..((Len(ids) \div MTopK) - 1) |-> [w \in MWarps |-> <<>>]]
    /\ UNCHANGED <<plan, rows>>

-----------------------------------------------------------------------------
(* build_route_plan_kernel: one thread for each expert.                    *)

Mine(e) == {a \in Assignments : a % MExperts = e}
PlanSteps == <<"header", "read", "count", "offsets", "scatter">>

\* The header belongs to thread 0, which also clears the shared status; no
\* barrier keeps the others from reporting an invalid expert before that.
PlanHeader(e) ==
    IF e = 0 THEN [plan EXCEPT !.status = "ok", !.sharedStatus = "ok"] ELSE plan

ReadRoutes(e) ==
    [plan EXCEPT
        !.experts = [a \in AllRows |-> IF a \in Mine(e) THEN ExpertOf(a) ELSE @[a]],
        !.packed = [a \in AllRows |-> IF a \in Mine(e) THEN a ELSE @[a]],
        !.toPacked = [a \in AllRows |-> IF a \in Mine(e) THEN a ELSE @[a]],
        !.sharedStatus = IF @ = "ok" /\ \E a \in Mine(e) : ~Valid(a)
                         THEN "invalidExpert" ELSE @,
        !.tasks = [k \in AllTasks |->
            IF k % MExperts = e /\ k < MaxTasks(Routes \div MTopK) THEN NoTask ELSE @[k]]]

Own(e) == {a \in Assignments : plan.experts[a] = e}

\* The rank of an assignment among those of its expert.
CountRoutes(e) ==
    [plan EXCEPT
        !.toPacked = [a \in AllRows |->
            IF a \in Own(e) THEN Cardinality({b \in Own(e) : b < a}) ELSE @[a]],
        !.counts[e] = Cardinality(Own(e))]

\* Thread 0 adds up the offsets and judges the plan.
Offsets(e) ==
    LET below(f, k) == MapThenSumSet(LAMBDA x : f[x], {x \in MIds : x < k})
        tiles == [x \in MIds |-> CeilDiv(plan.counts[x], MmqM)]
        shapeOk == /\ below(plan.counts, MExperts) = Routes
                   /\ below(tiles, MExperts) <= MaxTasks(Routes \div MTopK) IN
    IF e # 0 THEN plan
    ELSE [plan EXCEPT !.offsets = [x \in MIds |-> below(plan.counts, x)],
                      !.taskOffsets = [x \in MIds |-> below(tiles, x)],
                      !.count = below(tiles, MExperts),
                      !.status = IF plan.sharedStatus = "ok" /\ ~shapeOk
                                 THEN "invalidShape" ELSE plan.sharedStatus]

Scatter(e) ==
    LET mine == {a \in Mine(e) : plan.experts[a] \in MIds}
        place(a) == plan.offsets[plan.experts[a]] + plan.toPacked[a]
        tiles == CeilDiv(plan.counts[e], MmqM)
        first == plan.taskOffsets[e] IN
    [plan EXCEPT
        !.packed = [p \in AllRows |->
            IF \E a \in mine : place(a) = p THEN CHOOSE a \in mine : place(a) = p ELSE @[p]],
        !.toPacked = [a \in AllRows |-> IF a \in mine THEN place(a) ELSE @[a]],
        !.tasks = [k \in AllTasks |->
            IF k - first \in 0..(tiles - 1)
            THEN [begin |-> plan.offsets[e] + (k - first) * MmqM, expert |-> e,
                  rows |-> Min({plan.counts[e] - (k - first) * MmqM, MmqM})]
            ELSE @[k]]]

\* Mutant: the offsets are used without waiting for thread 0.
BarrierOnCounts(n) == n \in {2, 3}

\* __syncthreads() before a step of the plan kernel.
PlanBarrier(n) == n >= 2

PlanStep(e) ==
    LET n == moe.thread[e]
        op == PlanSteps[n + 1] IN
    /\ moe.pc = "plan" /\ n < Len(PlanSteps)
    /\ MayStep(moe.thread, PlanBarrier(n), e)
    /\ plan' = CASE op = "header" -> PlanHeader(e) [] op = "read" -> ReadRoutes(e)
                 [] op = "count" -> CountRoutes(e) [] op = "offsets" -> Offsets(e)
                 [] OTHER -> Scatter(e)
    /\ moe' = [moe EXCEPT !.thread = Stepped(@, e)]
    /\ UNCHANGED <<rows, result>>

\* pack_hidden_kernel; the tile of activations is shared or not for the rest of
\* the launch.
PackHidden(sharedA) ==
    /\ moe.pc = "plan" /\ \A e \in MIds : moe.thread[e] = Len(PlanSteps)
    /\ rows' = [p \in AllRows |-> IF p < Routes
                    THEN [rows[p] EXCEPT !.hidden = TokenOf(plan.packed[p])] ELSE rows[p]]
    /\ moe' = [moe EXCEPT !.pc = "gate", !.sharedA = sharedA]
    /\ UNCHANGED <<plan, result>>

-----------------------------------------------------------------------------
(* The block programs.                                                     *)

\* Mutant: nobody waits at the end of a shared tile.
NoTileBarrier(load, use, n, shared) ==
    FlattenSeq([k \in 1..n |-> <<[op |-> load, k |-> k, sync |-> FALSE],
                                 [op |-> use, k |-> k, sync |-> shared]>>])

\* A loop over tiles: a shared tile (of activations, or of a route's activated
\* row) is loaded and used by all warps, with a barrier on both sides; a private
\* one needs none.
Tiles(load, use, n, shared) ==
    FlattenSeq([k \in 1..n |-> <<[op |-> load, k |-> k, sync |-> shared /\ k > 1],
                                 [op |-> use, k |-> k, sync |-> shared]>>])
OneStep(op, sync) == <<[op |-> op, k |-> 1, sync |-> sync]>>

\* What a block of each kernel runs, and where it synchronises.
BlockProgram(pc) ==
    CASE pc = "gate" -> Tiles("load", "mma", KTiles, moe.sharedA) \o OneStep("combine", TRUE)
      [] pc = "down" -> Tiles("load", "mma", KTiles, moe.sharedA) \o OneStep("store", FALSE)
      [] pc = "gateDecode" -> OneStep("hidden", FALSE) \o OneStep("row", TRUE)
      [] pc = "downDecode" -> Tiles("route", "dot", MTopK, TRUE)

Grouped == moe.pc \in {"gate", "down"}
Blocks == CASE Grouped -> MaxTasks(Routes \div MTopK)
            [] moe.pc = "gateDecode" -> MTopK
            [] OTHER -> 1
Task == plan.tasks[moe.block]

\* grouped_gate_up and grouped_down load rows of the task and pad it with zeros;
\* a cell is what it was taken from and the column.
TileAfter(op, k, w) ==
    IF op # "load" THEN moe.tile
    ELSE LET owner == IF moe.sharedA THEN 0 ELSE w
             cell(r) ==
                IF r >= Task.rows THEN <<>>
                ELSE IF moe.pc = "gate" THEN <<rows[Task.begin + r].hidden, k>>
                ELSE <<rows[Task.begin + r].mid, k>>
         IN [moe.tile EXCEPT ![owner] = [r \in 0..(MmqM - 1) |->
                IF ~moe.sharedA \/ r % 2 = w THEN cell(r) ELSE @[r]]]

\* The decode kernels cache the token's hidden row, or a route's activated row.
CacheAfter(op, k, w) ==
    [c \in Columns |->
        IF c % 2 # w THEN moe.cache[c]
        ELSE CASE op = "hidden" -> <<0, c>>
               [] op = "route" -> <<rows[k - 1].mid, c>>
               [] OTHER -> moe.cache[c]]

AccAfter(op, w) ==
    CASE op = "mma" -> [r \in 0..(MmqM - 1) |->
            Append(moe.acc[w][r], moe.tile[IF moe.sharedA THEN 0 ELSE w][r])]
      [] op = "row" -> [moe.acc[w] EXCEPT ![0] = moe.cache]
      [] OTHER -> moe.acc[w]

\* The rows a step writes: the weighted middle row of each assignment of the
\* task from the gate and the up accumulator, or the warp's columns of the
\* route output.
RowsAfter(op, w) ==
    [p \in AllRows |->
        LET r == p - Task.begin
            a == plan.packed[p] IN
        CASE op = "combine" /\ w = 0 /\ r \in 0..(Task.rows - 1) ->
                [rows[p] EXCEPT !.mid = <<moe.acc[0][r], moe.acc[1][r], Task.expert, a>>]
          [] op = "store" /\ r \in 0..(Task.rows - 1) ->
                [rows[p] EXCEPT !.out[w] = <<Task.expert, moe.acc[w][r]>>]
          [] OTHER -> rows[p]]

\* A route of the decode path adds to the total unless its expert is invalid.
ResultAfter(op, k, w) ==
    IF op = "dot" /\ Valid(k - 1)
    THEN [result EXCEPT ![0][w] = Append(@, <<ExpertOf(k - 1), moe.cache>>)] ELSE result

BlockStep(w) ==
    /\ moe.pc \in {"gate", "down", "gateDecode", "downDecode"}
    /\ moe.block < Blocks /\ (Grouped => Task.rows > 0)
    /\ moe.at[w] < Len(BlockProgram(moe.pc))
    /\ LET step == BlockProgram(moe.pc)[moe.at[w] + 1] IN
        /\ MayStep(moe.at, step.sync, w)
        /\ moe' = [moe EXCEPT !.at = Stepped(@, w), !.tile = TileAfter(step.op, step.k, w),
                              !.cache = CacheAfter(step.op, step.k, w),
                              !.acc[w] = AccAfter(step.op, w)]
        /\ rows' = IF Grouped THEN RowsAfter(step.op, w) ELSE rows
        /\ result' = ResultAfter(step.op, step.k, w)
    /\ UNCHANGED plan

\* The block is over, or has an empty task.  On the decode path expert_silu
\* follows, here block by block; an invalid expert's rows are zero.
BlockEnds ==
    /\ moe.pc \in {"gate", "down", "gateDecode", "downDecode"} /\ moe.block < Blocks
    /\ \/ Grouped /\ Task.rows = 0
       \/ \A w \in MWarps : moe.at[w] = Len(BlockProgram(moe.pc))
    /\ moe' = [moe EXCEPT !.block = @ + 1, !.at = NoMoe.at, !.tile = NoTile,
                          !.cache = NoMoe.cache, !.acc = NoMoe.acc]
    /\ rows' = IF moe.pc # "gateDecode" THEN rows
               ELSE [rows EXCEPT ![moe.block].mid =
                        IF Valid(moe.block)
                        THEN <<moe.acc[0][0], moe.acc[1][0], ExpertOf(moe.block), moe.block>>
                        ELSE NoMid]
    /\ UNCHANGED <<plan, result>>

\* The next kernel; after the last, the reduction in rank order on the grouped
\* path, and the shared expert, which is not modelled.
NextKernel ==
    /\ moe.pc \in {"gate", "down", "gateDecode", "downDecode"} /\ moe.block = Blocks
    /\ moe' = [moe EXCEPT !.block = 0,
                 !.pc = CASE @ = "gate" -> "down" [] @ = "gateDecode" -> "downDecode"
                          [] OTHER -> "done"]
    /\ result' = IF moe.pc # "down" THEN result
                 ELSE [t \in DOMAIN result |-> [w \in MWarps |-> [k \in 1..MTopK |->
                        rows[plan.toPacked[t * MTopK + k - 1]].out[w]]]]
    /\ UNCHANGED <<plan, rows>>

\* What a route contributes when nothing goes wrong.
Contribution(a) ==
    LET hidden == [c \in Columns |-> <<TokenOf(a), c>>]
        mid == <<hidden, hidden, ExpertOf(a), a>>
    IN <<ExpertOf(a), [c \in Columns |-> <<mid, c>>]>>

\* The legacy kernels: one block for each route and row, no shared tile, and an
\* atomicAdd into the token's row in whatever order the blocks come.
LegacyAdd(a) ==
    /\ moe.pc = "legacy" /\ Valid(a)
    /\ ~Contains(result[TokenOf(a)][0], Contribution(a))
    /\ result' = [result EXCEPT ![TokenOf(a)] =
                    [w \in MWarps |-> Append(@[w], Contribution(a))]]
    /\ UNCHANGED <<moe, plan, rows>>

LegacyEnds ==
    /\ moe.pc = "legacy"
    /\ \A a \in Assignments : Valid(a) => Contains(result[TokenOf(a)][0], Contribution(a))
    /\ moe' = [moe EXCEPT !.pc = "done"]
    /\ UNCHANGED <<plan, rows, result>>

\* The router gives a token different experts; one id may be invalid.
RouterIds(tokens) ==
    LET n == tokens * MTopK
        good == {f \in [1..n -> MIds] : \A i, j \in 1..n :
                    (i # j /\ TokenOf(i - 1) = TokenOf(j - 1)) => f[i] # f[j]}
    IN good \cup IF tokens = MaxMoeTokens THEN {}
                 ELSE {[f EXCEPT ![i] = -1] : f \in good, i \in 1..n}

MoeNext ==
    \/ /\ moe.path = "none"
       /\ \E t \in 1..MaxMoeTokens, path \in {"grouped", "decode", "legacy"} :
            \E ids \in RouterIds(t) : LaunchMoe(path, ids)
    \/ \E e \in MIds : PlanStep(e)
    \/ \E sharedA \in BOOLEAN : PackHidden(sharedA)
    \/ \E w \in MWarps : BlockStep(w)
    \/ BlockEnds \/ NextKernel
    \/ \E a \in Assignments : LegacyAdd(a)
    \/ LegacyEnds

-----------------------------------------------------------------------------
(* Properties.                                                             *)

PlanMade == moe.path = "grouped" /\ moe.pc # "plan"

\* The plan is good exactly if every id is: whoever reports an invalid expert
\* first, and even if thread 0 clears the report, the plan is refused.  A good
\* plan is a stable grouping by expert, its inverse is right, and its tasks, never
\* more than were allocated, cover every packed row once with rows of one expert;
\* nothing an earlier slab left behind them is a task.
PlanFailsClosed ==
    PlanMade =>
        /\ (plan.status = "ok") <=> \A a \in Assignments : Valid(a)
        /\ plan.status = "ok" =>
            /\ \A a \in Assignments : plan.packed[plan.toPacked[a]] = a
            /\ \A p, q \in Assignments : p < q =>
                LET e == ExpertOf(plan.packed[p])
                    f == ExpertOf(plan.packed[q])
                IN e < f \/ (e = f /\ plan.packed[p] < plan.packed[q])
            /\ \A p \in Assignments : Cardinality(
                {k \in 0..(MaxTasks(Routes \div MTopK) - 1) :
                    LET t == plan.tasks[k] IN
                    p - t.begin \in 0..(t.rows - 1) /\ t.expert = ExpertOf(plan.packed[p])}) = 1
            /\ MapThenSumSet(LAMBDA k : plan.tasks[k].rows,
                             0..(MaxTasks(Routes \div MTopK) - 1)) = Routes

\* Every token's output is the sum of what its own experts make of its own
\* hidden row, each with its own weight, in rank order on the grouped and on the
\* decode path (which skips an invalid id), in any order on the legacy path:
\* whichever experts share a slab, however rows are padded to tiles, and however
\* the warps meet on a shared tile.
ExpertsAreOwn ==
    moe.pc = "done" /\ (moe.path = "grouped" => plan.status = "ok") =>
        \A t \in DOMAIN result, w \in MWarps :
            LET ranks == SelectSeq([k \in 1..MTopK |-> t * MTopK + k - 1], Valid)
                terms == [k \in 1..Len(ranks) |-> Contribution(ranks[k])]
            IN IF moe.path = "legacy"
               THEN Len(result[t][w]) = Len(terms) /\ ToSet(result[t][w]) = ToSet(terms)
               ELSE result[t][w] = terms
=============================================================================
