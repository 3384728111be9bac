----------------------------- MODULE GdnKernels -----------------------------
(***************************************************************************)
(* The gated delta-net kernels of one value head (src/cuda/q38_gdn.cu):    *)
(* the short convolution with its window and the recurrence with its       *)
(* matrix, fed with the tokens of a sequence in launches of any length and *)
(* through any of the kernels the backend may pick.                        *)
(*                                                                         *)
(* Numbers are residues modulo GdnPrime: sums and products are exact, so   *)
(* the order of a reduction does not matter here and rounding is left out; *)
(* exp, rsqrt and the sigmoids are fixed functions of them.  A head is     *)
(* GdnWidth elements wide, and a block has as many warps: one element, one *)
(* key row or one output column for each.                                  *)
(***************************************************************************)
EXTENDS Integers, Sequences, FiniteSetsExt, ThreadBlock

CONSTANTS GdnWidth,      \* kQ38GdnHeadWidth
          ConvWidth,     \* kQ38GdnConvWidth
          GdnPrime,
          Projected,     \* Projected[x]: the projections of input token x
          MaxGdnTokens,  \* bound: tokens of the sequence
          MaxLaunch      \* bound: tokens of a launch

ASSUME GdnAssumption ==
    /\ {GdnWidth, ConvWidth, GdnPrime, MaxLaunch} \subseteq Nat \ {0}
    /\ MaxGdnTokens \in Nat

VARIABLES conv,      \* the convolution windows, by channel
          matrix,    \* the recurrent state [row -> [column -> number]]
          launch,    \* the kernel under way: [kernel, qkv, ab, params]
          blocks,    \* blocks[b]: the steps, shared memory and registers
          fed,       \* history: the tokens launched
          core       \* the output rows of all tokens

gdnVars == <<conv, matrix, launch, blocks, fed, core>>

Lanes == 0..(GdnWidth - 1)
Channels == {"q", "k", "v"} \X Lanes
Residue(n) == n % GdnPrime
Total(f) == Residue(MapThenSumSet(LAMBDA i : f[i], Lanes))

\* Fixed functions for silu, the two scales, the decay and beta.
Silu(x) == Residue(x * x + x)
Parameters(queryNorm, keyNorm, ab) ==
    [q |-> Residue(queryNorm + 1), k |-> Residue(2 * keyNorm + 1),
     decay |-> Residue(ab[1] + 2), beta |-> Residue(3 * ab[2] + 1)]

Zeros == [i \in Lanes |-> 0]
NoBlock == [at |-> [w \in Lanes |-> 0], partial |-> Zeros, squaresQ |-> Zeros,
            squaresK |-> Zeros, norm |-> Zeros, delta |-> 0, resident |-> Zeros,
            params |-> Parameters(0, 0, <<0, 0>>)]
NoLaunch == [kernel |-> "none", qkv |-> <<>>, ab |-> <<>>, params |-> <<>>]

GdnInit ==
    /\ conv = [c \in Channels |-> [i \in 1..ConvWidth |-> 0]]
    /\ matrix = [r \in Lanes |-> Zeros]
    /\ launch = NoLaunch
    /\ blocks = [b \in Lanes |-> NoBlock]
    /\ fed = <<>> /\ core = <<>>

-----------------------------------------------------------------------------
(* The convolution: one thread for each channel, no shared memory.         *)

\* One token: the window moves by one, and its weighted sum is activated.
Shift(window, x) == Append(Tail(window), x)
Activated(window) ==
    Silu(Residue(MapThenSumSet(LAMBDA i : (i + 1) * window[i], 1..ConvWidth)))

\* The windows after each token of a launch; the loop of the prefill kernel,
\* which the decode kernel runs once.
Windows(w0, xs) ==
    LET after[j \in 0..Len(xs)] ==
            IF j = 0 THEN w0
            ELSE [c \in Channels |-> Shift(after[j - 1][c], Projected[xs[j]].in[c])]
    IN after

-----------------------------------------------------------------------------
(* The recurrence.  A launch runs one block (the decode and the serial     *)
(* kernel: a warp owns an output column) or one for each output column     *)
(* (the partitioned and the precomputed kernel: a warp owns a key row).    *)

Serial == {"decode", "serial"}
BlocksOf(kernel) == IF kernel \in Serial THEN {0} ELSE Lanes

\* The parameters of a token, as the prepare kernel computes them for the
\* precomputed one.
Prepared(act, ab) ==
    Parameters(Total([i \in Lanes |-> act["q", i] * act["q", i]]),
               Total([i \in Lanes |-> act["k", i] * act["k", i]]), ab)

\* The host: the convolution, and the kernel with the activated rows.
StartKernel(kernel, xs) ==
    /\ Len(fed) + Len(xs) <= MaxGdnTokens
    /\ LET w == Windows(conv, xs)
           act == [j \in 1..Len(xs) |-> [c \in Channels |-> Activated(w[j][c])]]
           ab == [j \in 1..Len(xs) |-> Projected[xs[j]].ab] IN
        /\ conv' = w[Len(xs)]
        /\ launch' = [kernel |-> kernel, qkv |-> act, ab |-> ab,
                      params |-> IF kernel # "precomputed" THEN <<>>
                                 ELSE [j \in 1..Len(xs) |-> Prepared(act[j], ab[j])]]
    /\ blocks' = [b \in Lanes |-> NoBlock]
    /\ fed' = fed \o xs
    /\ core' = core \o [j \in 1..Len(xs) |-> Zeros]
    /\ UNCHANGED matrix

\* The steps of a kernel for one token; the precomputed kernel loads its state
\* cells before the first and stores them after the last.
SerialSteps == <<"squareQ", "sum", "normQ", "squareK", "sum", "scales", "column">>
PartitionSteps == <<"squares", "scales2", "memory", "delta", "update", "output">>
PrecomputedSteps == <<"memory", "delta", "update", "output">>

Steps(kernel) == CASE kernel \in Serial -> SerialSteps
                   [] kernel = "partitioned" -> PartitionSteps
                   [] OTHER -> PrecomputedSteps

Prologue(kernel) == IF kernel = "precomputed" THEN 1 ELSE 0
StepCount(kernel) ==
    2 * Prologue(kernel) + Len(Steps(kernel)) * Len(launch.qkv)

\* The token and the operation of the step that comes after n others.
Place(n) ==
    LET k == launch.kernel
        i == n - Prologue(k)
    IN IF i < 0 THEN [op |-> "load", token |-> 1]
       ELSE IF n + Prologue(k) = StepCount(k)
            THEN [op |-> "store", token |-> Len(launch.qkv)]
       ELSE [op |-> Steps(k)[(i % Len(Steps(k))) + 1],
             token |-> (i \div Len(Steps(k))) + 1]

\* Mutant: the precomputed kernel without the barrier at the end of a token.
NoTokenBarrier(at) ==
    /\ Place(at).op \notin {"load", "squareK"}
    /\ (Place(at).op = Head(Steps(launch.kernel)) =>
            Place(at).token > 1 /\ launch.kernel # "precomputed")

\* Is there a __syncthreads() before this step?  There is none before the first
\* token, and none between the two calls of block_sum_128: the result of one is
\* read and the partial sums of the other are written on the same array.
BarrierBefore(at) ==
    /\ Place(at).op \notin {"load", "squareK"}
    /\ (Place(at).op = Head(Steps(launch.kernel)) => Place(at).token > 1)

\* The recurrence of one output column, as a thread of the serial kernels runs
\* it: decay, read the memory, write the correction, read the output.
Column(c, act, p) ==
    LET key == [r \in Lanes |-> act["k", r] * p.k]
        decayed == [r \in Lanes |-> matrix[r][c] * p.decay]
        delta == (act["v", c] - Total([r \in Lanes |-> decayed[r] * key[r]])) * p.beta
        updated == [r \in Lanes |-> Residue(decayed[r] + key[r] * delta)]
    IN [cells |-> updated,
        out |-> Total([r \in Lanes |-> updated[r] * act["q", r] * p.q])]

\* What a step does to the block's shared memory and the warp's registers; cell
\* is the warp's state cell after the step.
Local(blk, op, b, w, act, ab, p, cell) ==
    CASE op = "squareQ" -> [blk EXCEPT !.partial[w] = Residue(act["q", w] * act["q", w])]
      [] op = "squareK" -> [blk EXCEPT !.partial[w] = Residue(act["k", w] * act["k", w])]
      [] op = "sum" /\ w = 0 -> [blk EXCEPT !.partial[0] = Total(blk.partial)]
      [] op = "normQ" -> [blk EXCEPT !.norm[w] = blk.partial[0]]
      [] op = "scales" /\ w = 0 ->
            [blk EXCEPT !.params = Parameters(blk.norm[0], blk.partial[0], ab)]
      [] op = "squares" -> [blk EXCEPT !.squaresQ[w] = Residue(act["q", w] * act["q", w]),
                                       !.squaresK[w] = Residue(act["k", w] * act["k", w])]
      [] op = "scales2" /\ w = 0 ->
            [blk EXCEPT !.params = Parameters(Total(blk.squaresQ), Total(blk.squaresK), ab)]
      [] op = "load" -> [blk EXCEPT !.resident[w] = cell]
      [] op = "memory" -> [blk EXCEPT !.resident[w] = cell,
                                      !.partial[w] = Residue(cell * act["k", w] * p.k)]
      [] op = "delta" /\ w = 0 ->
            [blk EXCEPT !.delta = Residue((act["v", b] - Total(blk.partial)) * p.beta)]
      [] op = "update" -> [blk EXCEPT !.resident[w] = cell,
                                      !.partial[w] = Residue(cell * act["q", w] * p.q)]
      [] OTHER -> blk

\* Warp w of block b takes its next step.
WarpStep(b, w) ==
    LET k == launch.kernel
        blk == blocks[b]
        op == Place(blk.at[w]).op
        j == Place(blk.at[w]).token
        act == launch.qkv[j]
        row == Len(core) - Len(launch.qkv) + j
        p == IF k = "precomputed" THEN launch.params[j] ELSE blk.params
        old == IF k = "precomputed" /\ op # "load" THEN blk.resident[w] ELSE matrix[w][b]
        cell == CASE op = "memory" -> Residue(old * p.decay)
                  [] op = "update" -> Residue(old + act["k", w] * p.k * blk.delta)
                  [] OTHER -> old IN
    /\ k # "none" /\ b \in BlocksOf(k) /\ blk.at[w] < StepCount(k)
    /\ MayStep(blk.at, BarrierBefore(blk.at[w]), w)
    /\ blocks' = [blocks EXCEPT ![b] =
            [Local(blk, op, b, w, act, launch.ab[j], p, cell) EXCEPT !.at = Stepped(@, w)]]
    /\ matrix' =
        IF op = "column"
        THEN [r \in Lanes |-> [matrix[r] EXCEPT ![w] = Column(w, act, p).cells[r]]]
        ELSE IF op = "store" \/ (k = "partitioned" /\ op \in {"memory", "update"})
        THEN [matrix EXCEPT ![w][b] = cell] ELSE matrix
    /\ core' = CASE op = "column" -> [core EXCEPT ![row][w] = Column(w, act, p).out]
                 [] op = "output" /\ w = 0 -> [core EXCEPT ![row][b] = Total(blk.partial)]
                 [] OTHER -> core
    /\ UNCHANGED <<conv, launch, fed>>

\* The kernel is over when every warp of every block is; the stream goes on.
EndKernel ==
    /\ launch.kernel # "none"
    /\ \A b \in BlocksOf(launch.kernel), w \in Lanes :
            blocks[b].at[w] = StepCount(launch.kernel)
    /\ launch' = NoLaunch
    /\ UNCHANGED <<conv, matrix, blocks, fed, core>>

\* run_gdn for one token, run_gdn_prefill for a slab.
GdnNext ==
    \/ /\ launch.kernel = "none"
       /\ \/ \E x \in DOMAIN Projected : StartKernel("decode", <<x>>)
          \/ \E n \in 1..MaxLaunch, kernel \in {"serial", "partitioned", "precomputed"} :
                \E xs \in [1..n -> DOMAIN Projected] : StartKernel(kernel, xs)
    \/ \E b \in Lanes, w \in Lanes : WarpStep(b, w)
    \/ EndKernel

-----------------------------------------------------------------------------
(* Properties.                                                             *)

\* The definition of the layer: S := decay S; S := S + k (beta (v - S'k))'; the
\* output is S'q, over the activated convolution of the tokens so far.
Reference(xs) ==
    LET at(j, d) == IF j < d THEN [c \in Channels |-> 0] ELSE Projected[xs[j - d + 1]].in
        window(j, c) == [i \in 1..ConvWidth |-> at(j, ConvWidth - i + 1)[c]]
        act(j) == [c \in Channels |-> Activated(window(j, c))]
        after[j \in 0..Len(xs)] ==
            IF j = 0 THEN [m |-> [r \in Lanes |-> Zeros], out |-> <<>>]
            ELSE LET a == act(j)
                     p == Prepared(a, Projected[xs[j]].ab)
                     old == after[j - 1]
                     read(c) == MapThenSumSet(
                        LAMBDA r : p.decay * old.m[r][c] * p.k * a["k", r], Lanes)
                     m == [r \in Lanes |-> [c \in Lanes |-> Residue(p.decay * old.m[r][c]
                            + p.k * a["k", r] * p.beta * (a["v", c] - read(c)))]]
                 IN [m |-> m,
                     out |-> Append(old.out, [c \in Lanes |->
                                Total([r \in Lanes |-> m[r][c] * p.q * a["q", r]])])]
    IN after[Len(xs)]

\* Between kernels the recurrent state and the outputs are those the definition
\* gives for the whole sequence: whatever the launches were, whichever kernels
\* ran them, and however the warps of a block were scheduled around the shared
\* arrays that one step fills and the next one reuses.
GdnIsRecurrence ==
    launch.kernel = "none" =>
        LET r == Reference(fed) IN matrix = r.m /\ core = r.out
=============================================================================
