------------------------------ MODULE QsaSelect ------------------------------
(***************************************************************************)
(* The sparse attention's index (src/cuda/q38_qsa.cu): the pooled keys of  *)
(* the complete blocks, and the selection of the blocks a token attends    *)
(* to, on the decode and on the prefill path.                              *)
(*                                                                         *)
(* A score is a number below Radix ^ Digits; float scores are sums of      *)
(* max(0, x), so that their bits have the order of their values.  The      *)
(* radix state lives in the front of the token's own selected row: the     *)
(* histogram in the slots below Radix, the prefix, the mask and the rank   *)
(* behind it.  One token's row is followed through the kernels; the        *)
(* others of a slab have rows of their own.                                *)
(***************************************************************************)
EXTENDS Integers, Sequences, FiniteSets, FiniteSetsExt, SequencesExt, ThreadBlock

CONSTANTS QBlockTokens,  \* kQ38QsaBlockTokens
          QBudget,       \* kQ38QsaBlockBudget
          Radix, Digits, \* 256 and 4
          QWarps,        \* the warps of a gather block
          QTokens,       \* the tokens, by which index keys differ
          Affinity,      \* Affinity[t]: how a pooled key with token t scores
          QContext,      \* bound: positions of the cache
          QSlab          \* bound: tokens of a prefill launch

QRow == QBudget * QBlockTokens + QBlockTokens - 1   \* kQ38QsaMaximumSelected
PrefixSlot == Radix
MaskSlot == Radix + 1
RankSlot == Radix + 2

ASSUME QsaSelectAssumption ==
    /\ {QBlockTokens, QBudget, Digits, QWarps, QSlab} \subseteq Nat \ {0}
    /\ Radix \in Nat /\ Radix >= 2
    /\ RankSlot < QRow
    /\ \A t \in QTokens : Affinity[t] \in Nat

VARIABLES rawKeys,    \* raw_index_keys, by position: the token
          pooled,     \* pooled_index_keys, by block: the tokens it was made of
          qtokens,       \* history: the tokens of the cache
          floor,      \* how many of them are committed
          job         \* the selection under way
qsaVars == <<rawKeys, pooled, qtokens, floor, job>>

QThreads == 0..(QWarps - 1)
NoJob == [path |-> "none", pos |-> 0, scores |-> <<>>, row |-> <<>>, pc |-> "done",
          digit |-> 0, at |-> [w \in QThreads |-> 0], shared |-> [threshold |-> 0,
          written |-> 0, counts |-> [w \in QThreads |-> 0]],
          threshold |-> [w \in QThreads |-> 0], loop |-> [w \in QThreads |-> <<0, 0>>]]

QsaInit ==
    /\ rawKeys = <<>> /\ pooled = <<>>
    /\ qtokens = <<>> /\ floor = 0
    /\ job = NoJob

Overwrite(f, from, s) ==
    [i \in 1..(IF Len(f) > from + Len(s) THEN Len(f) ELSE from + Len(s)) |->
        IF i > from /\ i <= from + Len(s) THEN s[i - from] ELSE f[i]]

Complete(pos) == (pos + 1) \div QBlockTokens
SelectedBlocks(pos) == Min({Complete(pos), QBudget})
SelectedCount(pos) == SelectedBlocks(pos) * QBlockTokens + ((pos + 1) % QBlockTokens)

-----------------------------------------------------------------------------
(* The index keys.                                                         *)

\* The blocks a launch completes: the pool kernel runs for them.
Pooled(first, n) ==
    (first \div QBlockTokens)..(((first + n) \div QBlockTokens) - 1)

\* prepare: the raw keys of the launch are stored, its complete blocks pooled.
StoreKeys(first, tokens) ==
    LET raw == Overwrite(rawKeys, first, tokens) IN
    /\ rawKeys' = raw
    /\ pooled' = [b \in 1..Max({Len(pooled)} \cup
                        {c + 1 : c \in Pooled(first, Len(tokens))}) |->
            IF b - 1 \in Pooled(first, Len(tokens))
            THEN SubSeq(raw, (b - 1) * QBlockTokens + 1, b * QBlockTokens)
            ELSE pooled[b]]
    /\ qtokens' = SubSeq(qtokens, 1, first) \o tokens

\* The score of a block: what its pooled key says.
BlockScore(keys) ==
    MapThenSumSet(LAMBDA i : Affinity[keys[i]], 1..QBlockTokens) % (Radix ^ Digits)

\* The launch of a token's layer: the keys, then the scores of the complete
\* blocks, then the selection; a decode token whose blocks all fit takes them
\* all at once, a prefill row skips the radix kernels.
Launch(path, first, tokens, pos) ==
    LET n == Complete(pos)
        all == Overwrite([i \in 1..QRow |-> 0], 0, [i \in 1..(pos + 1) |-> i - 1])
        fits == n <= QBudget IN
    /\ StoreKeys(first, tokens)
    /\ job' = [NoJob EXCEPT !.path = path, !.pos = pos,
            !.scores = [b \in 1..n |-> BlockScore(pooled'[b])],
            !.row = IF fits /\ path = "decode" THEN all ELSE [i \in 1..QRow |-> 0],
            !.pc = IF ~fits THEN "init" ELSE IF path = "decode" THEN "done" ELSE "gather"]
    /\ UNCHANGED floor

DecodeToken(t) ==
    /\ Len(qtokens) < QContext
    /\ Launch("decode", Len(qtokens), <<t>>, Len(qtokens))

PrefillSlab(ts, j) ==
    /\ Len(qtokens) + Len(ts) <= QContext
    /\ Launch("prefill", Len(qtokens), ts, Len(qtokens) + j - 1)

\* The transaction commits, or is abandoned: the next launch begins at the
\* committed length again, over keys and pools that are still there.
QsaCommit == /\ job.pc = "done" /\ floor < Len(qtokens)
             /\ floor' = Len(qtokens) /\ job' = NoJob
             /\ UNCHANGED <<rawKeys, pooled, qtokens>>
QsaRollback == /\ job.pc = "done" /\ floor < Len(qtokens)
               /\ qtokens' = SubSeq(qtokens, 1, floor) /\ job' = NoJob
               /\ UNCHANGED <<rawKeys, pooled, floor>>

-----------------------------------------------------------------------------
(* The radix kernels.  Row slots are numbered from 0 in the code.          *)

Slot(i) == job.row[i + 1]
Bits(b) == job.scores[b + 1]
DigitValue(d) == Radix ^ (Digits - 1 - d)    \* 1 << shift

InitKernel ==
    /\ job.pc = "init"
    /\ job' = [job EXCEPT !.pc = "histogram",
            !.row = [i \in 1..QRow |->
                CASE i - 1 < RankSlot -> 0 [] i - 1 = RankSlot -> QBudget [] OTHER -> @[i]]]
    /\ UNCHANGED <<rawKeys, pooled, qtokens, floor>>

\* Every block whose bits under the mask are the prefix counts in the bucket of
\* its next digit.
HistogramKernel ==
    LET low == Radix ^ Digits - Slot(MaskSlot)
        match == {b \in 0..(Len(job.scores) - 1) :
                    (Bits(b) \div low) * low = Slot(PrefixSlot)}
        bucket(b) == (Bits(b) \div DigitValue(job.digit)) % Radix IN
    /\ job.pc = "histogram"
    /\ job' = [job EXCEPT !.pc = "choose",
            !.row = [i \in 1..QRow |-> IF i > Radix THEN @[i]
                ELSE @[i] + Cardinality({b \in match : bucket(b) = i - 1})]]
    /\ UNCHANGED <<rawKeys, pooled, qtokens, floor>>

\* The bucket in which the rank falls, from the highest down; the histogram is
\* cleared for the next digit.
ChooseKernel ==
    LET above(k) == MapThenSumSet(LAMBDA c : Slot(c), (k + 1)..(Radix - 1))
        chosen == {k \in 0..(Radix - 1) : Slot(RankSlot) <= above(k) + Slot(k)}
        k == Max(chosen)
        v == DigitValue(job.digit) IN
    /\ job.pc = "choose"
    /\ job' = [job EXCEPT !.digit = @ + 1,
            !.pc = IF job.digit + 1 < Digits THEN "histogram" ELSE "gather",
            !.row = [i \in 1..QRow |->
                CASE i <= Radix -> 0
                  [] i - 1 = PrefixSlot -> Slot(PrefixSlot) + k * v
                  [] i - 1 = MaskSlot -> Slot(MaskSlot) + (Radix - 1) * v
                  [] i - 1 = RankSlot -> Slot(RankSlot) - above(k)
                  [] OTHER -> @[i]]]
    /\ UNCHANGED <<rawKeys, pooled, qtokens, floor>>

-----------------------------------------------------------------------------
(* The gather kernel, one block of threads for the row.                    *)

\* Mutant: the threshold is read from the row where it is needed.
ThresholdFromRow(w) == Slot(PrefixSlot)

\* The threshold a thread compares with: one thread's copy in shared memory on
\* the decode path, its own register on the prefill path.
Threshold(w) ==
    IF job.path = "decode" THEN job.shared.threshold ELSE job.threshold[w]

Limit == SelectedBlocks(job.pos)
AllFit == Len(job.scores) <= QBudget

GatherOp(w) ==
    CASE job.at[w] = 0 -> "threshold"
      [] job.at[w] = 1 -> "zero"
      [] job.loop[w][1] = 2 -> "tail"
      [] OTHER -> <<"count", "write", "advance", "check">>[((job.at[w] - 2) % 4) + 1]

\* __syncthreads() before a step: after the threshold on the decode path only,
\* before the first round, and inside a round, but not between two rounds.
GatherBarrier(w) ==
    \/ GatherOp(w) \in {"write", "advance", "check"}
    \/ GatherOp(w) = "zero" /\ job.path = "decode"
    \/ job.at[w] = 2

\* Does the thread's block of this round belong to this pass?
Takes(w) ==
    LET b == job.loop[w][2] + w IN
    /\ b < Len(job.scores)
    /\ \/ AllFit
       \/ IF job.loop[w][1] = 0 THEN Bits(b) > Threshold(w) ELSE Bits(b) = Threshold(w)

CountsBelow(w) == MapThenSumSet(LAMBDA v : job.shared.counts[v], {v \in QThreads : v < w})

\* The round after this one: the next chunk, the second pass, or the tail.
NextRound(w) ==
    LET pass == job.loop[w][1]
        base == job.loop[w][2] + QWarps IN
    CASE job.shared.written = Limit -> <<2, 0>>
      [] base < Len(job.scores) -> <<pass, base>>
      [] OTHER -> <<pass + 1, 0>>

GatherStep(w) ==
    LET op == GatherOp(w)
        b == job.loop[w][2] + w
        at == (job.shared.written + CountsBelow(w)) * QBlockTokens
        tail == [i \in 1..QRow |->
            IF i - 1 - Limit * QBlockTokens \in
                    Strided(w, QWarps, (job.pos + 1) % QBlockTokens)
            THEN Len(job.scores) * QBlockTokens + i - 1 - Limit * QBlockTokens
            ELSE job.row[i]]
        next == [job EXCEPT !.at = Stepped(@, w)] IN
    /\ job.pc = "gather" /\ job.loop[w][1] < 3
    /\ MayStep(job.at, GatherBarrier(w), w)
    /\ job' = CASE op = "threshold" /\ job.path = "decode" ->
                     [next EXCEPT !.shared.threshold = IF w = 0 THEN Slot(PrefixSlot) ELSE @]
                [] op = "threshold" /\ job.path = "prefill" ->
                     [next EXCEPT !.threshold[w] = IF AllFit THEN 0 ELSE Slot(PrefixSlot)]
                [] op = "zero" ->
                     [next EXCEPT !.shared.written = IF w = 0 THEN 0 ELSE @,
                                  !.loop[w] = IF job.scores = <<>> THEN <<2, 0>> ELSE <<0, 0>>]
                [] op = "count" ->
                     [next EXCEPT !.shared.counts[w] = IF Takes(w) THEN 1 ELSE 0]
                [] op = "write" /\ Takes(w) /\ at < Limit * QBlockTokens ->
                     [next EXCEPT !.row = Overwrite(@, at,
                            [i \in 1..QBlockTokens |-> b * QBlockTokens + i - 1])]
                [] op = "advance" /\ w = 0 ->
                     [next EXCEPT !.shared.written = Min({Limit, @ + CountsBelow(QWarps)})]
                [] op = "check" -> [next EXCEPT !.loop[w] = NextRound(w)]
                [] op = "tail" -> [next EXCEPT !.row = tail, !.loop[w] = <<3, 0>>]
                [] OTHER -> next
    /\ UNCHANGED <<rawKeys, pooled, qtokens, floor>>

GatherEnds ==
    /\ job.pc = "gather" /\ \A w \in QThreads : job.loop[w][1] = 3
    /\ job' = [NoJob EXCEPT !.path = job.path, !.pos = job.pos, !.row = job.row]
    /\ UNCHANGED <<rawKeys, pooled, qtokens, floor>>

QsaNext ==
    \/ /\ job.pc = "done"
       /\ \/ \E t \in QTokens : DecodeToken(t)
          \/ \E n \in 1..QSlab : \E ts \in [1..n -> QTokens], j \in 1..n : PrefillSlab(ts, j)
    \/ QsaCommit \/ QsaRollback
    \/ InitKernel \/ HistogramKernel \/ ChooseKernel
    \/ \E w \in QThreads : GatherStep(w)
    \/ GatherEnds

-----------------------------------------------------------------------------
(* Properties.                                                             *)

\* What a token at this position selects: of its complete blocks the best ones,
\* the earlier of two equal ones, those above the worst chosen score first; then
\* the tokens of the incomplete block.
Selection(pos) ==
    LET n == Complete(pos)
        score(b) == BlockScore(SubSeq(qtokens, b * QBlockTokens + 1, (b + 1) * QBlockTokens))
        better(b, c) == score(b) > score(c) \/ (score(b) = score(c) /\ b < c)
        best == {b \in 0..(n - 1) :
                    Cardinality({c \in 0..(n - 1) : better(c, b)}) < QBudget}
        tied(b) == n > QBudget /\ score(b) = Min({score(c) : c \in best})
        order == SetToSortSeq(best, LAMBDA b, c :
                    (~tied(b) /\ tied(c)) \/ (tied(b) = tied(c) /\ b < c))
        rows == [i \in 1..(Len(order) * QBlockTokens) |->
                    order[((i - 1) \div QBlockTokens) + 1] * QBlockTokens
                        + ((i - 1) % QBlockTokens)]
    IN rows \o [i \in 1..((pos + 1) % QBlockTokens) |-> n * QBlockTokens + i - 1]

\* Both paths select exactly these positions, in this order, from the tokens the
\* cache holds now: the radix state in the row is used up before the row is
\* written over it, and the pooled key of a block is the one of its present
\* tokens, whatever slabs it was filled by and whatever a rolled-back
\* transaction left there.
SelectionIsTop ==
    job.pc = "done" /\ job.path # "none" =>
        SubSeq(job.row, 1, SelectedCount(job.pos)) = Selection(job.pos)
=============================================================================
