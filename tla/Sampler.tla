------------------------------- MODULE Sampler ------------------------------
(***************************************************************************)
(* TransactionalSampler (src/src/sampling.cc) in its sampled mode, with the*)
(* places where the executor (src/src/executor.cc) calls it.  A transaction*)
(* prepares a decision from the logits and either commits it or drops it.  *)
(*                                                                         *)
(* Logits are small integers, NegInf one that is not finite; the weight of *)
(* a candidate falls with its distance from the best one; Uniform[n] is    *)
(* the n-th number of the generator, in parts of UniformOne.  The order of *)
(* equal logits is what std::sort leaves: some fixed one.                  *)
(***************************************************************************)
EXTENDS Integers, Sequences, FiniteSets, SequencesExt, FiniteSetsExt

CONSTANTS SVocab,                \* the vocabulary
          Logit,                 \* Logit[t][u]: the model's logit of u after t
          NegInf,
          TopK, TopP, TopPOne,   \* config_.top_k, and top_p = TopP / TopPOne
          Presence, Frequency,   \* the penalties
          Repetition,
          Uniform, UniformOne,
          MaxSession             \* bound: tokens of the session

ASSUME SamplerAssumption ==
    /\ SVocab \subseteq Nat /\ {TopK, MaxSession} \subseteq Nat
    /\ {TopP, TopPOne, UniformOne, Repetition} \subseteq Nat \ {0}
    /\ TopP <= TopPOne /\ TopK <= Cardinality(SVocab)

VARIABLES rng,          \* state_.rng_state, as the count of steps from the seed
          counts,       \* counts_
          stokens,      \* the executor's canonical tokens
          spending,     \* 1: the last of them has not been evaluated
          ssample,      \* last_sample, or -1
          stxn,         \* the transaction under way
          \* history
          draws         \* sampled transactions committed since the reset

samplerVars == <<rng, counts, stokens, spending, ssample, stxn, draws>>

NoSTxn == [kind |-> "none", new |-> <<>>, extra |-> <<>>, token |-> -1, after |-> 0]

Occurrences(t, s) == Cardinality({i \in 1..Len(s) : s[i] = t})

SamplerInit ==
    /\ rng = 0 /\ draws = 0
    /\ counts = [t \in SVocab |-> 0]
    /\ stokens = <<>> /\ spending = 0 /\ ssample = -1
    /\ stxn = NoSTxn

-----------------------------------------------------------------------------
(* prepare.                                                                *)

\* A logit after the penalties for a token that occurred n times.
Penalised(logit, n) ==
    IF n = 0 \/ logit = NegInf THEN logit
    ELSE (IF logit > 0 THEN logit \div Repetition ELSE logit * Repetition)
            - Presence - Frequency * n

Scores(logits, count) == [t \in SVocab |-> Penalised(logits[t], count[t])]

\* The candidates, best first, cut to the first top_k.
Candidates(scores) ==
    LET all == SetToSortSeq(SVocab, LAMBDA a, b :
                    scores[a] > scores[b] \/ (scores[a] = scores[b] /\ a < b))
    IN IF TopK # 0 /\ TopK < Len(all) THEN SubSeq(all, 1, TopK) ELSE all

\* exp(score - maximum), as a falling function.
Weight(scores, best, t) ==
    IF scores[t] = NegInf THEN 0
    ELSE IF best - scores[t] > 4 THEN 1 ELSE 2 ^ (5 - (best - scores[t]))

\* The sum of the first n of a sequence of weights.
Mass(w, n) == FoldLeft(LAMBDA a, b : a + b, 0, SubSeq(w, 1, n))

\* How many candidates it takes to reach top_p of the mass.
Retained(w) ==
    IF TopP = TopPOne THEN Len(w)
    ELSE CHOOSE n \in 1..Len(w) :
            /\ Mass(w, n) * TopPOne >= TopP * Mass(w, Len(w))
            /\ \A m \in 1..(n - 1) : Mass(w, m) * TopPOne < TopP * Mass(w, Len(w))

\* The candidate at which the cumulative weight passes the draw, or the last.
Selected(w, n, draw) ==
    LET passed == {i \in 1..n : draw * Mass(w, n) < Mass(w, i) * UniformOne}
    IN IF passed = {} THEN n ELSE Min(passed)

CanSample(scores) == \E t \in SVocab : scores[t] # NegInf

\* The token prepare decides on; the sampler itself is left as it is.
PrepareToken(scores, state) ==
    LET c == Candidates(scores)
        w == [i \in 1..Len(c) |-> Weight(scores, scores[c[1]], c[i])]
    IN c[Selected(w, Retained(w), Uniform[state + 1])]

-----------------------------------------------------------------------------
(* The executor's calls.                                                   *)

\* run_transaction up to the decision.  The rows evaluated are the pending token
\* and the new ones; for an append all of them count as penalty tokens, on top
\* of counts_, which holds the pending one already.
PrepareSample(kind, new) ==
    LET eval == SubSeq(stokens, Len(stokens) - spending + 1, Len(stokens)) \o new
        extra == IF kind = "append" THEN eval ELSE <<>>
        scores == Scores(Logit[Last(eval)],
                         [t \in SVocab |-> counts[t] + Occurrences(t, extra)])
    IN /\ stxn.kind = "none"
       /\ eval # <<>> /\ CanSample(scores)
       /\ stxn' = [kind |-> kind, new |-> new, extra |-> extra,
                   token |-> PrepareToken(scores, rng), after |-> rng + 1]
       /\ UNCHANGED <<rng, counts, stokens, spending, ssample, draws>>

AppendSampled(new) ==
    /\ new # <<>> /\ Len(stokens) + Len(new) <= MaxSession
    /\ PrepareSample("append", new)

\* decode_one, and speculative_step, which falls back to it.
DecodeSampled ==
    /\ spending = 1 /\ Len(stokens) < MaxSession
    /\ PrepareSample("decode", <<>>)

\* Both stages have committed: the decision is, and the tokens that became
\* canonical are counted.
CommitSample ==
    LET published == IF stxn.kind = "append" THEN stxn.new ELSE <<stxn.token>> IN
    /\ stxn.kind # "none"
    /\ rng' = stxn.after /\ draws' = draws + 1
    /\ stokens' = stokens \o published
    /\ counts' = [t \in SVocab |-> counts[t] + Occurrences(t, published)]
    /\ spending' = IF stxn.kind = "append" THEN 0 ELSE 1
    /\ ssample' = stxn.token
    /\ stxn' = NoSTxn

\* Mutant: the generator keeps the step of a transaction that did not commit.
DropSpendsDraw ==
    /\ stxn.kind # "none"
    /\ stxn' = NoSTxn
    /\ rng' = stxn.after
    /\ UNCHANGED <<counts, stokens, spending, ssample, draws>>

\* The transaction is cancelled, times out or fails after the sampling.
DropSample ==
    /\ stxn.kind # "none"
    /\ stxn' = NoSTxn
    /\ UNCHANGED <<rng, counts, stokens, spending, ssample, draws>>

\* seed_decode publishes the sample of the last append.
SeedSample ==
    /\ stxn.kind = "none" /\ spending = 0 /\ ssample # -1
    /\ Len(stokens) < MaxSession
    /\ stokens' = Append(stokens, ssample)
    /\ counts' = [counts EXCEPT ![ssample] = @ + 1]
    /\ spending' = 1
    /\ UNCHANGED <<rng, ssample, stxn, draws>>

ResetSampler ==
    /\ stxn.kind = "none"
    /\ rng' = 0 /\ draws' = 0
    /\ counts' = [t \in SVocab |-> 0]
    /\ stokens' = <<>> /\ spending' = 0 /\ ssample' = -1
    /\ UNCHANGED stxn

SamplerNext ==
    \/ \E n \in 1..MaxSession : \E new \in [1..n -> SVocab] : AppendSampled(new)
    \/ DecodeSampled \/ CommitSample \/ DropSample \/ SeedSample \/ ResetSampler

-----------------------------------------------------------------------------
(* Properties.                                                             *)

\* The tokens prepare may choose: fewer than top_k are better, and what is better
\* holds less than top_p of the mass of the top_k best.
Nucleus(scores) ==
    LET best == Max({scores[t] : t \in SVocab})
        rank(t) == Cardinality({u \in SVocab : scores[u] > scores[t]})
        k == IF TopK = 0 THEN Cardinality(SVocab) ELSE TopK
        mass(S) == FoldSet(LAMBDA t, a : a + Weight(scores, best, t), 0, S)
        top == {t \in SVocab : rank(t) < k}
    IN {t \in top : scores[t] # NegInf
            /\ mass({u \in SVocab : scores[u] > scores[t]}) * TopPOne < TopP * mass(top)}

\* The sampler's state is a function of what was committed, whatever was prepared
\* and dropped in between: the generator has taken one step per committed
\* transaction, the counts are those of the canonical tokens.  A decision,
\* recomputed from the session alone, is the one that was taken, so that a retry
\* repeats it, and it lies in the nucleus top_k and top_p describe.
SamplerFollowsSession ==
    /\ rng = draws
    /\ \A t \in SVocab : counts[t] = Occurrences(t, stokens)
    /\ stxn.kind # "none" =>
        LET scores == Scores(Logit[Last(stokens \o stxn.new)],
                             [t \in SVocab |-> Occurrences(t, stokens \o stxn.extra)])
        IN /\ stxn.token = PrepareToken(scores, draws)
           /\ stxn.token \in Nucleus(scores)
=============================================================================
