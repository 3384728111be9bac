----------------------------- MODULE TopkRouter -----------------------------
(***************************************************************************)
(* The expert router of one token (src/cuda/q38_kernels.cu): the reference *)
(* kernel, one thread with an insertion sort, and the 512-expert kernel, a *)
(* block that sorts the logits in shared memory with a bitonic network.    *)
(*                                                                         *)
(* Logits are small integers.  The exponential (Expf) never decreases, but *)
(* need not increase: the FP32 expf gives two logits closer than its       *)
(* rounding the same value, and 0 to every one far below the maximum.      *)
(* Sums are sequences of their terms.  Weights are normalised over the     *)
(* selected experts, as the backend asks for.                              *)
(***************************************************************************)
EXTENDS Integers, Sequences, SequencesExt, FiniteSets, FiniteSetsExt, ThreadBlock

CONSTANTS RExperts,   \* the experts, a power of two
          RTopK, RThreads,
          RLogits,    \* the values of a logit
          RRows,      \* bound: the rows of logits, by expert
          Expf        \* expf, of the difference of two of them

ASSUME TopkRouterAssumption ==
    /\ {RExperts, RTopK, RThreads} \subseteq Nat \ {0}
    /\ \E k \in 1..RExperts : 2 ^ k = RExperts
    /\ RTopK <= RExperts
    /\ RLogits \subseteq Int
    /\ RRows \subseteq [0..(RExperts - 1) -> RLogits]
    /\ \A x, y, maximum \in RLogits :
         x <= y /\ y <= maximum => Expf[x - maximum] <= Expf[y - maximum]

VARIABLE route   \* the launch: logits, shared memory, results
routerVars == <<route>>

RIds == 0..(RExperts - 1)
RWarps == 0..(RThreads - 1)
NoRoute == [kernel |-> "none", logits |-> <<>>, at |-> [w \in RWarps |-> 0],
            values |-> [e \in RIds |-> 0], ids |-> [e \in RIds |-> -1],
            numerators |-> <<>>, denominator |-> <<>>,
            expertIds |-> [r \in 1..RTopK |-> -1], weights |-> [r \in 1..RTopK |-> <<>>]]

RouterInit == route = NoRoute

Numerator(x, maximum) == Expf[x - maximum]
NumeratorOf(logits, e) == Numerator(logits[e], Max({logits[d] : d \in RIds}))

-----------------------------------------------------------------------------
(* The reference kernel.                                                   *)

\* The ranks after expert e was considered: it goes before the first rank whose
\* numerator is smaller, so that an equal one with a lower id stays in front.
Inserted(ranks, e, logits) ==
    LET worse == {r \in 1..Len(ranks) :
                    NumeratorOf(logits, e) > NumeratorOf(logits, ranks[r])}
        at == IF worse = {} THEN Len(ranks) + 1 ELSE Min(worse)
    IN SubSeq(InsertAt(ranks, at, e), 1, Min({Len(ranks) + 1, RTopK}))

ReferenceIds(logits) ==
    LET after[e \in -1..(RExperts - 1)] ==
            IF e = -1 THEN <<>> ELSE Inserted(after[e - 1], e, logits)
    IN after[RExperts - 1]

\* What the weights are made of, given the order of the experts.
WeightsOf(ids, logits) ==
    LET terms == [r \in 1..RTopK |-> NumeratorOf(logits, ids[r])] IN
    [r \in 1..RTopK |-> <<terms[r], terms>>]

RouteReference(logits) ==
    LET ids == ReferenceIds(logits) IN
        route' = [NoRoute EXCEPT !.kernel = "reference", !.logits = logits,
                    !.expertIds = ids, !.weights = WeightsOf(ids, logits)]

-----------------------------------------------------------------------------
(* The 512-expert kernel.                                                  *)

Log2 == CHOOSE k \in 1..RExperts : 2 ^ k = RExperts

\* The (width, stride) passes of the network, in order.
Passes == FlattenSeq([k \in 1..Log2 |->
            [j \in 1..k |-> [width |-> 2 ^ k, stride |-> 2 ^ (k - j)]]])
RouterSteps == Len(Passes) + 4

StartRouter(logits) ==
    route' = [NoRoute EXCEPT !.kernel = "sort", !.logits = logits]

BitSet(n, bit) == (n \div bit) % 2 = 1

\* Mutant: the exchange compares the logits alone.
LogitsOnly(a, b) == route.values[a] > route.values[b]

\* Ascending order by (logit, -id).
Better(a, b) ==
    \/ route.values[a] > route.values[b]
    \/ route.values[a] = route.values[b] /\ route.ids[a] < route.ids[b]

\* The places of a thread's pairs that change hands in a pass, with the partner.
Swapped(w, pass) ==
    LET swaps(l) == LET r == l + pass.stride IN
            IF BitSet(l, pass.width) THEN Better(r, l) ELSE Better(l, r)
    IN {l \in Strided(w, RThreads, RExperts) : ~BitSet(l, pass.stride) /\ swaps(l)}

Exchanged(f, lefts, stride) ==
    [e \in RIds |-> IF e \in lefts THEN f[e + stride]
                    ELSE IF e - stride \in lefts THEN f[e - stride] ELSE f[e]]

\* A step of thread w: load, a pass, take the best, the denominator (in rank
\* order, by one thread), the weights; a barrier stands before each but the
\* first.
RouterStep(w) ==
    LET n == route.at[w]
        mine == {r \in 1..RTopK : (r - 1) % RThreads = w}
        sorted(r) == RExperts - r
        maximum == route.values[RExperts - 1]
        next == [route EXCEPT !.at = Stepped(@, w)] IN
    /\ route.kernel = "sort" /\ n < RouterSteps
    /\ MayStep(route.at, n > 0, w)
    /\ route' =
        CASE n = 0 ->
              [next EXCEPT
                !.values = [e \in RIds |-> IF e % RThreads = w THEN route.logits[e] ELSE @[e]],
                !.ids = [e \in RIds |-> IF e % RThreads = w THEN e ELSE @[e]],
                !.numerators = [r \in 1..RTopK |-> <<>>]]
          [] n \in 1..Len(Passes) ->
              LET lefts == Swapped(w, Passes[n]) IN
              [next EXCEPT !.values = Exchanged(@, lefts, Passes[n].stride),
                           !.ids = Exchanged(@, lefts, Passes[n].stride)]
          [] n = Len(Passes) + 1 ->
              [next EXCEPT
                !.numerators = [r \in 1..RTopK |->
                    IF r \in mine THEN Numerator(route.values[sorted(r)], maximum) ELSE @[r]],
                !.expertIds = [r \in 1..RTopK |->
                    IF r \in mine THEN route.ids[sorted(r)] ELSE @[r]]]
          [] n = Len(Passes) + 2 ->
              [next EXCEPT !.denominator = IF w = 0 THEN route.numerators ELSE @]
          [] OTHER ->
              [next EXCEPT !.weights = [r \in 1..RTopK |->
                    IF r \in mine THEN <<route.numerators[r], route.denominator>> ELSE @[r]]]

RouterEnds ==
    /\ route.kernel = "sort" /\ \A w \in RWarps : route.at[w] = RouterSteps
    /\ route' = [NoRoute EXCEPT !.kernel = "sorted", !.logits = route.logits,
                    !.expertIds = route.expertIds, !.weights = route.weights]

\* The host picks the kernel.
RouterNext ==
    \/ /\ route.kernel = "none"
       /\ \E logits \in RRows : RouteReference(logits) \/ StartRouter(logits)
    \/ \E w \in RWarps : RouterStep(w)
    \/ RouterEnds

-----------------------------------------------------------------------------
(* Properties.                                                             *)

Routed == route.kernel \in {"reference", "sorted"}

\* The first experts in the order of a value, the lowest id first on ties.
BestBy(value(_)) ==
    LET before(a, b) == value(a) > value(b) \/ (value(a) = value(b) /\ a < b)
    IN [r \in 1..RTopK |-> CHOOSE a \in RIds :
            Cardinality({b \in RIds : before(b, a)}) = r - 1]

\* Each kernel gives the best experts, in its own order, the lowest id first on
\* ties: the sorting one by the logits, the reference by what expf makes of them.
\* Where the two differ nobody is favoured: rank by rank the weights are those of
\* the reference, with the denominator added up in rank order.
RouterIsTopK ==
    Routed =>
        LET logit(e) == route.logits[e]
            numerator(e) == NumeratorOf(route.logits, e)
        IN /\ route.expertIds = IF route.kernel = "sorted" THEN BestBy(logit)
                                ELSE BestBy(numerator)
           /\ route.weights = WeightsOf(BestBy(numerator), route.logits)

\* What the comment on the sorting kernel says of its order: "descending logits
\* and the lowest id first on ties, matching the reference insertion order".
MatchesReference == Routed => route.expertIds = ReferenceIds(route.logits)
=============================================================================
