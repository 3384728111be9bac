-------------------------- MODULE CudaStage1Proofs ---------------------------
(***************************************************************************)
(* The target and the draft model of CudaStage1 never lose each other.     *)
(*                                                                         *)
(* Drafts, rejections and cancellations leave rows of their own in the two *)
(* QSA arrays and in the workspace.  StageInv says which part of them is   *)
(* right at each step of a transaction: of the target's array what was     *)
(* executed, of the draft model's the rows that were made of the target's  *)
(* HCs (Holds), and of the workspace the last HC and the predictions that  *)
(* were verified.  All of it is said of one sequence, the session followed *)
(* by the transaction's tokens (Full): the rows of a draft that the target *)
(* confirmed are the rows of Full, and what a commit or a rollback keeps is*)
(* a prefix of it.                                                         *)
(*                                                                         *)
(* The hypothesis is that no append ends in a chunk of one token (NoTail). *)
(* Such a chunk goes through run_one, which counts its results from the    *)
(* transaction's first row; the run on MCCudaStage1Tail shows what follows.*)
(***************************************************************************)
EXTENDS CudaStage1, SequenceTheorems, TLAPS

-----------------------------------------------------------------------------
(* The invariant.                                                          *)

NoTail ==
    \A n \in AppendSizes : n = 1 \/ (ChunkTokens > 1 /\ n % ChunkTokens # 1)

Hcs == Seq(Tokens) \cup {StaleHc, <<"draft">>}
Cells == Tokens \cup {0}
Predictions == [hc : Hcs, tok : Cells]
TokenKeys == Tokens \cup {StaleHc, "stale"}
RowKeys == (Hcs \X Cells) \cup {StaleHc, "stale"}

Banks == [copy : [{0, 1} -> Seq(Tokens)], at : {0, 1}, active : BOOLEAN, epoch : Nat,
          ckpt : Seq(Tokens), valid : BOOLEAN]

QsaOf(K) ==
    [keys : Seq(K), pooled : Seq(Seq(K)), committed : Nat, active : BOOLEAN,
     epoch : Nat, evaluated : Nat]

Kinds == {"append", "decode", "speculative"}
Steps == {"none", "draft", "execute", "verify", "commit", "rollback"}
Running == {"execute", "verify", "commit"}

BeRecords ==
    [frontier : Nat, epoch : Nat, prov : Nat, base : Nat, expected : Nat,
     processed : Nat, kind : Kinds \cup {"invalid"}, active : BOOLEAN, toks : Seq(Tokens)]

MtpRecords ==
    [pending : BOOLEAN, candidate : BOOLEAN, active : BOOLEAN, epoch : Nat,
     rows : Nat, reconciled : Nat]

WsRecords ==
    [hc : [Slots -> Hcs], pred : [Slots -> Predictions], toks : [Slots -> Cells],
     cand : Hcs, pend : Hcs]

StageTypes ==
    /\ session \in Seq(Tokens)
    /\ txn \in [kind : Kinds \cup {"none"}, toks : Seq(Tokens), epoch : Nat]
    /\ off \in Nat /\ step \in Steps
    /\ answer \in [rows : Nat, next : Predictions]
    /\ be \in BeRecords /\ mtp \in MtpRecords /\ ws \in WsRecords
    /\ gdn \in Banks /\ qsa \in QsaOf(TokenKeys) /\ mqsa \in QsaOf(RowKeys)

\* The array of q begins with the first n elements of r, and so do its blocks.
Holds(q, r, n) ==
    /\ n <= Len(q.keys) /\ \A i \in 1..n : q.keys[i] = r[i]
    /\ n \div BlockTokens <= Len(q.pooled)
    /\ \A j \in 1..(n \div BlockTokens) :
         q.pooled[j] = [i \in 1..BlockTokens |-> r[(j - 1) * BlockTokens + i]]

Base == Len(session)
Full == session \o txn.toks
After(n) == SubSeq(Full, 1, n)          \* the HC after n tokens
Rows == MtpRowsOf(Full)

\* What no step but a commit or a reset changes.
SessionHeld ==
    /\ CommittedCopy(gdn) = session
    /\ qsa.committed = Base /\ Holds(qsa, session, Base)
    /\ mqsa.committed = Base - One(session # <<>>)
    /\ Holds(mqsa, MtpRowsOf(session), mqsa.committed)
    /\ be.frontier = Base
    /\ mtp.pending = (session # <<>>)
    /\ session # <<>> => ws.pend = session

\* The executor, the backend and the target's banks are in one transaction.
OpenTogether ==
    /\ be.active = (be.prov # 0) /\ gdn.active = (be.prov # 0) /\ qsa.active = (be.prov # 0)
    /\ step = "none" <=> txn = NoTxn
    /\ step \in {"none", "draft"} => be.prov = 0 /\ off = 0 /\ ~mtp.active
    /\ step # "none" =>
         /\ txn.kind \in Kinds /\ txn.epoch = be.epoch + 1 /\ be.prov \in {0, txn.epoch}
         /\ txn.kind # "append" => session # <<>>
         /\ txn.kind = "append" => Len(txn.toks) \in AppendSizes
         /\ txn.kind = "decode" => Len(txn.toks) = 1
         /\ txn.kind = "speculative" => Len(txn.toks) - 1 \in 1..MaxWidth
    /\ step = "draft" => txn.kind = "speculative"

\* What was executed.
TargetRan ==
    /\ off > 0 <=> be.prov # 0
    /\ off > 0 =>
         /\ gdn.epoch = be.prov /\ qsa.epoch = be.prov
         /\ be.base = Base /\ be.expected = Len(txn.toks) /\ be.kind = txn.kind
         /\ be.toks = SubSeq(txn.toks, 1, off) /\ be.processed = off
         /\ Working(gdn) = After(Base + off)
         /\ Holds(qsa, Full, Base + off) /\ qsa.evaluated = off

StepInOrder ==
    /\ step # "execute" => off > 0
    /\ IF step = "commit" THEN off = Len(txn.toks) ELSE off < Len(txn.toks)
    /\ step = "verify" => txn.kind = "speculative"
    /\ step # "execute" => answer.rows = off /\ answer.next.hc = After(Base + off)

\* An append feeds the draft model as it goes.
AppendRan ==
    /\ step = "execute" => \E k \in 0..off : off = k * ChunkTokens
    /\ off = 0 => ~mtp.active
    /\ off > 0 =>
         /\ mtp.candidate /\ ws.cand = After(Base + off)
         /\ mtp.rows = off - One(~mtp.pending) /\ mtp.active = (mtp.rows # 0)
         /\ Holds(mqsa, Rows, mqsa.committed + mtp.rows)

\* A decode leaves it to the commit.
DecodeRan ==
    /\ ~mtp.active
    /\ off > 0 => ws.toks[0] = txn.toks[1] /\ ws.hc[0] = After(Base + off)

\* A draft's rows are right as far as they were reconciled.
DraftRan ==
    /\ mtp.active /\ mtp.epoch = txn.epoch /\ mtp.rows + 1 = Len(txn.toks)
    /\ mtp.reconciled = (IF step = "execute" THEN off + 1 ELSE off)
    /\ Holds(mqsa, Rows, mqsa.committed + mtp.reconciled)
    /\ off > 0 => ws.hc[off - 1] = After(Base + off)
    /\ \A i \in 1..(mtp.reconciled - 1) : ws.pred[i - 1].tok = txn.toks[i + 1]
    /\ step # "execute" => answer.next = ws.pred[off - 1]

StageInv ==
    /\ StageTypes /\ ~fail
    /\ SessionHeld /\ OpenTogether
    /\ step \in Running =>
         /\ TargetRan /\ StepInOrder
         /\ txn.kind = "append" => AppendRan
         /\ txn.kind = "decode" => DecodeRan
         /\ txn.kind = "speculative" => DraftRan

-----------------------------------------------------------------------------
(* Sequences.                                                              *)

\* A part of a sequence, element by element.
LEMMA PartFacts ==
    ASSUME NEW S, NEW s \in Seq(S), NEW a \in Nat, NEW l \in Nat, a + l <= Len(s)
    PROVE  /\ SubSeq(s, a + 1, a + l) \in Seq(S) /\ Len(SubSeq(s, a + 1, a + l)) = l
           /\ \A i \in 1..l : SubSeq(s, a + 1, a + l)[i] = s[a + i]
<1> DEFINE w == SubSeq(s, a + 1, a + l)
<1>0. Len(s) \in Nat
    OBVIOUS
<1>1. \A i \in a + 1..a + l : s[i] \in S
    BY <1>0
<1>2. /\ w \in Seq(S) /\ Len(w) = IF a + 1 <= a + l THEN (a + l) - (a + 1) + 1 ELSE 0
      /\ \A i \in 1..(a + l) - (a + 1) + 1 : w[i] = s[(a + 1) + i - 1]
    BY <1>0, <1>1, SubSeqProperties
<1> HIDE DEF w
<1>3. Len(w) = l
    BY <1>2
<1>4. ASSUME NEW i \in 1..l PROVE w[i] = s[a + i]
    <2>1. i \in 1..(a + l) - (a + 1) + 1 /\ (a + 1) + i - 1 = a + i
        OBVIOUS
    <2>2. QED
        BY <1>2, <2>1
<1>5. QED
    BY <1>2, <1>3, <1>4 DEF w

\* The first n elements of a sequence.
LEMMA FirstFacts ==
    ASSUME NEW S, NEW s \in Seq(S), NEW n \in 0..Len(s)
    PROVE  /\ SubSeq(s, 1, n) \in Seq(S) /\ Len(SubSeq(s, 1, n)) = n
           /\ \A i \in 1..n : SubSeq(s, 1, n)[i] = s[i]
<1>1. n \in Nat /\ Len(s) \in Nat /\ n <= Len(s) /\ 0 \in Nat /\ 0 + n <= Len(s)
    OBVIOUS
<1> DEFINE v == SubSeq(s, 0 + 1, 0 + n)
<1>2. v \in Seq(S) /\ Len(v) = n /\ \A i \in 1..n : v[i] = s[0 + i]
    BY <1>1, PartFacts
<1>3. v = SubSeq(s, 1, n)
    BY <1>1
<1> HIDE DEF v
<1>4. \A i \in 1..n : v[i] = s[i]
    BY <1>1, <1>2
<1>5. QED
    BY <1>2, <1>3, <1>4

\* The first elements of the first elements.
LEMMA FirstOfFirst ==
    ASSUME NEW S, NEW s \in Seq(S), NEW n \in 0..Len(s), NEW m \in 0..n
    PROVE  SubSeq(SubSeq(s, 1, n), 1, m) = SubSeq(s, 1, m)
<1> DEFINE v == SubSeq(s, 1, n)  x == SubSeq(v, 1, m)  y == SubSeq(s, 1, m)
<1>1. Len(s) \in Nat /\ m \in 0..Len(s)
    OBVIOUS
<1>2. v \in Seq(S) /\ Len(v) = n /\ \A i \in 1..n : v[i] = s[i]
    BY FirstFacts
<1>3. y \in Seq(S) /\ Len(y) = m /\ \A i \in 1..m : y[i] = s[i]
    BY <1>1, FirstFacts
<1> HIDE DEF v, y
<1>4. x \in Seq(S) /\ Len(x) = m /\ \A i \in 1..m : x[i] = v[i]
    BY <1>2, FirstFacts
<1> HIDE DEF x
<1>5. \A i \in 1..m : x[i] = y[i]
    BY <1>1, <1>2, <1>3, <1>4
<1>6. x = y
    BY <1>3, <1>4, <1>5, SeqEqual
<1>7. QED
    BY <1>6 DEF x, y, v

\* Two sequences that begin with the same n elements.
LEMMA SameFirst ==
    ASSUME NEW S, NEW s \in Seq(S), NEW t \in Seq(S), NEW n \in 0..Len(s), n <= Len(t),
           \A i \in 1..n : s[i] = t[i]
    PROVE  SubSeq(s, 1, n) = SubSeq(t, 1, n)
<1> DEFINE x == SubSeq(s, 1, n)  y == SubSeq(t, 1, n)
<1>1. Len(t) \in Nat /\ n \in 0..Len(t)
    OBVIOUS
<1>2. x \in Seq(S) /\ Len(x) = n /\ \A i \in 1..n : x[i] = s[i]
    BY FirstFacts
<1>3. y \in Seq(S) /\ Len(y) = n /\ \A i \in 1..n : y[i] = t[i]
    BY <1>1, FirstFacts
<1> HIDE DEF x, y
<1>4. \A i \in 1..n : x[i] = y[i]
    BY <1>2, <1>3
<1>5. x = y
    BY <1>2, <1>3, <1>4, SeqEqual
<1>6. QED
    BY <1>5 DEF x, y

\* The first elements grow by the elements that follow.
LEMMA FirstGrows ==
    ASSUME NEW S, NEW s \in Seq(S), NEW a \in Nat, NEW l \in Nat, a + l <= Len(s)
    PROVE  SubSeq(s, 1, a) \o SubSeq(s, a + 1, a + l) = SubSeq(s, 1, a + l)
<1>1. 1 \in 1..Len(s) + 1 /\ a \in 1 - 1..Len(s) /\ a + l \in a..Len(s)
    OBVIOUS
<1>2. QED
    BY <1>1, ConcatAdjacentSubSeq

\* What ends a sequence of two.
LEMMA TailOfTwo ==
    ASSUME NEW S, NEW s \in Seq(S), NEW t \in Seq(S)
    PROVE  /\ s \o t \in Seq(S) /\ Len(s \o t) = Len(s) + Len(t)
           /\ Len(s) \in Nat /\ Len(t) \in Nat
           /\ \A i \in 1..Len(s) : (s \o t)[i] = s[i]
           /\ \A i \in 1..Len(t) : (s \o t)[Len(s) + i] = t[i]
<1> DEFINE x == s \o t
<1>1. /\ x \in Seq(S) /\ Len(x) = Len(s) + Len(t)
      /\ \A i \in 1..Len(s) + Len(t) : x[i] = IF i <= Len(s) THEN s[i] ELSE t[i - Len(s)]
      /\ Len(s) \in Nat /\ Len(t) \in Nat
    BY ConcatProperties
<1> HIDE DEF x
<1>2. ASSUME NEW i \in 1..Len(s) PROVE x[i] = s[i]
    <2>1. i \in 1..Len(s) + Len(t) /\ i <= Len(s)
        BY <1>1
    <2>2. QED
        BY <1>1, <2>1
<1>3. ASSUME NEW i \in 1..Len(t) PROVE x[Len(s) + i] = t[i]
    <2>1. Len(s) + i \in 1..Len(s) + Len(t) /\ ~(Len(s) + i <= Len(s)) /\ (Len(s) + i) - Len(s) = i
        BY <1>1
    <2>2. QED
        BY <1>1, <2>1
<1>4. QED
    BY <1>1, <1>2, <1>3 DEF x

\* The session and part of the transaction are the beginning of both.
LEMMA FullFirst ==
    ASSUME NEW S, NEW s \in Seq(S), NEW t \in Seq(S), NEW n \in 0..Len(t)
    PROVE  s \o SubSeq(t, 1, n) = SubSeq(s \o t, 1, Len(s) + n)
<1> DEFINE u == SubSeq(t, 1, n)  x == s \o u  f == s \o t  b == Len(s)  y == SubSeq(f, 1, b + n)
<1>1. u \in Seq(S) /\ Len(u) = n /\ \A i \in 1..n : u[i] = t[i]
    BY FirstFacts
<1> HIDE DEF u
<1>2. /\ f \in Seq(S) /\ Len(f) = b + Len(t) /\ b \in Nat /\ Len(t) \in Nat
      /\ \A i \in 1..b : f[i] = s[i]
      /\ \A i \in 1..Len(t) : f[b + i] = t[i]
    BY TailOfTwo
<1>3. /\ x \in Seq(S) /\ Len(x) = b + n
      /\ \A i \in 1..b : x[i] = s[i]
      /\ \A i \in 1..n : x[b + i] = u[i]
    <2>1. /\ x \in Seq(S) /\ Len(x) = b + Len(u)
          /\ \A i \in 1..b : x[i] = s[i]
          /\ \A i \in 1..Len(u) : x[b + i] = u[i]
        <3>1. u \in Seq(S)
            BY <1>1
        <3>2. QED
            BY <3>1, TailOfTwo
    <2> HIDE DEF x, b
    <2>2. QED
        BY <1>1, <2>1
<1> HIDE DEF f, x, b
<1>4. b + n \in 0..Len(f)
    BY <1>2
<1>5. y \in Seq(S) /\ Len(y) = b + n /\ \A i \in 1..b + n : y[i] = f[i]
    BY <1>2, <1>4, FirstFacts
<1> HIDE DEF y
<1>6. ASSUME NEW i \in 1..b + n PROVE x[i] = y[i]
    <2>1. CASE i <= b
        <3>1. i \in 1..b
            BY <1>2, <2>1
        <3>2. QED
            BY <1>2, <1>3, <1>5, <3>1
    <2>2. CASE i > b
        <3>1. i - b \in 1..n /\ i - b \in 1..Len(t) /\ b + (i - b) = i
            BY <1>2, <2>2
        <3>2. x[b + (i - b)] = u[i - b] /\ u[i - b] = t[i - b] /\ f[b + (i - b)] = t[i - b]
            BY <1>1, <1>2, <1>3, <3>1
        <3>3. QED
            BY <1>5, <3>1, <3>2
    <2>3. QED
        BY <1>2, <2>1, <2>2
<1>7. x = y
    BY <1>3, <1>5, <1>6, SeqEqual
<1>8. QED
    BY <1>7 DEF x, y, f, u, b

-----------------------------------------------------------------------------
(* The QSA arrays.                                                         *)

\* The complete blocks of a positions end at or before a.
LEMMA DivFacts ==
    ASSUME NEW a \in Nat
    PROVE  /\ BlockTokens \in Nat /\ BlockTokens >= 1
           /\ a \div BlockTokens \in Nat
           /\ (a \div BlockTokens) * BlockTokens <= a
           /\ \A b \in Nat : a <= b => a \div BlockTokens <= b \div BlockTokens
           /\ \A i \in 1..a \div BlockTokens :
                (i - 1) * BlockTokens \in Nat /\ i * BlockTokens \in Nat /\ i * BlockTokens <= a
                /\ i * BlockTokens = (i - 1) * BlockTokens + BlockTokens
<1>1. BlockTokens \in Nat /\ BlockTokens >= 1
    BY BlockAssumption
<1>2. ASSUME NEW c \in Nat
      PROVE  /\ c \div BlockTokens \in Nat
             /\ (c \div BlockTokens) * BlockTokens <= c
             /\ c < (c \div BlockTokens) * BlockTokens + BlockTokens
    <2>1. c = BlockTokens * (c \div BlockTokens) + (c % BlockTokens) /\ c % BlockTokens \in 0..BlockTokens - 1
          /\ c \div BlockTokens \in Int
        BY <1>1
    <2>2. c \div BlockTokens \in Nat
        BY <1>1, <2>1
    <2>3. QED
        BY <1>1, <2>1, <2>2
<1>3. ASSUME NEW b \in Nat, a <= b PROVE a \div BlockTokens <= b \div BlockTokens
    <2> DEFINE p == a \div BlockTokens  q == b \div BlockTokens
    <2>1. p \in Nat /\ q \in Nat /\ p * BlockTokens <= a /\ b < q * BlockTokens + BlockTokens
        BY <1>2
    <2> HIDE DEF p, q
    <2>2. ASSUME p > q PROVE FALSE
        <3>1. p * BlockTokens >= (q + 1) * BlockTokens
            BY <1>1, <2>1, <2>2
        <3>2. (q + 1) * BlockTokens = q * BlockTokens + BlockTokens
            BY <1>1, <2>1
        <3>3. QED
            BY <1>1, <1>3, <2>1, <3>1, <3>2
    <2>3. p <= q
        BY <2>1, <2>2
    <2>4. QED
        BY <2>3 DEF p, q
<1>4. ASSUME NEW i \in 1..a \div BlockTokens
      PROVE  /\ (i - 1) * BlockTokens \in Nat /\ i * BlockTokens \in Nat /\ i * BlockTokens <= a
             /\ i * BlockTokens = (i - 1) * BlockTokens + BlockTokens
    <2> DEFINE p == a \div BlockTokens
    <2>1. p \in Nat /\ p * BlockTokens <= a /\ i \in 1..p
        BY <1>2
    <2> HIDE DEF p
    <2>2. i - 1 \in Nat /\ i \in Nat /\ i <= p
        BY <2>1
    <2>3. i * BlockTokens <= p * BlockTokens
        BY <1>1, <2>1, <2>2
    <2>4. QED
        BY <1>1, <2>1, <2>2, <2>3
<1>5. QED
    BY <1>1, <1>2, <1>3, <1>4

\* The blocks b of a sequence s over S.
AreBlocks(b, S, s) ==
    /\ b \in Seq(Seq(S)) /\ Len(b) = Len(s) \div BlockTokens
    /\ \A j \in 1..Len(s) \div BlockTokens :
         b[j] = [i \in 1..BlockTokens |-> s[(j - 1) * BlockTokens + i]]

\* A block is made of the elements from its first to its last.
LEMMA BlocksFacts ==
    ASSUME NEW S, NEW s \in Seq(S)
    PROVE  AreBlocks(Blocks(s), S, s)
<1> DEFINE d == Len(s) \div BlockTokens
<1>1. d \in Nat /\ Len(s) \in Nat /\ BlockTokens \in Nat
    BY DivFacts
<1>2. \A j \in 1..d : Blocks(s)[j] = SubSeq(s, (j - 1) * BlockTokens + 1, j * BlockTokens)
    BY DEF Blocks
<1>3. ASSUME NEW j \in 1..d
      PROVE  /\ Blocks(s)[j] \in Seq(S)
             /\ Blocks(s)[j] = [i \in 1..BlockTokens |-> s[(j - 1) * BlockTokens + i]]
    <2> DEFINE a == (j - 1) * BlockTokens  v == SubSeq(s, a + 1, a + BlockTokens)
    <2>1. a \in Nat /\ a + BlockTokens <= Len(s) /\ a + BlockTokens = j * BlockTokens
        BY <1>1, DivFacts
    <2>2. v = Blocks(s)[j]
        BY <1>2, <2>1
    <2> HIDE DEF a
    <2>3. v \in Seq(S) /\ Len(v) = BlockTokens /\ \A i \in 1..BlockTokens : v[i] = s[a + i]
        BY <1>1, <2>1, PartFacts
    <2> HIDE DEF v
    <2>4. v \in [1..BlockTokens -> S]
        BY <2>3, LenProperties
    <2>5. v = [i \in 1..BlockTokens |-> s[a + i]]
        BY <2>3, <2>4
    <2>6. QED
        BY <2>2, <2>3, <2>5 DEF a
<1>4. Blocks(s) \in [1..d -> Seq(S)]
    BY <1>3 DEF Blocks
<1> HIDE DEF d
<1>5. Blocks(s) \in Seq(Seq(S)) /\ Len(Blocks(s)) = d
    BY <1>1, <1>4, LenProperties
<1>6. QED
    BY <1>3, <1>5 DEF d, AreBlocks

\* Overwriting from p on leaves what lies before p.
LEMMA OverwriteFacts ==
    ASSUME NEW S, NEW s \in Seq(S), NEW t \in Seq(S), NEW p \in 0..Len(s)
    PROVE  /\ Overwrite(s, p, t) \in Seq(S) /\ p + Len(t) <= Len(Overwrite(s, p, t))
           /\ \A i \in 1..p : Overwrite(s, p, t)[i] = s[i]
           /\ \A i \in 1..Len(t) : Overwrite(s, p, t)[p + i] = t[i]
<1> DEFINE a == SubSeq(s, 1, p)  z == SubSeq(s, p + Len(t) + 1, Len(s))  u == a \o t  o == u \o z
<1>1. a \in Seq(S) /\ Len(a) = p /\ \A i \in 1..p : a[i] = s[i]
    BY FirstFacts
<1>2. z \in Seq(S) /\ Len(s) \in Nat /\ Len(t) \in Nat /\ p \in Nat
    <2>1. p + Len(t) + 1 \in Int /\ Len(s) \in Int /\ p + Len(t) + 1 >= 1
        OBVIOUS
    <2>2. \A i \in p + Len(t) + 1..Len(s) : s[i] \in S
        BY <2>1
    <2>3. z \in Seq(S)
        BY <2>1, <2>2, SubSeqProperties
    <2>4. QED
        BY <2>3
<1> HIDE DEF a, z
<1>3. /\ u \in Seq(S) /\ Len(u) = Len(a) + Len(t)
      /\ \A i \in 1..Len(a) : u[i] = a[i]
      /\ \A i \in 1..Len(t) : u[Len(a) + i] = t[i]
    <2>1. a \in Seq(S)
        BY <1>1
    <2>2. QED
        BY <2>1, TailOfTwo
<1> HIDE DEF u
<1>4. /\ o \in Seq(S) /\ Len(o) = Len(u) + Len(z) /\ Len(z) \in Nat
      /\ \A i \in 1..Len(u) : o[i] = u[i]
    <2>1. u \in Seq(S) /\ z \in Seq(S)
        BY <1>2, <1>3
    <2>2. QED
        BY <2>1, TailOfTwo
<1>5. Overwrite(s, p, t) = o
    BY DEF Overwrite, a, z, u
<1> HIDE DEF o
<1>6. ASSUME NEW i \in 1..p PROVE o[i] = s[i]
    <2>1. i \in 1..Len(u) /\ i \in 1..Len(a)
        BY <1>1, <1>2, <1>3
    <2>2. QED
        BY <1>1, <1>3, <1>4, <2>1
<1>7. ASSUME NEW i \in 1..Len(t) PROVE o[p + i] = t[i]
    <2>1. p + i \in 1..Len(u) /\ Len(a) + i = p + i
        BY <1>1, <1>2, <1>3
    <2>2. QED
        BY <1>3, <1>4, <2>1
<1>8. p + Len(t) <= Len(o)
    BY <1>1, <1>2, <1>3, <1>4
<1>9. QED
    BY <1>4, <1>5, <1>6, <1>7, <1>8

\* The fields of a bank.
LEMMA QsaTypes ==
    ASSUME NEW K, NEW q \in QsaOf(K)
    PROVE  /\ q.keys \in Seq(K) /\ q.pooled \in Seq(Seq(K))
           /\ Len(q.keys) \in Nat /\ Len(q.pooled) \in Nat
           /\ q.committed \in Nat /\ q.active \in BOOLEAN /\ q.epoch \in Nat /\ q.evaluated \in Nat
<1>1. /\ q.keys \in Seq(K) /\ q.pooled \in Seq(Seq(K))
      /\ q.committed \in Nat /\ q.active \in BOOLEAN /\ q.epoch \in Nat /\ q.evaluated \in Nat
    BY DEF QsaOf
<1>2. QED
    BY <1>1, LenProperties

\* An array that holds n elements holds fewer, of whatever begins with them.
LEMMA HoldsLess ==
    ASSUME NEW K, NEW q \in QsaOf(K), NEW r, NEW n \in Nat, Holds(q, r, n), NEW m \in 0..n,
           NEW c, c.keys = q.keys, c.pooled = q.pooled,
           NEW s, \A i \in 1..m : s[i] = r[i]
    PROVE  Holds(c, s, m)
<1> DEFINE d == m \div BlockTokens  e == n \div BlockTokens
<1>0. Len(q.keys) \in Nat /\ Len(q.pooled) \in Nat /\ m \in Nat /\ m <= n
    BY QsaTypes
<1>a. n <= Len(q.keys) /\ e <= Len(q.pooled)
    BY DEF Holds
<1>1. /\ n <= Len(q.keys) /\ \A i \in 1..n : q.keys[i] = r[i]
      /\ e <= Len(q.pooled)
      /\ \A j \in 1..e : q.pooled[j] = [i \in 1..BlockTokens |-> r[(j - 1) * BlockTokens + i]]
    BY DEF Holds
<1>2. d \in Nat /\ e \in Nat /\ d <= e /\ BlockTokens \in Nat
    BY <1>0, DivFacts
<1>3. ASSUME NEW j \in 1..d
      PROVE  c.pooled[j] = [i \in 1..BlockTokens |-> s[(j - 1) * BlockTokens + i]]
    <2> DEFINE a == (j - 1) * BlockTokens
    <2>1. a \in Nat /\ a + BlockTokens <= m
        BY <1>0, DivFacts
    <2> HIDE DEF a
    <2>2. ASSUME NEW i \in 1..BlockTokens PROVE s[a + i] = r[a + i]
        <3>1. a + i \in 1..m
            BY <1>0, <1>2, <2>1
        <3>2. QED
            BY <3>1
    <2>3. j \in 1..e
        BY <1>2
    <2>4. c.pooled[j] = [i \in 1..BlockTokens |-> r[a + i]]
        BY <1>1, <2>3 DEF a
    <2>5. [i \in 1..BlockTokens |-> r[a + i]] = [i \in 1..BlockTokens |-> s[a + i]]
        BY <2>2
    <2>6. QED
        BY <2>4, <2>5 DEF a
<1>4. m <= Len(c.keys) /\ \A i \in 1..m : c.keys[i] = s[i]
    <2>1. m <= Len(q.keys)
        BY <1>0, <1>a
    <2>2. ASSUME NEW i \in 1..m PROVE q.keys[i] = s[i]
        <3>1. i \in 1..n
            BY <1>0
        <3>2. QED
            BY <1>1, <3>1
    <2>3. QED
        BY <2>1, <2>2
<1>5. d <= Len(c.pooled)
    <2> HIDE DEF d, e
    <2>1. QED
        BY <1>0, <1>a, <1>2
<1>6. QED
    BY <1>3, <1>4, <1>5 DEF Holds

\* A store behind p elements of r leaves them, and adds those of its own rows
\* that are r's: the blocks below the first one touched do not change, and the
\* others are pooled again.
LEMMA HoldsStore ==
    ASSUME NEW K, NEW q \in QsaOf(K), NEW r, NEW p \in Nat, Holds(q, r, p), NEW t \in Seq(K),
           NEW k \in 0..Len(t), \A i \in 1..k : r[p + i] = t[i]
    PROVE  /\ QsaStore(q, p, t) \in QsaOf(K) /\ Holds(QsaStore(q, p, t), r, p + k)
           /\ QsaStore(q, p, t).committed = q.committed /\ QsaStore(q, p, t).active = q.active
           /\ QsaStore(q, p, t).epoch = q.epoch /\ QsaStore(q, p, t).evaluated = q.evaluated
<1> DEFINE end == p + Len(t)  b == p \div BlockTokens  d == end \div BlockTokens
           e == (p + k) \div BlockTokens
           ks == Overwrite(q.keys, p, t)
           v == SubSeq(ks, 1, end)
           f == SubSeq(Blocks(v), b + 1, d)
           P == Overwrite(q.pooled, b, f)
           c == [q EXCEPT !.keys = ks, !.pooled = P]
<1>1. QsaStore(q, p, t) = c
    BY DEF QsaStore
<1>0. /\ q.keys \in Seq(K) /\ q.pooled \in Seq(Seq(K)) /\ Len(q.keys) \in Nat /\ Len(q.pooled) \in Nat
      /\ Len(t) \in Nat /\ k \in Nat /\ k <= Len(t) /\ end \in Nat /\ p + k \in Nat /\ p + k <= end
      /\ p <= p + k /\ p <= end
    <2>1. q.keys \in Seq(K) /\ q.pooled \in Seq(Seq(K)) /\ Len(q.keys) \in Nat /\ Len(q.pooled) \in Nat
        BY QsaTypes
    <2>2. Len(t) \in Nat
        OBVIOUS
    <2>3. QED
        BY <2>1, <2>2
<1>a. p <= Len(q.keys) /\ b <= Len(q.pooled)
    BY DEF Holds
<1>2. /\ p <= Len(q.keys) /\ \A i \in 1..p : q.keys[i] = r[i]
      /\ b <= Len(q.pooled)
      /\ \A j \in 1..b : q.pooled[j] = [i \in 1..BlockTokens |-> r[(j - 1) * BlockTokens + i]]
    BY DEF Holds
<1>3. b \in Nat /\ d \in Nat /\ e \in Nat /\ b <= d /\ b <= e /\ e <= d /\ BlockTokens \in Nat
    <2> DEFINE pk == p + k
    <2>1. p \in Nat /\ pk \in Nat /\ end \in Nat /\ p <= pk /\ pk <= end /\ p <= end
        BY <1>0
    <2> HIDE DEF pk, end
    <2>2. b \in Nat /\ d \in Nat /\ pk \div BlockTokens \in Nat /\ BlockTokens \in Nat
        BY <2>1, DivFacts
    <2>3. b <= d /\ b <= pk \div BlockTokens /\ pk \div BlockTokens <= d
        BY <2>1, DivFacts
    <2>4. QED
        BY <2>2, <2>3 DEF pk
<1>4. /\ ks \in Seq(K) /\ end <= Len(ks) /\ Len(ks) \in Nat
      /\ \A i \in 1..p : ks[i] = q.keys[i]
      /\ \A i \in 1..Len(t) : ks[p + i] = t[i]
    <2> DEFINE s == q.keys
    <2>1. p \in 0..Len(s) /\ s \in Seq(K)
        BY <1>0, <1>a
    <2> HIDE DEF s
    <2> DEFINE o == Overwrite(s, p, t)
    <2>2. /\ o \in Seq(K) /\ p + Len(t) <= Len(o)
          /\ \A i \in 1..p : o[i] = s[i]
          /\ \A i \in 1..Len(t) : o[p + i] = t[i]
        BY <2>1, OverwriteFacts
    <2> HIDE DEF o
    <2>3. Len(o) \in Nat /\ ks = o
        BY <2>2, LenProperties DEF o, s
    <2>4. QED
        BY <2>2, <2>3 DEF s
<1> HIDE DEF ks
<1>5. \A x \in 1..p + k : ks[x] = r[x]
    <2>1. ASSUME NEW x \in 1..p + k PROVE ks[x] = r[x]
        <3>1. CASE x <= p
            <4>1. x \in 1..p
                BY <3>1
            <4>2. QED
                BY <1>2, <1>4, <4>1
        <3>2. CASE x > p
            <4>1. x - p \in 1..k /\ x - p \in 1..Len(t) /\ p + (x - p) = x
                BY <1>0, <3>2
            <4>2. QED
                BY <1>4, <4>1
        <3>3. QED
            BY <1>0, <3>1, <3>2
    <2>2. QED
        BY <2>1
<1>6. v \in Seq(K) /\ Len(v) = end /\ \A i \in 1..end : v[i] = ks[i]
    <2>1. end \in 0..Len(ks)
        BY <1>0, <1>4
    <2> HIDE DEF end
    <2>2. QED
        BY <1>4, <2>1, FirstFacts
<1> HIDE DEF v
<1>7. /\ Blocks(v) \in Seq(Seq(K)) /\ Len(Blocks(v)) = d
      /\ \A j \in 1..d : Blocks(v)[j] = [i \in 1..BlockTokens |-> v[(j - 1) * BlockTokens + i]]
    <2> HIDE DEF end
    <2>1. Len(v) \div BlockTokens = d
        BY <1>6
    <2>2. /\ Blocks(v) \in Seq(Seq(K)) /\ Len(Blocks(v)) = Len(v) \div BlockTokens
          /\ \A j \in 1..Len(v) \div BlockTokens :
                Blocks(v)[j] = [i \in 1..BlockTokens |-> v[(j - 1) * BlockTokens + i]]
        <3>1. v \in Seq(K)
            BY <1>6
        <3>2. AreBlocks(Blocks(v), K, v)
            BY <3>1, BlocksFacts
        <3>3. QED
            BY <3>2 DEF AreBlocks
    <2> HIDE DEF d
    <2>3. QED
        BY <2>1, <2>2
<1>8. /\ f \in Seq(Seq(K)) /\ Len(f) = d - b
      /\ \A i \in 1..d - b : f[i] = Blocks(v)[b + i]
    <2> DEFINE B == Blocks(v)  l == d - b
    <2> HIDE DEF d, b
    <2>1. l \in Nat /\ b + l = d /\ b + l <= Len(B) /\ B \in Seq(Seq(K))
        BY <1>3, <1>7
    <2>2. f = SubSeq(B, b + 1, b + l)
        BY <2>1
    <2> HIDE DEF B, l
    <2> DEFINE x == SubSeq(B, b + 1, b + l)
    <2>3. x \in Seq(Seq(K)) /\ Len(x) = l /\ \A i \in 1..l : x[i] = B[b + i]
        <3>1. b \in Nat /\ l \in Nat /\ b + l <= Len(B) /\ B \in Seq(Seq(K))
            BY <1>3, <2>1
        <3>2. QED
            BY <3>1, PartFacts
    <2> HIDE DEF x
    <2>4. QED
        BY <2>2, <2>3 DEF B, l, x
<1> HIDE DEF f
<1>9. /\ P \in Seq(Seq(K)) /\ d <= Len(P)
      /\ \A j \in 1..b : P[j] = q.pooled[j]
      /\ \A i \in 1..d - b : P[b + i] = f[i]
    <2> HIDE DEF b, d
    <2>1. b \in 0..Len(q.pooled)
        BY <1>0, <1>a, <1>3
    <2>2. /\ P \in Seq(Seq(K)) /\ b + Len(f) <= Len(P)
          /\ \A j \in 1..b : P[j] = q.pooled[j]
          /\ \A i \in 1..Len(f) : P[b + i] = f[i]
        <3> DEFINE s == q.pooled  o == Overwrite(s, b, f)
        <3>1. b \in 0..Len(s) /\ s \in Seq(Seq(K)) /\ f \in Seq(Seq(K))
            BY <1>0, <1>8, <2>1
        <3> HIDE DEF s
        <3>2. /\ o \in Seq(Seq(K)) /\ b + Len(f) <= Len(o)
              /\ \A j \in 1..b : o[j] = s[j]
              /\ \A i \in 1..Len(f) : o[b + i] = f[i]
            BY <3>1, OverwriteFacts
        <3>3. QED
            BY <3>2 DEF s
    <2>3. b + Len(f) = d
        BY <1>3, <1>8
    <2>4. QED
        BY <1>8, <2>2, <2>3
<1> HIDE DEF P
<1>10. ASSUME NEW j \in 1..e
       PROVE  P[j] = [i \in 1..BlockTokens |-> r[(j - 1) * BlockTokens + i]]
    <2>1. CASE j <= b
        <3>1. j \in 1..b
            BY <1>3, <2>1
        <3>2. QED
            BY <1>2, <1>9, <3>1
    <2>2. CASE j > b
        <3> DEFINE a == (j - 1) * BlockTokens
        <3>1. a \in Nat /\ a + BlockTokens <= p + k
            BY <1>0, DivFacts
        <3> HIDE DEF a, b, d, e
        <3>2. j \in 1..d /\ j - b \in 1..d - b /\ b + (j - b) = j
            BY <1>3, <2>2
        <3>3. P[j] = Blocks(v)[j]
            BY <1>8, <1>9, <3>2
        <3>4. Blocks(v)[j] = [i \in 1..BlockTokens |-> v[a + i]]
            BY <1>7, <3>2 DEF a
        <3>5. \A i \in 1..BlockTokens : v[a + i] = r[a + i]
            <4>1. ASSUME NEW i \in 1..BlockTokens PROVE v[a + i] = r[a + i]
                <5>1. a + i \in 1..p + k /\ a + i \in 1..end
                    BY <1>0, <1>3, <3>1
                <5>2. QED
                    BY <1>5, <1>6, <5>1
            <4>2. QED
                BY <4>1
        <3>6. [i \in 1..BlockTokens |-> v[a + i]] = [i \in 1..BlockTokens |-> r[a + i]]
            BY <3>5
        <3>7. QED
            BY <3>3, <3>4, <3>6 DEF a
    <2>3. QED
        BY <1>3, <2>1, <2>2
<1>11. /\ c \in QsaOf(K) /\ c.keys = ks /\ c.pooled = P
       /\ c.committed = q.committed /\ c.active = q.active /\ c.epoch = q.epoch
       /\ c.evaluated = q.evaluated
    BY <1>4, <1>9 DEF QsaOf
<1> HIDE DEF c
<1>12. p + k <= Len(ks) /\ e <= Len(P)
    <2>1. Len(P) \in Nat
        BY <1>9
    <2>2. p + k <= end /\ end <= Len(ks) /\ Len(ks) \in Nat /\ e <= d /\ d <= Len(P)
        BY <1>0, <1>3, <1>4, <1>9
    <2> HIDE DEF end, d, e
    <2>3. QED
        BY <1>0, <1>3, <2>1, <2>2
<1>13. Holds(c, r, p + k)
    BY <1>5, <1>10, <1>11, <1>12 DEF Holds
<1>14. QED
    BY <1>1, <1>11, <1>13


\* A transaction begins.
LEMMA QsaBeginFacts ==
    ASSUME NEW K, NEW q \in QsaOf(K), NEW n \in Nat
    PROVE  LET c == QsaBegin(q, n) IN
           /\ c \in QsaOf(K) /\ c.keys = q.keys /\ c.pooled = q.pooled
           /\ c.committed = q.committed /\ c.active = TRUE /\ c.epoch = n
    BY DEF QsaBegin, QsaOf

\* n rows were evaluated.
LEMMA QsaMarkFacts ==
    ASSUME NEW K, NEW q \in QsaOf(K), NEW n \in Nat
    PROVE  LET c == QsaMark(q, n) IN
           /\ c \in QsaOf(K) /\ c.keys = q.keys /\ c.pooled = q.pooled
           /\ c.committed = q.committed /\ c.active = q.active /\ c.epoch = q.epoch
           /\ c.evaluated = n
    BY DEF QsaMark, QsaOf

\* The commit of n rows only moves the bank's end.
LEMMA QsaCommitFacts ==
    ASSUME NEW K, NEW q \in QsaOf(K), NEW n \in Nat
    PROVE  LET c == QsaCommit(q, n) IN
           /\ c \in QsaOf(K) /\ c.keys = q.keys /\ c.pooled = q.pooled
           /\ c.committed = q.committed + n /\ c.active = FALSE
<1> DEFINE m == q.committed + n
<1>1. m \in Nat
    BY QsaTypes
<1> HIDE DEF m
<1>2. LET c == [q EXCEPT !.committed = m, !.active = FALSE, !.epoch = 0, !.evaluated = 0] IN
      /\ c \in QsaOf(K) /\ c.keys = q.keys /\ c.pooled = q.pooled
      /\ c.committed = m /\ c.active = FALSE
    BY <1>1 DEF QsaOf
<1>3. QED
    BY <1>2 DEF QsaCommit, m

\* The rollback leaves both arrays as they are.
LEMMA QsaRollbackFacts ==
    ASSUME NEW K, NEW q \in QsaOf(K)
    PROVE  LET c == QsaRollback(q) IN
           /\ c \in QsaOf(K) /\ c.keys = q.keys /\ c.pooled = q.pooled
           /\ c.committed = q.committed /\ c.active = FALSE
    BY DEF QsaRollback, QsaOf

\* A reset forgets how much was committed.
LEMMA QsaResetFacts ==
    ASSUME NEW K, NEW q \in QsaOf(K)
    PROVE  LET c == QsaReset(q) IN
           c \in QsaOf(K) /\ c.committed = 0 /\ c.active = q.active
    BY DEF QsaReset, QsaOf

\* What is not told apart any more lies behind the committed elements.
LEMMA LeftBankFacts ==
    ASSUME NEW K, StaleHc \in K, StaleHc \in Seq(K), NEW q \in QsaOf(K)
    PROVE  /\ LeftBank(q) \in QsaOf(K)
           /\ LeftBank(q).committed = q.committed /\ LeftBank(q).active = q.active
           /\ \A r : \A n \in 0..q.committed : Holds(q, r, n) => Holds(LeftBank(q), r, n)
<1> DEFINE l == q.committed  d == l \div BlockTokens
           ks == [i \in DOMAIN q.keys |-> IF i <= l THEN q.keys[i] ELSE StaleHc]
           P == [i \in DOMAIN q.pooled |-> IF i <= d THEN q.pooled[i] ELSE StaleHc]
           c == [q EXCEPT !.keys = ks, !.pooled = P]
<1>1. LeftBank(q) = c
    BY DEF LeftBank
<1>2. /\ q.keys \in Seq(K) /\ q.pooled \in Seq(Seq(K)) /\ l \in Nat
      /\ Len(q.keys) \in Nat /\ Len(q.pooled) \in Nat
    BY QsaTypes
<1>3. d \in Nat /\ BlockTokens \in Nat
    BY <1>2, DivFacts
<1>4. /\ DOMAIN q.keys = 1..Len(q.keys) /\ DOMAIN q.pooled = 1..Len(q.pooled)
      /\ \A i \in 1..Len(q.keys) : q.keys[i] \in K
      /\ \A i \in 1..Len(q.pooled) : q.pooled[i] \in Seq(K)
    BY <1>2, LenProperties, ElementOfSeq
<1>5. ks \in Seq(K) /\ Len(ks) = Len(q.keys) /\ \A i \in 1..Len(q.keys) : i <= l => ks[i] = q.keys[i]
    <2>1. ks \in [1..Len(q.keys) -> K]
        BY <1>4
    <2>2. \A i \in 1..Len(q.keys) : i <= l => ks[i] = q.keys[i]
        BY <1>4
    <2> HIDE DEF ks
    <2>3. ks \in Seq(K) /\ Len(ks) = Len(q.keys)
        <3> DEFINE n == Len(q.keys)
        <3>1. n \in Nat /\ ks \in [1..n -> K]
            BY <1>2, <2>1
        <3> HIDE DEF n
        <3>2. ks \in Seq(K) /\ DOMAIN ks = 1..n
            BY <3>1
        <3>3. Len(ks) = n
            BY <3>1, <3>2, LenProperties
        <3>4. QED
            BY <3>2, <3>3 DEF n
    <2>4. QED
        BY <2>2, <2>3
<1>6. P \in Seq(Seq(K)) /\ Len(P) = Len(q.pooled) /\ \A i \in 1..Len(q.pooled) : i <= d => P[i] = q.pooled[i]
    <2> HIDE DEF d
    <2>1. P \in [1..Len(q.pooled) -> Seq(K)]
        BY <1>4
    <2>2. \A i \in 1..Len(q.pooled) : i <= d => P[i] = q.pooled[i]
        BY <1>4
    <2> HIDE DEF P
    <2>3. P \in Seq(Seq(K)) /\ Len(P) = Len(q.pooled)
        <3> DEFINE n == Len(q.pooled)
        <3>1. n \in Nat /\ P \in [1..n -> Seq(K)]
            BY <1>2, <2>1
        <3> HIDE DEF n
        <3>2. P \in Seq(Seq(K)) /\ DOMAIN P = 1..n
            BY <3>1
        <3>3. Len(P) = n
            BY <3>1, <3>2, LenProperties
        <3>4. QED
            BY <3>2, <3>3 DEF n
    <2>4. QED
        BY <2>2, <2>3
<1> HIDE DEF ks, P
<1>7. /\ c \in QsaOf(K) /\ c.keys = ks /\ c.pooled = P /\ c.committed = q.committed
      /\ c.active = q.active
    BY <1>5, <1>6 DEF QsaOf
<1> HIDE DEF c
<1>8. ASSUME NEW r, NEW n \in 0..l, Holds(q, r, n)
      PROVE  Holds(c, r, n)
    <2> DEFINE e == n \div BlockTokens
    <2>0. n <= Len(q.keys) /\ e <= Len(q.pooled)
        BY <1>8 DEF Holds
    <2>1. /\ \A i \in 1..n : q.keys[i] = r[i]
          /\ \A j \in 1..e : q.pooled[j] = [i \in 1..BlockTokens |-> r[(j - 1) * BlockTokens + i]]
        BY <1>8 DEF Holds
    <2>2. n \in Nat /\ n <= l /\ e \in Nat /\ e <= d
        <3>1. n \in Nat /\ l \in Nat /\ n <= l
            BY <1>2
        <3> HIDE DEF l
        <3>2. QED
            BY <3>1, DivFacts
    <2> HIDE DEF e, d
    <2>3. n <= Len(ks) /\ \A i \in 1..n : ks[i] = r[i]
        <3>1. ASSUME NEW i \in 1..n PROVE ks[i] = r[i]
            <4>1. i \in 1..Len(q.keys) /\ i <= l
                BY <1>2, <2>0, <2>2
            <4>2. QED
                BY <1>5, <2>1, <4>1
        <3>2. QED
            BY <1>5, <2>0, <3>1
    <2>4. ASSUME NEW j \in 1..e PROVE P[j] = q.pooled[j]
        <3>1. j \in 1..Len(q.pooled) /\ j <= d
            BY <1>2, <1>3, <2>0, <2>2
        <3>2. QED
            BY <1>6, <3>1
    <2>5. e <= Len(P)
        BY <1>6, <2>0
    <2>6. \A j \in 1..e : P[j] = [i \in 1..BlockTokens |-> r[(j - 1) * BlockTokens + i]]
        BY <2>1, <2>4
    <2>7. QED
        BY <1>7, <2>3, <2>5, <2>6 DEF Holds, e
<1>9. QED
    BY <1>1, <1>7, <1>8

\* An empty array holds nothing, and so does any other.
LEMMA HoldsNothing ==
    ASSUME NEW K, NEW q \in QsaOf(K), NEW r
    PROVE  Holds(q, r, 0)
<1>1. 0 \div BlockTokens = 0
    BY BlockAssumption
<1>2. Len(q.keys) \in Nat /\ Len(q.pooled) \in Nat
    BY QsaTypes
<1>3. 1..0 = {}
    OBVIOUS
<1>4. 0 <= Len(q.keys) /\ 0 <= Len(q.pooled)
    BY <1>2
<1>5. QED
    BY <1>1, <1>3, <1>4, Zenon DEF Holds

-----------------------------------------------------------------------------
(* The double bank.                                                        *)

\* The two copies of a bank.
LEMMA BankTypes ==
    ASSUME NEW b \in Banks
    PROVE  /\ b.at \in {0, 1} /\ 1 - b.at \in {0, 1} /\ 1 - b.at # b.at
           /\ DOMAIN b.copy = {0, 1} /\ b.copy \in [{0, 1} -> Seq(Tokens)]
           /\ Working(b) = b.copy[1 - b.at] /\ CommittedCopy(b) = b.copy[b.at]
           /\ Working(b) \in Seq(Tokens) /\ CommittedCopy(b) \in Seq(Tokens)
           /\ b.active \in BOOLEAN /\ b.epoch \in Nat
<1>1. /\ b.at \in {0, 1} /\ b.copy \in [{0, 1} -> Seq(Tokens)]
      /\ b.active \in BOOLEAN /\ b.epoch \in Nat
    BY DEF Banks
<1>2. 1 - b.at \in {0, 1} /\ 1 - b.at # b.at
    BY <1>1
<1>3. QED
    BY <1>1, <1>2 DEF Working, CommittedCopy

\* A new working copy leaves the committed one alone.
LEMMA BankWrite ==
    ASSUME NEW b \in Banks, NEW w \in Seq(Tokens)
    PROVE  LET c == [b EXCEPT !.copy[1 - b.at] = w] IN
           /\ c \in Banks /\ Working(c) = w /\ CommittedCopy(c) = CommittedCopy(b)
           /\ c.at = b.at /\ c.active = b.active /\ c.epoch = b.epoch
<1> DEFINE f == [b.copy EXCEPT ![1 - b.at] = w]
           c == [b EXCEPT !.copy[1 - b.at] = w]
<1>1. f \in [{0, 1} -> Seq(Tokens)] /\ f[1 - b.at] = w /\ f[b.at] = b.copy[b.at]
    BY BankTypes
<1>2. c = [b EXCEPT !.copy = f]
    OBVIOUS
<1> HIDE DEF f, c
<1>3. /\ c \in Banks /\ c.copy = f
      /\ c.at = b.at /\ c.active = b.active /\ c.epoch = b.epoch
    BY <1>1, <1>2 DEF Banks
<1>4. QED
    BY <1>1, <1>3 DEF Working, CommittedCopy, c

\* A transaction begins.
LEMMA BankBeginFacts ==
    ASSUME NEW b \in Banks, NEW e \in Nat
    PROVE  LET c == BankBegin(b, e) IN
           /\ c \in Banks /\ Working(c) = CommittedCopy(b) /\ CommittedCopy(c) = CommittedCopy(b)
           /\ c.active = TRUE /\ c.epoch = e
<1> DEFINE w == CommittedCopy(b)
           d == [b EXCEPT !.copy[1 - b.at] = w]
           c == [d EXCEPT !.active = TRUE, !.epoch = e, !.valid = FALSE, !.ckpt = <<>>]
<1>1. w \in Seq(Tokens) /\ <<>> \in Seq(Tokens)
    BY BankTypes
<1>2. BankBegin(b, e) = c
    BY DEF BankBegin
<1> HIDE DEF w
<1>3. /\ d \in Banks /\ Working(d) = w /\ CommittedCopy(d) = CommittedCopy(b) /\ d.at = b.at
    BY <1>1, BankWrite, SMTT(40)
<1> HIDE DEF d
<1>4. /\ c \in Banks /\ c.copy = d.copy /\ c.at = d.at /\ c.active = TRUE /\ c.epoch = e
    BY <1>1, <1>3 DEF Banks
<1> HIDE DEF c
<1>5. QED
    BY <1>2, <1>3, <1>4 DEF Working, CommittedCopy, w

\* Kernels fold inputs into the working copy.
LEMMA BankFoldFacts ==
    ASSUME NEW b \in Banks, NEW s \in Seq(Tokens)
    PROVE  LET c == BankFold(b, s) IN
           /\ c \in Banks /\ Working(c) = Working(b) \o s /\ CommittedCopy(c) = CommittedCopy(b)
           /\ c.active = b.active /\ c.epoch = b.epoch
<1> DEFINE w == Working(b) \o s
           c == [b EXCEPT !.copy[1 - b.at] = w]
<1>1. Working(b) \in Seq(Tokens) /\ w \in Seq(Tokens)
    BY BankTypes, ConcatProperties
<1>2. BankFold(b, s) = c
    BY BankTypes DEF BankFold
<1> HIDE DEF w
<1>3. /\ c \in Banks /\ Working(c) = w /\ CommittedCopy(c) = CommittedCopy(b)
      /\ c.active = b.active /\ c.epoch = b.epoch
    BY <1>1, BankWrite, ZenonT(60)
<1> HIDE DEF c
<1>4. QED
    BY <1>2, <1>3 DEF w

\* The banks flip, or do not, and what the other one holds is forgotten.
LEMMA BankEndFacts ==
    ASSUME NEW b \in Banks
    PROVE  /\ LeftCopy(BankCommit(b)) \in Banks /\ CommittedCopy(LeftCopy(BankCommit(b))) = Working(b)
           /\ LeftCopy(BankCommit(b)).active = FALSE
           /\ LeftCopy(BankRollback(b)) \in Banks
           /\ CommittedCopy(LeftCopy(BankRollback(b))) = CommittedCopy(b)
           /\ LeftCopy(BankRollback(b)).active = FALSE
<1>1. b.at \in {0, 1} /\ 1 - b.at \in {0, 1} /\ <<>> \in Seq(Tokens)
    BY BankTypes
<1> DEFINE c == BankCommit(b)  d == BankRollback(b)
<1>2. c \in Banks /\ c.copy = b.copy /\ c.at = 1 - b.at /\ c.active = FALSE
    BY <1>1 DEF BankCommit, Banks
<1>3. d \in Banks /\ d.copy = b.copy /\ d.at = b.at /\ d.active = FALSE
    BY <1>1 DEF BankRollback, Banks
<1> HIDE DEF c, d
<1>4. CommittedCopy(c) = Working(b) /\ CommittedCopy(d) = CommittedCopy(b)
    BY <1>2, <1>3 DEF CommittedCopy, Working
<1>5. ASSUME NEW x \in Banks
      PROVE  /\ LeftCopy(x) \in Banks /\ CommittedCopy(LeftCopy(x)) = CommittedCopy(x)
             /\ LeftCopy(x).active = x.active
    <2> DEFINE w == <<>>  y == [x EXCEPT !.copy[1 - x.at] = w]
    <2>1. w \in Seq(Tokens) /\ LeftCopy(x) = y
        BY DEF LeftCopy
    <2> HIDE DEF w
    <2>2. y \in Banks /\ CommittedCopy(y) = CommittedCopy(x) /\ y.active = x.active
        BY <2>1, BankWrite
    <2>3. QED
        BY <2>1, <2>2
<1>6. QED
    BY <1>2, <1>3, <1>4, <1>5 DEF c, d

-----------------------------------------------------------------------------
(* The session and the transaction, and the workspace.                     *)

\* What is left of a multiple and one.
LEMMA OneMore ==
    ASSUME NEW c \in Nat, c > 1, NEW k \in Nat
    PROVE  (k * c + 1) % c = 1
<1> DEFINE n == k * c + 1  q == n \div c  r == n % c
<1>1. k * c \in Nat /\ n \in Nat
    OBVIOUS
<1>2. n = c * q + r /\ r \in 0..c - 1 /\ q \in Int
    BY <1>1
<1>3. n = k * c + 1
    OBVIOUS
<1> HIDE DEF n, q, r
<1>4. ASSUME q > k PROVE FALSE
    <2>1. q >= k + 1 /\ c * q >= c * (k + 1)
        BY <1>2, <1>4
    <2>2. c * (k + 1) = k * c + c
        OBVIOUS
    <2>3. QED
        BY <1>1, <1>2, <1>3, <2>1, <2>2
<1>5. ASSUME q < k PROVE FALSE
    <2>1. q + 1 <= k /\ c * (q + 1) <= c * k
        BY <1>2, <1>5
    <2>2. c * (q + 1) = c * q + c /\ c * k = k * c
        BY <1>2
    <2>3. QED
        BY <1>1, <1>2, <1>3, <2>1, <2>2
<1>6. q = k
    BY <1>2, <1>4, <1>5
<1>7. c * q = k * c
    BY <1>6
<1>8. r = 1
    BY <1>1, <1>2, <1>3, <1>7
<1>9. QED
    BY <1>8 DEF n, r

\* The session followed by the transaction.
LEMMA FullFacts ==
    ASSUME session \in Seq(Tokens), txn.toks \in Seq(Tokens)
    PROVE  /\ Full \in Seq(Tokens) /\ Len(Full) = Base + Len(txn.toks)
           /\ Base \in Nat /\ Len(txn.toks) \in Nat
           /\ \A i \in 1..Base : Full[i] = session[i]
           /\ \A i \in 1..Len(txn.toks) : Full[Base + i] = txn.toks[i]
           /\ \A n \in 0..Len(txn.toks) : session \o SubSeq(txn.toks, 1, n) = After(Base + n)
           /\ \A n \in 0..Base + Len(txn.toks) :
                /\ After(n) \in Seq(Tokens) /\ Len(After(n)) = n
                /\ \A i \in 1..n : After(n)[i] = Full[i]
           /\ After(Base) = session
<1> DEFINE t == txn.toks
<1>1. /\ Full \in Seq(Tokens) /\ Len(Full) = Base + Len(t)
      /\ Base \in Nat /\ Len(t) \in Nat
      /\ \A i \in 1..Base : Full[i] = session[i]
      /\ \A i \in 1..Len(t) : Full[Base + i] = t[i]
    BY TailOfTwo DEF Full, Base
<1>2. \A n \in 0..Len(t) : session \o SubSeq(t, 1, n) = After(Base + n)
    BY FullFirst DEF Full, Base, After
<1>3. ASSUME NEW n \in 0..Base + Len(t)
      PROVE  After(n) \in Seq(Tokens) /\ Len(After(n)) = n /\ \A i \in 1..n : After(n)[i] = Full[i]
    <2>1. n \in 0..Len(Full)
        BY <1>1
    <2>2. QED
        BY <1>1, <2>1, FirstFacts DEF After
<1>4. After(Base) = session
    <2>1. Base \in 0..Base + Len(t)
        BY <1>1
    <2> DEFINE a == After(Base)
    <2>2. a \in Seq(Tokens) /\ Len(a) = Len(session) /\ \A i \in 1..Len(a) : a[i] = session[i]
        <3>1. a \in Seq(Tokens) /\ Len(a) = Base /\ \A i \in 1..Base : a[i] = Full[i]
            BY <1>3, <2>1
        <3> HIDE DEF a
        <3>2. \A i \in 1..Base : a[i] = session[i]
            BY <1>1, <3>1
        <3>3. Len(session) = Base
            BY DEF Base
        <3>4. QED
            BY <3>1, <3>2, <3>3
    <2> HIDE DEF a
    <2>3. a = session
        BY <2>2, SeqEqual
    <2>4. QED
        BY <2>3 DEF a
<1>5. QED
    BY <1>1, <1>2, <1>3, <1>4

\* The HC after more of the transaction's tokens.
LEMMA AfterMore ==
    ASSUME session \in Seq(Tokens), txn.toks \in Seq(Tokens),
           NEW a \in Nat, NEW l \in Nat, a + l <= Len(txn.toks)
    PROVE  /\ SubSeq(txn.toks, a + 1, a + l) \in Seq(Tokens)
           /\ Len(SubSeq(txn.toks, a + 1, a + l)) = l
           /\ \A i \in 1..l : SubSeq(txn.toks, a + 1, a + l)[i] = txn.toks[a + i]
           /\ After(Base + a) \o SubSeq(txn.toks, a + 1, a + l) = After(Base + a + l)
           /\ SubSeq(txn.toks, 1, a) \o SubSeq(txn.toks, a + 1, a + l) = SubSeq(txn.toks, 1, a + l)
<1> DEFINE t == txn.toks  u == SubSeq(t, a + 1, a + l)  b == Base + a  w == SubSeq(Full, b + 1, b + l)
<1>1. u \in Seq(Tokens) /\ Len(u) = l /\ \A i \in 1..l : u[i] = t[a + i]
    BY PartFacts
<1>2. /\ Full \in Seq(Tokens) /\ Len(Full) = Base + Len(t) /\ Base \in Nat /\ Len(t) \in Nat
      /\ \A i \in 1..Len(t) : Full[Base + i] = t[i]
    BY FullFacts
<1>3. b \in Nat /\ b + l <= Len(Full)
    BY <1>2
<1>4. w \in Seq(Tokens) /\ Len(w) = l /\ \A i \in 1..l : w[i] = Full[b + i]
    <2> HIDE DEF b
    <2>1. QED
        BY <1>2, <1>3, PartFacts
<1>5. SubSeq(Full, 1, b) \o w = SubSeq(Full, 1, b + l)
    <2> HIDE DEF b
    <2>1. QED
        BY <1>2, <1>3, FirstGrows
<1> HIDE DEF u, w
<1>6. \A i \in 1..l : u[i] = w[i]
    <2>1. ASSUME NEW i \in 1..l PROVE u[i] = w[i]
        <3>1. a + i \in 1..Len(t) /\ b + i = Base + (a + i)
            BY <1>2
        <3>2. QED
            BY <1>1, <1>2, <1>4, <3>1
    <2>2. QED
        BY <2>1
<1>7. u = w
    BY <1>1, <1>4, <1>6, SeqEqual
<1>8. After(b) \o u = After(b + l)
    BY <1>5, <1>7 DEF After
<1>9. SubSeq(t, 1, a) \o u = SubSeq(t, 1, a + l)
    BY FirstGrows DEF u
<1>10. QED
    BY <1>1, <1>8, <1>9 DEF u

\* The draft model's rows of two sequences that begin with the same tokens.
LEMMA RowsAgree ==
    ASSUME NEW s \in Seq(Tokens), NEW t \in Seq(Tokens), NEW n \in 0..Len(s), n <= Len(t),
           \A i \in 1..n : s[i] = t[i]
    PROVE  \A i \in 1..n - 1 : MtpRowsOf(s)[i] = MtpRowsOf(t)[i]
<1>1. ASSUME NEW i \in 1..n - 1 PROVE MtpRowsOf(s)[i] = MtpRowsOf(t)[i]
    <2>1. /\ i \in 1..Len(s) - 1 /\ i \in 1..Len(t) - 1 /\ i + 1 \in 1..n /\ i \in 0..Len(s) /\ i <= Len(t)
          /\ \A j \in 1..i : s[j] = t[j]
        OBVIOUS
    <2>2. SubSeq(s, 1, i) = SubSeq(t, 1, i)
        BY <2>1, SameFirst
    <2>3. s[i + 1] = t[i + 1]
        BY <2>1
    <2>4. QED
        BY <2>1, <2>2, <2>3 DEF MtpRowsOf
<1>2. QED
    BY <1>1

\* Writing to the workspace.
LEMMA WrittenFacts ==
    ASSUME NEW V, NEW f \in [Slots -> V], NEW s \in Seq(V), NEW p \in Nat
    PROVE  /\ Written(f, p, s) \in [Slots -> V]
           /\ \A j \in Slots : j < p \/ j > p + Len(s) - 1 => Written(f, p, s)[j] = f[j]
           /\ \A i \in 1..Len(s) : p + i - 1 \in Slots => Written(f, p, s)[p + i - 1] = s[i]
<1> DEFINE w == Written(f, p, s)
<1>1. /\ DOMAIN f = Slots /\ \A j \in Slots : f[j] \in V /\ j \in Int
      /\ Len(s) \in Nat /\ \A i \in 1..Len(s) : s[i] \in V
    <2>1. Slots \subseteq Int
        BY Cuda1Assumption DEF Slots
    <2>2. QED
        BY <2>1, LenProperties, ElementOfSeq
<1>2. w = [j \in Slots |-> IF j \in p..(p + Len(s) - 1) THEN s[j - p + 1] ELSE f[j]]
    BY <1>1 DEF Written
<1> HIDE DEF w
<1>3. ASSUME NEW j \in Slots PROVE w[j] \in V
    <2>1. CASE j \in p..(p + Len(s) - 1)
        <3>1. j - p + 1 \in 1..Len(s)
            BY <1>1, <2>1
        <3>2. QED
            BY <1>1, <1>2, <2>1, <3>1
    <2>2. CASE j \notin p..(p + Len(s) - 1)
        BY <1>1, <1>2, <2>2
    <2>3. QED
        BY <2>1, <2>2
<1>4. w \in [Slots -> V]
    BY <1>2, <1>3
<1>5. ASSUME NEW j \in Slots, j < p \/ j > p + Len(s) - 1 PROVE w[j] = f[j]
    <2>1. j \notin p..(p + Len(s) - 1)
        BY <1>1, <1>5
    <2>2. QED
        BY <1>2, <2>1
<1>6. ASSUME NEW i \in 1..Len(s), p + i - 1 \in Slots PROVE w[p + i - 1] = s[i]
    <2> DEFINE j == p + i - 1
    <2>1. j \in p..(p + Len(s) - 1) /\ j - p + 1 = i /\ j \in Slots
        BY <1>1, <1>6
    <2> HIDE DEF j
    <2>2. w[j] = s[i]
        BY <1>2, <2>1
    <2>3. QED
        BY <2>2 DEF j
<1>7. QED
    BY <1>4, <1>5, <1>6 DEF w

-----------------------------------------------------------------------------
(* The chunk.                                                              *)

\* The fields of the state.
LEMMA Typing ==
    ASSUME StageTypes
    PROVE  /\ session \in Seq(Tokens) /\ off \in Nat /\ step \in Steps
           /\ txn.toks \in Seq(Tokens) /\ txn.epoch \in Nat /\ txn.kind \in Kinds \cup {"none"}
           /\ Base \in Nat /\ Len(txn.toks) \in Nat
           /\ answer.rows \in Nat /\ answer.next \in Predictions
           /\ be.frontier \in Nat /\ be.epoch \in Nat /\ be.prov \in Nat /\ be.base \in Nat
           /\ be.expected \in Nat /\ be.processed \in Nat /\ be.kind \in Kinds \cup {"invalid"}
           /\ be.active \in BOOLEAN /\ be.toks \in Seq(Tokens)
           /\ mtp.pending \in BOOLEAN /\ mtp.candidate \in BOOLEAN /\ mtp.active \in BOOLEAN
           /\ mtp.epoch \in Nat /\ mtp.rows \in Nat /\ mtp.reconciled \in Nat
           /\ ws.hc \in [Slots -> Hcs] /\ ws.pred \in [Slots -> Predictions]
           /\ ws.toks \in [Slots -> Cells] /\ ws.cand \in Hcs /\ ws.pend \in Hcs
<1>1. session \in Seq(Tokens) /\ off \in Nat /\ step \in Steps
    BY DEF StageTypes
<1>2. txn.toks \in Seq(Tokens) /\ txn.epoch \in Nat /\ txn.kind \in Kinds \cup {"none"}
    BY DEF StageTypes
<1>3. Base \in Nat /\ Len(txn.toks) \in Nat
    BY <1>1, <1>2, LenProperties DEF Base
<1>4. answer.rows \in Nat /\ answer.next \in Predictions
    BY DEF StageTypes
<1>5. /\ be.frontier \in Nat /\ be.epoch \in Nat /\ be.prov \in Nat /\ be.base \in Nat
      /\ be.expected \in Nat /\ be.processed \in Nat /\ be.kind \in Kinds \cup {"invalid"}
      /\ be.active \in BOOLEAN /\ be.toks \in Seq(Tokens)
    BY DEF StageTypes, BeRecords
<1>6. /\ mtp.pending \in BOOLEAN /\ mtp.candidate \in BOOLEAN /\ mtp.active \in BOOLEAN
      /\ mtp.epoch \in Nat /\ mtp.rows \in Nat /\ mtp.reconciled \in Nat
    BY DEF StageTypes, MtpRecords
<1>7. /\ ws.hc \in [Slots -> Hcs] /\ ws.pred \in [Slots -> Predictions]
      /\ ws.toks \in [Slots -> Cells] /\ ws.cand \in Hcs /\ ws.pend \in Hcs
    BY DEF StageTypes, WsRecords
<1>8. QED
    BY <1>1, <1>2, <1>3, <1>4, <1>5, <1>6, <1>7

\* The workspace's index of the chunk's first row.
At == IF txn.kind = "speculative" THEN off ELSE 0

\* The results of a chunk are counted from where its tokens are.
LEMMA ChunkFacts ==
    ASSUME StageInv, NoTail, step = "execute"
    PROVE  /\ ChunkLen \in Nat /\ ChunkLen >= 1 /\ off + ChunkLen <= Len(txn.toks)
           /\ txn.kind # "append" => ChunkLen = 1
           /\ txn.kind = "decode" => off = 0
           /\ txn.kind = "append" => ChunkLen = ChunkTokens \/ off + ChunkLen = Len(txn.toks)
           /\ At \in Nat /\ ResultIndex = At /\ At + ChunkLen <= ChunkTokens
           /\ \A i \in 1..ChunkLen : At + i - 1 \in Slots
           /\ Chunk \in Seq(Tokens) /\ Len(Chunk) = ChunkLen
           /\ \A i \in 1..ChunkLen : Chunk[i] = txn.toks[off + i]
           /\ \A k \in 0..ChunkLen : SubSeq(Chunk, 1, k) = SubSeq(txn.toks, off + 1, off + k)
           /\ SubSeq(txn.toks, 1, off) \o Chunk = SubSeq(txn.toks, 1, off + ChunkLen)
<1> DEFINE n == Len(txn.toks)
<1>0. /\ session \in Seq(Tokens) /\ txn.toks \in Seq(Tokens) /\ off \in Nat /\ n \in Nat
      /\ ChunkTokens \in Nat /\ ChunkTokens >= 1 /\ MaxWidth \in Nat /\ MaxWidth < ChunkTokens
    <2>1. session \in Seq(Tokens) /\ txn.toks \in Seq(Tokens) /\ off \in Nat /\ n \in Nat
        BY Typing DEF StageInv
    <2>2. ChunkTokens \in Nat /\ ChunkTokens >= 1 /\ MaxWidth \in Nat /\ MaxWidth < ChunkTokens
        BY Cuda1Assumption
    <2>3. QED
        BY <2>1, <2>2
<1>1. /\ off < n /\ txn.kind \in Kinds
      /\ txn.kind = "append" => n \in AppendSizes /\ \E k \in 0..off : off = k * ChunkTokens
      /\ txn.kind = "decode" => n = 1
      /\ txn.kind = "speculative" => n - 1 \in 1..MaxWidth
    <2>1. step \in Running /\ step # "none" /\ step # "commit"
        BY DEF Running
    <2>2. off < n
        BY <2>1 DEF StageInv, StepInOrder
    <2>3. txn.kind = "append" => \E k \in 0..off : off = k * ChunkTokens
        BY <2>1 DEF StageInv, AppendRan
    <2>4. QED
        BY <2>1, <2>2, <2>3 DEF StageInv, OpenTogether
<1> HIDE DEF n
<1>2. /\ ChunkLen \in Nat /\ ChunkLen >= 1 /\ off + ChunkLen <= n
      /\ txn.kind # "append" => ChunkLen = 1
      /\ txn.kind = "append" => ChunkLen <= ChunkTokens /\ (ChunkLen = ChunkTokens \/ off + ChunkLen = n)
    BY <1>0, <1>1 DEF ChunkLen, n
<1>3. txn.kind = "decode" => off = 0
    BY <1>0, <1>1
<1>4. ASSUME txn.kind = "append", ChunkLen = 1 PROVE off = 0
    <2>1. PICK k \in 0..off : off = k * ChunkTokens
        BY <1>1, <1>4
    <2>2. n = 1 \/ (ChunkTokens > 1 /\ n % ChunkTokens # 1)
        BY <1>1, <1>4 DEF NoTail
    <2>3. CASE n = 1
        BY <1>0, <1>1, <2>3
    <2>4. CASE ChunkTokens > 1 /\ n % ChunkTokens # 1
        <3>1. n = off + 1
            BY <1>0, <1>2, <1>4, <2>4
        <3>2. n = k * ChunkTokens + 1 /\ k \in Nat
            BY <2>1, <3>1
        <3>3. n % ChunkTokens = 1
            BY <1>0, <2>4, <3>2, OneMore
        <3>4. QED
            BY <2>4, <3>3
    <2>5. QED
        BY <2>2, <2>3, <2>4
<1>5. At \in Nat /\ ResultIndex = At /\ At + ChunkLen <= ChunkTokens
    <2>1. CASE txn.kind = "append"
        <3>1. At = 0
            BY <2>1 DEF At
        <3>2. ResultIndex = 0
            <4>1. CASE ChunkLen > 1
                BY <2>1, <4>1 DEF ResultIndex
            <4>2. CASE ~(ChunkLen > 1)
                <5>1. ChunkLen = 1
                    BY <1>2, <4>2
                <5>2. off = 0
                    BY <1>4, <2>1, <5>1
                <5>3. QED
                    BY <4>2, <5>2 DEF ResultIndex
            <4>3. QED
                BY <4>1, <4>2
        <3>3. QED
            BY <1>0, <1>2, <2>1, <3>1, <3>2
    <2>2. CASE txn.kind = "decode"
        BY <1>0, <1>2, <1>3, <2>2 DEF At, ResultIndex
    <2>3. CASE txn.kind = "speculative"
        BY <1>0, <1>1, <1>2, <2>3 DEF At, ResultIndex
    <2>4. QED
        BY <1>1, <2>1, <2>2, <2>3 DEF Kinds
<1>6. \A i \in 1..ChunkLen : At + i - 1 \in Slots
    BY <1>0, <1>2, <1>5 DEF Slots
<1>7. /\ Chunk \in Seq(Tokens) /\ Len(Chunk) = ChunkLen
      /\ \A i \in 1..ChunkLen : Chunk[i] = txn.toks[off + i]
      /\ SubSeq(txn.toks, 1, off) \o Chunk = SubSeq(txn.toks, 1, off + ChunkLen)
    <2> DEFINE l == ChunkLen
    <2>1. l \in Nat /\ off + l <= Len(txn.toks)
        BY <1>2 DEF n
    <2>2. Chunk = SubSeq(txn.toks, off + 1, off + l)
        BY DEF Chunk
    <2> HIDE DEF l
    <2>3. QED
        BY <1>0, <2>1, <2>2, AfterMore DEF l
<1>8. ASSUME NEW k \in 0..ChunkLen
      PROVE  SubSeq(Chunk, 1, k) = SubSeq(txn.toks, off + 1, off + k)
    <2> DEFINE x == SubSeq(Chunk, 1, k)  y == SubSeq(txn.toks, off + 1, off + k)
    <2>1. k \in Nat /\ off + k <= Len(txn.toks) /\ k \in 0..Len(Chunk)
        BY <1>0, <1>2, <1>7 DEF n
    <2>2. x \in Seq(Tokens) /\ Len(x) = k /\ \A i \in 1..k : x[i] = Chunk[i]
        BY <1>7, <2>1, FirstFacts
    <2>3. y \in Seq(Tokens) /\ Len(y) = k /\ \A i \in 1..k : y[i] = txn.toks[off + i]
        BY <1>0, <2>1, AfterMore
    <2> HIDE DEF x, y
    <2>4. \A i \in 1..k : x[i] = y[i]
        <3>1. \A i \in 1..k : i \in 1..ChunkLen
            BY <1>2
        <3>2. QED
            BY <1>7, <2>2, <2>3, <3>1
    <2>5. x = y
        BY <2>2, <2>3, <2>4, SeqEqual
    <2>6. QED
        BY <2>5 DEF x, y
<1>9. QED
    BY <1>2, <1>3, <1>5, <1>6, <1>7, <1>8 DEF n

-----------------------------------------------------------------------------
(* execute, up to the prediction.                                          *)

States ==
    [be : BeRecords, mtp : MtpRecords, ws : WsRecords, gdn : Banks, qsa : QsaOf(TokenKeys),
     mqsa : QsaOf(RowKeys)]

\* The backend has entered the chunk.
InChunk(st) ==
    /\ st \in States
    /\ st.be.prov = txn.epoch /\ st.be.base = Base /\ st.be.expected = Len(txn.toks)
    /\ st.be.kind = txn.kind /\ st.be.active = TRUE /\ st.be.frontier = be.frontier
    /\ st.be.epoch = be.epoch /\ st.be.processed = off
    /\ st.be.toks = SubSeq(txn.toks, 1, off + ChunkLen)
    /\ st.ws.pend = ws.pend
    /\ \A i \in 1..ChunkLen : st.ws.toks[At + i - 1] = txn.toks[off + i]

\* The target has seen k rows of it.
TargetAt(st, k) ==
    /\ st.gdn.active = TRUE /\ st.gdn.epoch = txn.epoch /\ CommittedCopy(st.gdn) = session
    /\ Working(st.gdn) = After(Base + off + k)
    /\ st.qsa.active = TRUE /\ st.qsa.epoch = txn.epoch /\ st.qsa.committed = Base
    /\ Holds(st.qsa, Full, Base + off + k)
    /\ \A i \in 1..k : st.ws.hc[At + i - 1] = After(Base + off + i)

\* The draft model has not run.
MtpOpen == IF off = 0 THEN OpenedMtp ELSE mtp

DraftWaits(st) ==
    /\ st.mtp = MtpOpen /\ st.mqsa = mqsa
    /\ st.ws.cand = IF off = 0 /\ MtpOpen.candidate THEN ws.pend ELSE ws.cand

BeOpened(b, e, l, n, k) ==
    [b EXCEPT !.prov = e, !.base = l, !.expected = n, !.processed = 0,
              !.kind = k, !.active = TRUE, !.toks = <<>>]

IsOpened(o, b, e, l, n, k) ==
    /\ o \in BeRecords /\ o.toks = <<>> /\ o.prov = e /\ o.base = l /\ o.expected = n
    /\ o.kind = k /\ o.active = TRUE /\ o.frontier = b.frontier
    /\ o.epoch = b.epoch /\ o.processed = 0

\* The fields of a record that opens a transaction.
LEMMA OpenedBe ==
    ASSUME NEW b \in BeRecords, NEW e \in Nat, NEW l \in Nat, NEW n \in Nat, NEW k \in Kinds
    PROVE  IsOpened(BeOpened(b, e, l, n, k), b, e, l, n, k)
<1> DEFINE o == [b EXCEPT !.prov = e, !.base = l, !.expected = n, !.processed = 0,
                          !.kind = k, !.active = TRUE, !.toks = <<>>]
           x == [b EXCEPT !.prov = e, !.base = l, !.expected = n, !.processed = 0]
<1>1. x \in BeRecords
    BY DEF BeRecords
<1>2. /\ x.prov = e /\ x.base = l /\ x.expected = n /\ x.frontier = b.frontier
      /\ x.epoch = b.epoch /\ x.processed = 0
    BY DEF BeRecords
<1>3. o = [x EXCEPT !.kind = k, !.active = TRUE, !.toks = <<>>]
    OBVIOUS
<1> HIDE DEF x, o
<1>4. /\ o \in BeRecords /\ o.toks = <<>> /\ o.kind = k /\ o.active = TRUE
      /\ o.prov = x.prov /\ o.base = x.base /\ o.expected = x.expected
      /\ o.frontier = x.frontier /\ o.epoch = x.epoch /\ o.processed = x.processed
    <2>1. <<>> \in Seq(Tokens)
        OBVIOUS
    <2> DEFINE z == <<>>
    <2>2. z \in Seq(Tokens) /\ o = [x EXCEPT !.kind = k, !.active = TRUE, !.toks = z]
        BY <1>3, <2>1
    <2> HIDE DEF z
    <2>3. /\ o \in BeRecords /\ o.toks = z /\ o.kind = k /\ o.active = TRUE
          /\ o.prov = x.prov /\ o.base = x.base /\ o.expected = x.expected
          /\ o.frontier = x.frontier /\ o.epoch = x.epoch /\ o.processed = x.processed
        BY <1>1, <2>2 DEF BeRecords
    <2>4. QED
        BY <2>3 DEF z
<1>5. QED
    BY <1>2, <1>4 DEF o, BeOpened, IsOpened

\* The backend's record.
LEMMA EnteredBe ==
    ASSUME StageInv, NoTail, step = "execute"
    PROVE  LET b == Entered.be IN
           /\ b \in BeRecords
           /\ b.prov = txn.epoch /\ b.base = Base /\ b.expected = Len(txn.toks)
           /\ b.kind = txn.kind /\ b.active = TRUE /\ b.frontier = be.frontier
           /\ b.epoch = be.epoch /\ b.processed = off
           /\ b.toks = SubSeq(txn.toks, 1, off + ChunkLen)
<1> DEFINE t == SubSeq(txn.toks, 1, off)
           opened == BeOpened(be, txn.epoch, Len(session), Len(txn.toks), txn.kind)
           was == IF be.prov = 0 THEN opened ELSE be
           b == [was EXCEPT !.toks = @ \o Chunk]
<1>1. Entered.be = b
    BY DEF Entered, BeOpened
<1>2. /\ StageTypes /\ be \in BeRecords /\ txn.kind \in Kinds /\ off \in Nat /\ Len(txn.toks) \in Nat
      /\ Base \in Nat /\ txn.epoch \in Nat /\ txn.toks \in Seq(Tokens)
    <2>1. StageTypes /\ txn.kind \in Kinds
        BY DEF StageInv, OpenTogether
    <2>2. be \in BeRecords
        BY <2>1 DEF StageTypes
    <2>3. QED
        BY <2>1, <2>2, Typing
<1>3. TargetRan /\ OpenTogether /\ step # "none"
    BY DEF StageInv, Running
<1>4. /\ was \in BeRecords /\ was.toks = t
      /\ was.prov = txn.epoch /\ was.base = Base /\ was.expected = Len(txn.toks)
      /\ was.kind = txn.kind /\ was.active = TRUE /\ was.frontier = be.frontier
      /\ was.epoch = be.epoch /\ was.processed = off
    <2>1. CASE off = 0
        <3>1. be.prov = 0 /\ t = <<>>
            BY <1>2, <1>3, <2>1, SubSeqEmpty DEF TargetRan
        <3>2. was = opened
            BY <3>1
        <3> HIDE DEF was, t
        <3>3. /\ opened \in BeRecords /\ opened.toks = <<>>
              /\ opened.prov = txn.epoch /\ opened.base = Base /\ opened.expected = Len(txn.toks)
              /\ opened.kind = txn.kind /\ opened.active = TRUE /\ opened.frontier = be.frontier
              /\ opened.epoch = be.epoch /\ opened.processed = 0
            <4>1. Base = Len(session)
                BY DEF Base
            <4>2. Len(session) \in Nat
                BY <1>2, <4>1
            <4>3. IsOpened(opened, be, txn.epoch, Len(session), Len(txn.toks), txn.kind)
                BY <1>2, <4>2, OpenedBe
            <4> HIDE DEF opened
            <4>4. QED
                BY <4>1, <4>3 DEF IsOpened
        <3>4. QED
            BY <2>1, <3>1, <3>2, <3>3
    <2>2. CASE off # 0
        <3>1. off > 0 /\ be.prov # 0
            BY <1>2, <1>3, <2>2 DEF TargetRan
        <3>2. /\ be.prov = txn.epoch /\ be.active = TRUE
            BY <1>3, <3>1 DEF OpenTogether
        <3>3. /\ be.base = Base /\ be.expected = Len(txn.toks) /\ be.kind = txn.kind
              /\ be.toks = t /\ be.processed = off
            BY <1>3, <3>1 DEF TargetRan
        <3>4. QED
            BY <1>2, <3>1, <3>2, <3>3
    <2>3. QED
        BY <2>1, <2>2
<1> HIDE DEF was
<1>5. t \o Chunk = SubSeq(txn.toks, 1, off + ChunkLen) /\ Chunk \in Seq(Tokens)
    BY ChunkFacts
<1> DEFINE u == was.toks \o Chunk
<1>6. u \in Seq(Tokens) /\ u = SubSeq(txn.toks, 1, off + ChunkLen)
    <2>1. was.toks \in Seq(Tokens)
        BY <1>4 DEF BeRecords
    <2>2. QED
        BY <1>4, <1>5, <2>1, ConcatProperties
<1>7. b = [was EXCEPT !.toks = u]
    OBVIOUS
<1> HIDE DEF b, u
<1>8. /\ b \in BeRecords /\ b.toks = u
      /\ b.prov = was.prov /\ b.base = was.base /\ b.expected = was.expected
      /\ b.kind = was.kind /\ b.active = was.active /\ b.frontier = was.frontier
      /\ b.epoch = was.epoch /\ b.processed = was.processed
    BY <1>4, <1>6, <1>7 DEF BeRecords
<1>9. QED
    BY <1>1, <1>4, <1>6, <1>8

\* The target's banks.
LEMMA EnteredBanks ==
    ASSUME StageInv, NoTail, step = "execute"
    PROVE  /\ Entered.gdn \in Banks /\ Entered.qsa \in QsaOf(TokenKeys)
           /\ Entered.gdn.active = TRUE /\ Entered.gdn.epoch = txn.epoch
           /\ CommittedCopy(Entered.gdn) = session /\ Working(Entered.gdn) = After(Base + off)
           /\ Entered.qsa.active = TRUE /\ Entered.qsa.epoch = txn.epoch
           /\ Entered.qsa.committed = Base /\ Holds(Entered.qsa, Full, Base + off)
<1>1. /\ Entered.gdn = IF be.prov = 0 THEN BankBegin(gdn, txn.epoch) ELSE gdn
      /\ Entered.qsa = IF be.prov = 0 THEN QsaBegin(qsa, txn.epoch) ELSE qsa
    BY DEF Entered
<1>2. StageTypes /\ TargetRan /\ OpenTogether /\ step # "none" /\ SessionHeld
    BY DEF StageInv, Running
<1>3. /\ gdn \in Banks /\ qsa \in QsaOf(TokenKeys) /\ txn.epoch \in Nat /\ off \in Nat
      /\ Base \in Nat
    BY <1>2, Typing DEF StageTypes
<1>4. CommittedCopy(gdn) = session /\ qsa.committed = Base /\ Holds(qsa, session, Base)
    BY <1>2 DEF SessionHeld
<1>5. CASE off = 0
    <2>1. be.prov = 0
        BY <1>2, <1>3, <1>5 DEF TargetRan
    <2>2. LET c == BankBegin(gdn, txn.epoch) IN
          /\ c \in Banks /\ Working(c) = session /\ CommittedCopy(c) = session
          /\ c.active = TRUE /\ c.epoch = txn.epoch
        BY <1>3, <1>4, BankBeginFacts
    <2>3. LET c == QsaBegin(qsa, txn.epoch) IN
          /\ c \in QsaOf(TokenKeys) /\ c.keys = qsa.keys /\ c.pooled = qsa.pooled
          /\ c.active = TRUE /\ c.epoch = txn.epoch /\ c.committed = Base
        BY <1>3, <1>4, QsaBeginFacts
    <2>4. /\ session \in Seq(Tokens) /\ txn.toks \in Seq(Tokens)
        BY <1>2, Typing
    <2>5. After(Base) = session /\ \A i \in 1..Base : Full[i] = session[i]
        BY <2>4, FullFacts
    <2>6. Base \in 0..Base /\ Base + off = Base
        BY <1>3, <1>5
    <2> DEFINE c == QsaBegin(qsa, txn.epoch)
    <2>7. c.keys = qsa.keys /\ c.pooled = qsa.pooled
        BY <2>3
    <2> HIDE DEF c
    <2>8. Holds(c, Full, Base)
        BY <1>3, <1>4, <2>5, <2>6, <2>7, HoldsLess
    <2>9. QED
        BY <1>1, <2>1, <2>2, <2>3, <2>5, <2>6, <2>8 DEF c
<1>6. CASE off # 0
    <2>1. off > 0 /\ be.prov # 0
        BY <1>2, <1>3, <1>6 DEF TargetRan
    <2>2. be.prov = txn.epoch /\ gdn.active = TRUE /\ qsa.active = TRUE
        BY <1>2, <2>1 DEF OpenTogether
    <2>3. /\ gdn.epoch = be.prov /\ qsa.epoch = be.prov
          /\ Working(gdn) = After(Base + off) /\ Holds(qsa, Full, Base + off)
        BY <1>2, <2>1 DEF TargetRan
    <2>4. QED
        BY <1>1, <1>3, <1>4, <2>1, <2>2, <2>3
<1>7. QED
    BY <1>5, <1>6

\* The draft model's members when the first chunk opens the transaction.
LEMMA OpenedFacts ==
    ASSUME StageTypes
    PROVE  LET m == OpenedMtp IN
           /\ m \in MtpRecords /\ m.pending = mtp.pending
           /\ m.candidate = (txn.kind = "append" /\ mtp.pending)
           /\ RetainedDraft => /\ m.active = mtp.active /\ m.epoch = mtp.epoch
                               /\ m.rows = mtp.rows /\ m.reconciled = mtp.reconciled
           /\ ~RetainedDraft => m.active = FALSE /\ m.rows = 0
<1> DEFINE c == (txn.kind = "append" /\ mtp.pending)
           w == IF RetainedDraft THEN mtp ELSE [FreshMtp EXCEPT !.pending = mtp.pending]
           m == [w EXCEPT !.candidate = c]
<1>1. mtp \in MtpRecords /\ c \in BOOLEAN /\ mtp.pending \in BOOLEAN
    BY DEF StageTypes, MtpRecords
<1>2. OpenedMtp = m
    BY DEF OpenedMtp
<1>3. /\ w \in MtpRecords /\ w.pending = mtp.pending
      /\ RetainedDraft => w = mtp
      /\ ~RetainedDraft => w.active = FALSE /\ w.rows = 0
    <2> HIDE DEF c
    <2>1. CASE RetainedDraft
        BY <1>1, <2>1
    <2>2. CASE ~RetainedDraft
        BY <1>1, <2>2 DEF FreshMtp, MtpRecords
    <2>3. QED
        BY <2>1, <2>2
<1> HIDE DEF w
<1>4. /\ m \in MtpRecords /\ m.pending = w.pending /\ m.active = w.active /\ m.epoch = w.epoch
      /\ m.rows = w.rows /\ m.reconciled = w.reconciled /\ m.candidate = c
    <2> HIDE DEF c
    <2>1. QED
        BY <1>1, <1>3 DEF MtpRecords
<1> HIDE DEF m
<1>5. QED
    BY <1>2, <1>3, <1>4

\* The workspace, with the chunk's tokens in it.
LEMMA EnteredWs ==
    ASSUME StageInv, NoTail, step = "execute"
    PROVE  LET w == Entered.ws IN
           /\ w \in WsRecords /\ w.pend = ws.pend /\ w.hc = ws.hc /\ w.pred = ws.pred
           /\ w.cand = IF off = 0 /\ MtpOpen.candidate THEN ws.pend ELSE ws.cand
           /\ \A i \in 1..ChunkLen : w.toks[At + i - 1] = txn.toks[off + i]
<1> DEFINE seeded == IF be.prov = 0 /\ OpenedMtp.candidate THEN [ws EXCEPT !.cand = ws.pend] ELSE ws
           c == IF off = 0 /\ MtpOpen.candidate THEN ws.pend ELSE ws.cand
           f == Written(seeded.toks, At, Chunk)
           w == [seeded EXCEPT !.toks = f]
<1>1. Entered.ws = w
    BY DEF Entered, At
<1>2. StageTypes /\ TargetRan /\ ws \in WsRecords /\ off \in Nat
    BY DEF StageInv, Running, StageTypes
<1>4. /\ seeded \in WsRecords /\ seeded.pend = ws.pend /\ seeded.hc = ws.hc
      /\ seeded.pred = ws.pred /\ seeded.toks = ws.toks /\ seeded.cand = c
    <2>1. ws.pend \in Hcs /\ (be.prov = 0 <=> off = 0)
        BY <1>2, Typing DEF TargetRan
    <2>2. be.prov = 0 /\ OpenedMtp.candidate <=> off = 0 /\ MtpOpen.candidate
        BY <2>1 DEF MtpOpen
    <2>3. CASE off = 0 /\ MtpOpen.candidate
        <3>1. seeded = [ws EXCEPT !.cand = ws.pend] /\ c = ws.pend
            BY <2>2, <2>3
        <3> HIDE DEF seeded, c
        <3>2. QED
            BY <1>2, <2>1, <3>1 DEF WsRecords
    <2>4. CASE ~(off = 0 /\ MtpOpen.candidate)
        <3>1. seeded = ws /\ c = ws.cand
            BY <2>2, <2>4
        <3> HIDE DEF seeded, c
        <3>2. QED
            BY <1>2, <3>1
    <2>5. QED
        BY <2>3, <2>4
<1> HIDE DEF seeded, c
<1>5. Chunk \in Seq(Cells)
    <2>1. Chunk \in Seq(Tokens) /\ Tokens \subseteq Cells
        BY ChunkFacts DEF Cells
    <2>2. QED
        BY <2>1, SeqMonotonic
<1>6. At \in Nat /\ seeded.toks \in [Slots -> Cells]
    BY <1>4, ChunkFacts DEF WsRecords
<1>7. /\ f \in [Slots -> Cells]
      /\ \A i \in 1..Len(Chunk) : At + i - 1 \in Slots => f[At + i - 1] = Chunk[i]
    BY <1>5, <1>6, WrittenFacts
<1> HIDE DEF f
<1>8. \A i \in 1..ChunkLen : f[At + i - 1] = txn.toks[off + i]
    <2>1. /\ Len(Chunk) = ChunkLen /\ \A i \in 1..ChunkLen : At + i - 1 \in Slots
          /\ \A i \in 1..ChunkLen : Chunk[i] = txn.toks[off + i]
        BY ChunkFacts
    <2>2. QED
        BY <1>7, <2>1
<1>9. /\ w \in WsRecords /\ w.pend = seeded.pend /\ w.hc = seeded.hc /\ w.pred = seeded.pred
      /\ w.cand = seeded.cand /\ w.toks = f
    BY <1>4, <1>7 DEF WsRecords
<1> HIDE DEF w
<1>10. QED
    BY <1>1, <1>4, <1>8, <1>9 DEF c

\* The backend has entered the chunk and run nothing.
LEMMA EnteredFacts ==
    ASSUME StageInv, NoTail, step = "execute"
    PROVE  InChunk(Entered) /\ TargetAt(Entered, 0) /\ DraftWaits(Entered)
<1>1. StageTypes /\ TargetRan /\ off \in Nat /\ Base \in Nat
    BY Typing DEF StageInv, Running
<1>2. Entered.mtp = MtpOpen /\ Entered.mqsa = mqsa
    <2>1. be.prov = 0 <=> off = 0
        BY <1>1, Typing DEF TargetRan
    <2>2. Entered.mtp = IF be.prov = 0 THEN OpenedMtp ELSE mtp
        BY DEF Entered
    <2>3. Entered.mqsa = mqsa
        BY DEF Entered
    <2>4. QED
        BY <2>1, <2>2, <2>3 DEF MtpOpen
<1>3. MtpOpen \in MtpRecords /\ mqsa \in QsaOf(RowKeys)
    BY <1>1, OpenedFacts DEF MtpOpen, StageTypes
<1>4. Entered \in States
    <2>1. Entered = [be |-> Entered.be, mtp |-> Entered.mtp, ws |-> Entered.ws, gdn |-> Entered.gdn,
                     qsa |-> Entered.qsa, mqsa |-> Entered.mqsa]
        BY DEF Entered
    <2>2. Entered.be \in BeRecords
        BY EnteredBe
    <2>3. Entered.ws \in WsRecords
        BY EnteredWs
    <2>4. Entered.gdn \in Banks /\ Entered.qsa \in QsaOf(TokenKeys)
        BY EnteredBanks
    <2>5. Entered.mtp \in MtpRecords /\ Entered.mqsa \in QsaOf(RowKeys)
        BY <1>2, <1>3
    <2>6. QED
        BY <2>1, <2>2, <2>3, <2>4, <2>5 DEF States
<1>5. InChunk(Entered)
    BY <1>4, EnteredBe, EnteredWs DEF InChunk
<1>6. TargetAt(Entered, 0)
    <2>1. Base + off + 0 = Base + off
        BY <1>1
    <2>2. \A i \in 1..0 : Entered.ws.hc[At + i - 1] = After(Base + off + i)
        OBVIOUS
    <2>3. QED
        BY <2>1, <2>2, EnteredBanks DEF TargetAt
<1>7. DraftWaits(Entered)
    BY <1>2, EnteredWs DEF DraftWaits
<1>8. QED
    BY <1>5, <1>6, <1>7

StateWritten(c, st, g, q, h) ==
    /\ c \in States /\ c.gdn = g /\ c.qsa = q /\ c.be = st.be /\ c.mtp = st.mtp
    /\ c.mqsa = st.mqsa /\ c.ws.hc = h /\ c.ws.pred = st.ws.pred /\ c.ws.toks = st.ws.toks
    /\ c.ws.cand = st.ws.cand /\ c.ws.pend = st.ws.pend

\* New banks and new HCs in a state.
LEMMA StateWrite ==
    ASSUME NEW st \in States, NEW g \in Banks, NEW q \in QsaOf(TokenKeys), NEW h \in [Slots -> Hcs]
    PROVE  StateWritten([st EXCEPT !.gdn = g, !.qsa = q, !.ws.hc = h], st, g, q, h)
<1> DEFINE w == [st.ws EXCEPT !.hc = h]
           c == [st EXCEPT !.gdn = g, !.qsa = q, !.ws.hc = h]
<1>1. st.ws \in WsRecords
    BY DEF States
<1>2. /\ w \in WsRecords /\ w.hc = h /\ w.pred = st.ws.pred /\ w.toks = st.ws.toks
      /\ w.cand = st.ws.cand /\ w.pend = st.ws.pend
    BY <1>1 DEF WsRecords
<1>3. c = [st EXCEPT !.gdn = g, !.qsa = q, !.ws = w]
    BY DEF States
<1> HIDE DEF w, c
<1>4. /\ c \in States /\ c.gdn = g /\ c.qsa = q /\ c.be = st.be /\ c.mtp = st.mtp
      /\ c.mqsa = st.mqsa /\ c.ws = w
    BY <1>2, <1>3 DEF States
<1>5. QED
    BY <1>2, <1>4 DEF c, StateWritten

\* The target's run over k rows of the chunk.
LEMMA RunFacts ==
    ASSUME StageInv, NoTail, step = "execute",
           NEW st, InChunk(st), TargetAt(st, 0), NEW k \in 0..ChunkLen
    PROVE  LET r == TargetRun(st, k) IN
           /\ InChunk(r) /\ TargetAt(r, k)
           /\ r.mtp = st.mtp /\ r.mqsa = st.mqsa
           /\ r.ws.cand = st.ws.cand /\ r.ws.pred = st.ws.pred
<1> DEFINE rows == SubSeq(Chunk, 1, k)
           hcs == [i \in 1..k |-> Working(st.gdn) \o SubSeq(rows, 1, i)]
           n == Base + off
           g == BankFold(st.gdn, rows)
           q == QsaStore(st.qsa, st.be.base + off, rows)
           h == Written(st.ws.hc, ResultIndex, hcs)
           r == [st EXCEPT !.gdn = g, !.qsa = q, !.ws.hc = h]
<1>1. TargetRun(st, k) = r
    BY DEF TargetRun
<1>2. /\ session \in Seq(Tokens) /\ txn.toks \in Seq(Tokens) /\ off \in Nat /\ Base \in Nat
      /\ Len(txn.toks) \in Nat
    BY Typing DEF StageInv
<1>3. /\ ChunkLen \in Nat /\ off + ChunkLen <= Len(txn.toks) /\ At \in Nat /\ ResultIndex = At
      /\ \A i \in 1..ChunkLen : At + i - 1 \in Slots
    BY ChunkFacts
<1>4. k \in Nat /\ off + k <= Len(txn.toks) /\ n \in Nat
    BY <1>2, <1>3
<1>5. /\ st \in States /\ st.be.base = Base /\ st.gdn \in Banks /\ st.qsa \in QsaOf(TokenKeys)
      /\ st.ws.hc \in [Slots -> Hcs]
    <2>1. st \in States /\ st.be.base = Base
        BY DEF InChunk
    <2>2. st.gdn \in Banks /\ st.qsa \in QsaOf(TokenKeys) /\ st.ws \in WsRecords
        BY <2>1 DEF States
    <2>3. QED
        BY <2>1, <2>2 DEF WsRecords
<1>6. /\ Working(st.gdn) = After(n) /\ CommittedCopy(st.gdn) = session /\ st.gdn.active = TRUE
      /\ st.gdn.epoch = txn.epoch /\ st.qsa.active = TRUE /\ st.qsa.epoch = txn.epoch
      /\ st.qsa.committed = Base /\ Holds(st.qsa, Full, n)
    <2>1. n + 0 = n
        BY <1>4
    <2>2. QED
        BY <2>1 DEF TargetAt
<1>7. ASSUME NEW i \in 0..k
      PROVE  /\ SubSeq(rows, 1, i) = SubSeq(txn.toks, off + 1, off + i)
             /\ SubSeq(rows, 1, i) \in Seq(Tokens) /\ Len(SubSeq(rows, 1, i)) = i
             /\ After(n) \o SubSeq(rows, 1, i) = After(n + i)
             /\ n + i \in 0..Base + Len(txn.toks)
    <2>0. Chunk \in Seq(Tokens) /\ Len(Chunk) = ChunkLen
        BY ChunkFacts
    <2>1. i \in 0..ChunkLen /\ k \in 0..Len(Chunk)
        BY <1>3, <2>0
    <2>2. SubSeq(rows, 1, i) = SubSeq(Chunk, 1, i)
        BY <2>0, <2>1, FirstOfFirst
    <2>3. SubSeq(Chunk, 1, i) = SubSeq(txn.toks, off + 1, off + i)
        BY <2>1, ChunkFacts
    <2>4. i \in Nat /\ off + i <= Len(txn.toks)
        BY <1>2, <1>3, <2>1
    <2>5. /\ SubSeq(txn.toks, off + 1, off + i) \in Seq(Tokens)
          /\ Len(SubSeq(txn.toks, off + 1, off + i)) = i
          /\ After(Base + off) \o SubSeq(txn.toks, off + 1, off + i) = After(Base + off + i)
        BY <1>2, <2>4, AfterMore
    <2>6. n + i \in 0..Base + Len(txn.toks)
        BY <1>2, <2>4
    <2>7. QED
        BY <2>2, <2>3, <2>5, <2>6
<1>8. rows \in Seq(Tokens) /\ Len(rows) = k /\ After(n) \o rows = After(n + k)
      /\ \A i \in 1..k : rows[i] = txn.toks[off + i]
    <2>1. k \in 0..k /\ k \in 0..Len(Chunk) /\ Chunk \in Seq(Tokens)
        BY <1>3, <1>4, ChunkFacts
    <2>2. rows \in Seq(Tokens) /\ Len(rows) = k /\ \A i \in 1..k : rows[i] = Chunk[i]
        BY <2>1, FirstFacts
    <2>3. \A i \in 1..k : Chunk[i] = txn.toks[off + i]
        <3>1. \A i \in 1..k : i \in 1..ChunkLen
            BY <1>3
        <3>2. QED
            BY <3>1, ChunkFacts
    <2>4. SubSeq(rows, 1, k) = rows
        <3> HIDE DEF rows
        <3>1. QED
            BY <2>2, SubSeqFull
    <2>5. After(n) \o SubSeq(rows, 1, k) = After(n + k)
        BY <1>7, <2>1
    <2>6. QED
        BY <2>2, <2>3, <2>4, <2>5
<1> HIDE DEF rows
<1>9. g \in Banks /\ Working(g) = After(n + k) /\ CommittedCopy(g) = session
      /\ g.active = TRUE /\ g.epoch = txn.epoch
    BY <1>5, <1>6, <1>8, BankFoldFacts
<1> HIDE DEF g
<1>10. /\ q \in QsaOf(TokenKeys) /\ Holds(q, Full, n + k) /\ q.committed = Base
       /\ q.active = TRUE /\ q.epoch = txn.epoch
    <2>1. rows \in Seq(TokenKeys)
        <3>1. Tokens \subseteq TokenKeys
            BY DEF TokenKeys
        <3>2. QED
            BY <1>8, <3>1, SeqMonotonic
    <2>2. \A i \in 1..k : Full[n + i] = rows[i]
        <3>1. \A i \in 1..Len(txn.toks) : Full[Base + i] = txn.toks[i]
            BY <1>2, FullFacts
        <3>2. ASSUME NEW i \in 1..k PROVE Full[n + i] = rows[i]
            <4>1. off + i \in 1..Len(txn.toks) /\ n + i = Base + (off + i)
                BY <1>2, <1>4
            <4>2. QED
                BY <1>8, <3>1, <4>1
        <3>3. QED
            BY <3>2
    <2>3. k \in 0..Len(rows)
        BY <1>4, <1>8
    <2> DEFINE c == QsaStore(st.qsa, n, rows)
    <2>4. /\ c \in QsaOf(TokenKeys) /\ Holds(c, Full, n + k)
          /\ c.committed = st.qsa.committed /\ c.active = st.qsa.active
          /\ c.epoch = st.qsa.epoch
        <3> HIDE DEF n
        <3>1. QED
            BY <1>4, <1>5, <1>6, <2>1, <2>2, <2>3, HoldsStore
    <2>5. q = c
        BY <1>5
    <2> HIDE DEF c, q
    <2>6. QED
        BY <1>6, <2>4, <2>5
<1> HIDE DEF q
<1>11. h \in [Slots -> Hcs] /\ \A i \in 1..k : h[At + i - 1] = After(Base + off + i)
    <2>1. hcs = [i \in 1..k |-> After(n + i)]
        BY <1>6, <1>7
    <2>2. \A i \in 1..k : After(n + i) \in Hcs
        <3>1. ASSUME NEW i \in 1..k PROVE After(n + i) \in Seq(Tokens)
            <4>1. n + i \in 0..Base + Len(txn.toks)
                BY <1>7
            <4>2. QED
                BY <1>2, <4>1, FullFacts
        <3>2. QED
            BY <3>1 DEF Hcs
    <2> HIDE DEF hcs
    <2>3. hcs \in Seq(Hcs) /\ Len(hcs) = k /\ \A i \in 1..k : hcs[i] = After(n + i)
        <3>1. hcs \in [1..k -> Hcs] /\ k \in Nat
            BY <1>4, <2>1, <2>2
        <3>2. hcs \in Seq(Hcs) /\ DOMAIN hcs = 1..k
            BY <3>1
        <3>3. Len(hcs) = k
            BY <3>1, <3>2, LenProperties
        <3>4. QED
            BY <2>1, <3>2, <3>3
    <2>4. /\ h \in [Slots -> Hcs]
          /\ \A i \in 1..Len(hcs) : At + i - 1 \in Slots => h[At + i - 1] = hcs[i]
        BY <1>3, <1>5, <2>3, WrittenFacts
    <2> HIDE DEF h
    <2>5. ASSUME NEW i \in 1..k PROVE h[At + i - 1] = After(Base + off + i)
        <3>1. i \in 1..Len(hcs) /\ At + i - 1 \in Slots
            <4>1. i \in 1..ChunkLen
                BY <1>3
            <4>2. QED
                BY <1>3, <2>3, <4>1
        <3>2. QED
            BY <2>3, <2>4, <3>1
    <2>6. QED
        BY <2>4, <2>5
<1> HIDE DEF h
<1>12. /\ r \in States /\ r.gdn = g /\ r.qsa = q /\ r.be = st.be /\ r.mtp = st.mtp
       /\ r.mqsa = st.mqsa /\ r.ws.hc = h /\ r.ws.pred = st.ws.pred /\ r.ws.toks = st.ws.toks
       /\ r.ws.cand = st.ws.cand /\ r.ws.pend = st.ws.pend
    <2>1. st \in States /\ g \in Banks /\ q \in QsaOf(TokenKeys) /\ h \in [Slots -> Hcs]
        BY <1>5, <1>9, <1>10, <1>11
    <2>2. StateWritten(r, st, g, q, h)
        BY <2>1, StateWrite
    <2> HIDE DEF r
    <2>3. QED
        BY <2>2 DEF StateWritten
<1> HIDE DEF r
<1>13. InChunk(r)
    BY <1>12 DEF InChunk
<1>14. TargetAt(r, k)
    BY <1>9, <1>10, <1>11, <1>12 DEF TargetAt
<1>15. QED
    BY <1>1, <1>12, <1>13, <1>14

\* What a prediction changes.
PredictedFrom(r, st, t) ==
    /\ InChunk(r) /\ TargetAt(r, ChunkLen) /\ r.qsa.evaluated = off + ChunkLen
    /\ r.mtp = st.mtp /\ r.mqsa = st.mqsa /\ r.ws.cand = st.ws.cand
    /\ r.ws.pred[At + ChunkLen - 1] = [hc |-> After(Base + off + ChunkLen), tok |-> t]
    /\ \A j \in Slots : j # At + ChunkLen - 1 => r.ws.pred[j] = st.ws.pred[j]

\* The prediction of the chunk's last row.
LEMMA PredictedFacts ==
    ASSUME StageInv, NoTail, step = "execute",
           NEW st, InChunk(st), TargetAt(st, ChunkLen), NEW t \in Tokens
    PROVE  PredictedFrom(Predicted(st, t), st, t)
<1> DEFINE l == ChunkLen
           v == [hc |-> Working(st.gdn), tok |-> t]
           q == QsaMark(st.qsa, off + l)
           f == Written(st.ws.pred, ResultIndex + l - 1, <<v>>)
           w == [st.ws EXCEPT !.pred = f]
           r == [st EXCEPT !.qsa = q, !.ws.pred = f]
<1>1. Predicted(st, t) = r
    BY DEF Predicted
<1>2. off \in Nat /\ Base \in Nat
    BY Typing DEF StageInv
<1>3. l \in Nat /\ l >= 1 /\ At \in Nat /\ ResultIndex = At /\ At + l - 1 \in Slots
    <2>1. l \in Nat /\ l >= 1 /\ At \in Nat /\ ResultIndex = At
        BY ChunkFacts
    <2>2. l \in 1..ChunkLen
        BY <2>1
    <2>3. At + l - 1 \in Slots
        BY <2>2, ChunkFacts
    <2>4. QED
        BY <2>1, <2>3
<1>4. st \in States /\ st.ws \in WsRecords /\ st.qsa \in QsaOf(TokenKeys) /\ st.gdn \in Banks
    BY DEF InChunk, States
<1>5. st.ws.pred \in [Slots -> Predictions]
    BY <1>4 DEF WsRecords
<1>6. Working(st.gdn) = After(Base + off + l)
    BY DEF TargetAt
<1>7. v \in Predictions
    <2>1. Working(st.gdn) \in Seq(Tokens)
        BY <1>4, BankTypes
    <2>2. QED
        BY <2>1 DEF Predictions, Hcs, Cells
<1>8. v = [hc |-> After(Base + off + l), tok |-> t]
    BY <1>6
<1> HIDE DEF v
<1>9. /\ f \in [Slots -> Predictions] /\ f[At + l - 1] = v
      /\ \A j \in Slots : j # At + l - 1 => f[j] = st.ws.pred[j]
    <2> DEFINE s == <<v>>  p == At + l - 1
    <2>1. s \in Seq(Predictions) /\ Len(s) = 1 /\ s[1] = v
        BY <1>7
    <2>2. p \in Nat /\ p \in Slots /\ f = Written(st.ws.pred, p, s)
        BY <1>3
    <2> HIDE DEF s, p, f
    <2>3. /\ f \in [Slots -> Predictions]
          /\ \A j \in Slots : j < p \/ j > p + Len(s) - 1 => f[j] = st.ws.pred[j]
          /\ \A i \in 1..Len(s) : p + i - 1 \in Slots => f[p + i - 1] = s[i]
        <3> DEFINE g == st.ws.pred  y == Written(g, p, s)
        <3>1. g \in [Slots -> Predictions] /\ s \in Seq(Predictions) /\ p \in Nat
            BY <1>5, <2>1, <2>2
        <3>2. f = y
            BY <2>2
        <3> HIDE DEF g
        <3>3. /\ y \in [Slots -> Predictions]
              /\ \A j \in Slots : j < p \/ j > p + Len(s) - 1 => y[j] = g[j]
              /\ \A i \in 1..Len(s) : p + i - 1 \in Slots => y[p + i - 1] = s[i]
            BY <3>1, WrittenFacts
        <3>4. QED
            BY <3>2, <3>3 DEF g
    <2>4. f[p] = v
        <3>1. 1 \in 1..Len(s) /\ p + 1 - 1 = p
            BY <2>1, <2>2
        <3>2. QED
            BY <2>1, <2>2, <2>3, <3>1
    <2>5. \A j \in Slots : j # p => f[j] = st.ws.pred[j]
        <3>1. ASSUME NEW j \in Slots, j # p PROVE f[j] = st.ws.pred[j]
            <4>1. j \in Int
                BY Cuda1Assumption DEF Slots
            <4>2. j < p \/ j > p + Len(s) - 1
                BY <2>1, <2>2, <3>1, <4>1
            <4>3. QED
                BY <2>3, <4>2
        <3>2. QED
            BY <3>1
    <2>6. QED
        BY <2>3, <2>4, <2>5 DEF p
<1> HIDE DEF f
<1>10. /\ q \in QsaOf(TokenKeys) /\ q.keys = st.qsa.keys /\ q.pooled = st.qsa.pooled
       /\ q.committed = st.qsa.committed /\ q.active = st.qsa.active /\ q.epoch = st.qsa.epoch
       /\ q.evaluated = off + l
    <2> DEFINE n == off + l
    <2>1. n \in Nat
        BY <1>2, <1>3
    <2> DEFINE b == st.qsa  c == QsaMark(b, n)
    <2>2. b \in QsaOf(TokenKeys)
        BY <1>4
    <2> HIDE DEF n, b
    <2>3. /\ c \in QsaOf(TokenKeys) /\ c.keys = b.keys /\ c.pooled = b.pooled
          /\ c.committed = b.committed /\ c.active = b.active /\ c.epoch = b.epoch
          /\ c.evaluated = n
        BY <2>1, <2>2, QsaMarkFacts
    <2>4. c = q
        BY DEF n, b
    <2> HIDE DEF c, q
    <2>5. QED
        BY <2>3, <2>4 DEF n, b
<1> HIDE DEF q
<1>11. /\ w \in WsRecords /\ w.hc = st.ws.hc /\ w.pred = f /\ w.toks = st.ws.toks
       /\ w.cand = st.ws.cand /\ w.pend = st.ws.pend
    BY <1>4, <1>9 DEF WsRecords
<1>12. r = [st EXCEPT !.qsa = q, !.ws = w]
    BY <1>4 DEF States
<1> HIDE DEF r, w
<1>13. /\ r \in States /\ r.gdn = st.gdn /\ r.qsa = q /\ r.be = st.be /\ r.mtp = st.mtp
       /\ r.mqsa = st.mqsa /\ r.ws = w
    BY <1>4, <1>10, <1>11, <1>12 DEF States
<1>14. InChunk(r)
    BY <1>11, <1>13 DEF InChunk
<1>15. TargetAt(r, l)
    <2>1. Holds(q, Full, Base + off + l)
        <3>1. Holds(st.qsa, Full, Base + off + l)
            BY DEF TargetAt
        <3>2. QED
            BY <1>10, <3>1 DEF Holds
    <2>2. QED
        BY <1>10, <1>11, <1>13, <2>1 DEF TargetAt
<1>16. QED
    BY <1>1, <1>8, <1>9, <1>10, <1>11, <1>13, <1>14, <1>15 DEF PredictedFrom

-----------------------------------------------------------------------------
(* The draft model's rows.                                                 *)

\* Tiles do not change the order of the rows.
LEMMA MtpRowFacts ==
    ASSUME NEW w, NEW had \in BOOLEAN, NEW i \in Nat
    PROVE  MtpRow(w, had, i) = <<IF had /\ i = 0 THEN w.cand ELSE w.hc[IF had THEN i - 1 ELSE i],
                                 w.toks[i + One(~had)]>>
<1> DEFINE first == (i \div TileTokens) * TileTokens
<1>1. first \in Int
    BY Cuda1Assumption
<1>2. MtpRow(w, had, i) =
        <<IF had /\ i = 0 THEN w.cand ELSE w.hc[(IF had THEN first - 1 ELSE first) + (i - first)],
          w.toks[first + One(~had) + (i - first)]>>
    BY DEF MtpRow
<1> HIDE DEF first
<1>3. /\ (IF had THEN first - 1 ELSE first) + (i - first) = IF had THEN i - 1 ELSE i
      /\ first + One(~had) + (i - first) = i + One(~had)
    BY <1>1 DEF One
<1>4. QED
    BY <1>2, <1>3

\* What a run of the draft model leaves.
MtpFed(c, q, n) == c \in QsaOf(RowKeys) /\ Holds(c, Rows, n) /\ c.committed = q.committed

\* The rows made of the target's HCs and of the tokens behind them are those of
\* the whole sequence, whether or not there is a candidate HC to begin with.
LEMMA MtpRunFacts ==
    ASSUME StageTypes, NEW w \in WsRecords, NEW had \in BOOLEAN, NEW a \in Nat, NEW l \in Nat,
           a + l <= Len(txn.toks), l <= ChunkTokens,
           \A i \in 1..l : w.toks[i - 1] = txn.toks[a + i],
           \A i \in 1..l : w.hc[i - 1] = After(Base + a + i),
           had => w.cand = After(Base + a),
           NEW p \in Nat, p + One(had) = Base + a,
           NEW q \in QsaOf(RowKeys), Holds(q, Rows, p),
           NEW k \in Nat, k + One(~had) <= l
    PROVE  MtpFed(MtpRun(q, w, had, p, k), q, p + k)
<1> DEFINE t == [i \in 1..k |-> MtpRow(w, had, i - 1)]
<1>1. MtpRun(q, w, had, p, k) = QsaStore(q, p, t)
    BY DEF MtpRun
<1>2. /\ session \in Seq(Tokens) /\ txn.toks \in Seq(Tokens) /\ Base \in Nat /\ Len(txn.toks) \in Nat
      /\ Full \in Seq(Tokens) /\ Len(Full) = Base + Len(txn.toks)
      /\ \A i \in 1..Len(txn.toks) : Full[Base + i] = txn.toks[i]
    BY Typing, FullFacts
<1>3. /\ w.cand \in Hcs /\ \A j \in Slots : w.hc[j] \in Hcs /\ w.toks[j] \in Cells
    BY DEF WsRecords
<1> DEFINE o == One(had)  z == One(~had)
<1>4. /\ o \in Nat /\ z \in Nat /\ o + z = 1 /\ (had => o = 1) /\ (~had => o = 0)
      /\ p + o = Base + a /\ k + z <= l
    BY DEF One
<1>5. ChunkTokens \in Nat
    BY Cuda1Assumption
<1>6. ASSUME NEW i \in 1..k
      PROVE  t[i] \in RowKeys /\ t[i] = Rows[p + i]
    <2> DEFINE x == i + z
    <2>1. i - 1 \in Nat /\ t[i] = MtpRow(w, had, i - 1)
        OBVIOUS
    <2>2. MtpRow(w, had, i - 1) =
            <<IF had /\ i - 1 = 0 THEN w.cand ELSE w.hc[IF had THEN (i - 1) - 1 ELSE i - 1],
              w.toks[(i - 1) + z]>>
        BY <2>1, MtpRowFacts
    <2> HIDE DEF o, z
    <2>3. x \in 1..l /\ x - 1 = (i - 1) + z /\ x - 1 \in Slots
        BY <1>4, <1>5 DEF Slots
    <2>4. /\ p + i + 1 = Base + (a + x) /\ a + x \in 1..Len(txn.toks)
          /\ p + i \in 1..Len(Full) - 1
        BY <1>2, <1>4, <2>3
    <2>5. w.toks[x - 1] = Full[p + i + 1] /\ w.toks[x - 1] \in Cells
        <3>1. w.toks[x - 1] = txn.toks[a + x]
            BY <2>3
        <3>2. Full[Base + (a + x)] = txn.toks[a + x]
            BY <1>2, <2>4
        <3> HIDE DEF x
        <3>3. QED
            BY <1>3, <2>3, <2>4, <3>1, <3>2
    <2> DEFINE h == IF had /\ i - 1 = 0 THEN w.cand ELSE w.hc[IF had THEN (i - 1) - 1 ELSE i - 1]
    <2>6. h = After(p + i) /\ h \in Hcs
        <3>1. CASE had /\ i = 1
            <4>1. h = w.cand /\ p + i = Base + a
                BY <1>2, <1>4, <3>1
            <4>2. QED
                BY <1>3, <3>1, <4>1
        <3>2. CASE had /\ i # 1
            <4>0. i - 1 \in 1..l /\ (i - 1) - 1 \in 0..ChunkTokens - 1
                BY <1>4, <1>5, <3>2
            <4>1. h = w.hc[(i - 1) - 1] /\ i - 1 \in 1..l /\ (i - 1) - 1 \in Slots
                BY <3>2, <4>0 DEF Slots
            <4>2. Base + a + (i - 1) = p + i
                BY <1>2, <1>4, <3>2
            <4>3. w.hc[(i - 1) - 1] = After(Base + a + (i - 1))
                BY <4>1
            <4>4. QED
                BY <1>3, <4>1, <4>2, <4>3
        <3>3. CASE ~had
            <4>1. h = w.hc[i - 1] /\ i \in 1..l /\ i - 1 \in Slots
                BY <1>4, <1>5, <3>3 DEF Slots
            <4>2. Base + a + i = p + i
                BY <1>2, <1>4, <3>3
            <4>3. w.hc[i - 1] = After(Base + a + i)
                BY <4>1
            <4>4. QED
                BY <1>3, <4>1, <4>2, <4>3
        <3>4. QED
            BY <3>1, <3>2, <3>3
    <2>7. t[i] = <<h, w.toks[x - 1]>>
        BY <2>1, <2>2, <2>3
    <2> HIDE DEF h, x, t
    <2>8. t[i] \in RowKeys
        BY <2>5, <2>6, <2>7 DEF RowKeys
    <2>9. Rows[p + i] = <<After(p + i), Full[p + i + 1]>>
        BY <2>4 DEF Rows, MtpRowsOf, After
    <2>10. QED
        BY <2>5, <2>6, <2>7, <2>8, <2>9
<1>7. t \in [1..k -> RowKeys]
    <2>1. t = [i \in 1..k |-> t[i]]
        OBVIOUS
    <2> HIDE DEF t
    <2>2. \A i \in 1..k : t[i] \in RowKeys
        BY <1>6
    <2>3. QED
        BY <2>1, <2>2
<1> HIDE DEF t
<1>8. t \in Seq(RowKeys) /\ Len(t) = k
    <2>1. t \in Seq(RowKeys) /\ DOMAIN t = 1..k
        BY <1>7
    <2>2. Len(t) = k
        BY <2>1, LenProperties
    <2>3. QED
        BY <2>1, <2>2
<1>9. k \in 0..Len(t) /\ \A i \in 1..k : Rows[p + i] = t[i]
    BY <1>6, <1>8
<1> DEFINE c == QsaStore(q, p, t)
<1>10. c \in QsaOf(RowKeys) /\ Holds(c, Rows, p + k) /\ c.committed = q.committed
    <2> DEFINE r == Rows
    <2>1. k \in 0..Len(t) /\ \A i \in 1..k : r[p + i] = t[i]
        BY <1>9
    <2>2. t \in Seq(RowKeys) /\ q \in QsaOf(RowKeys) /\ p \in Nat /\ Holds(q, r, p)
        BY <1>8
    <2> HIDE DEF r, c
    <2>3. c \in QsaOf(RowKeys) /\ c.committed = q.committed /\ Holds(c, r, p + k)
        BY <2>1, <2>2, HoldsStore DEF c
    <2>4. QED
        BY <2>3 DEF r
<1> DEFINE d == MtpRun(q, w, had, p, k)
<1>11. d = c
    BY <1>1
<1> HIDE DEF c, d
<1>12. MtpFed(d, q, p + k)
    BY <1>10, <1>11 DEF MtpFed
<1>13. QED
    BY <1>12 DEF d

\* The committed rows are the first of all.
LEMMA CommittedRows ==
    ASSUME StageTypes, SessionHeld
    PROVE  /\ mqsa.committed \in Nat /\ mqsa \in QsaOf(RowKeys)
           /\ Holds(mqsa, Rows, mqsa.committed)
           /\ mqsa.committed + One(mtp.pending) = Base
           /\ (session = <<>> <=> Base = 0)
<1>1. /\ session \in Seq(Tokens) /\ txn.toks \in Seq(Tokens) /\ Base \in Nat
      /\ mqsa \in QsaOf(RowKeys)
    BY Typing DEF StageTypes
<1>2. session = <<>> <=> Base = 0
    BY <1>1, EmptySeq DEF Base
<1>3. /\ mqsa.committed = Base - One(session # <<>>) /\ mtp.pending = (session # <<>>)
      /\ Holds(mqsa, MtpRowsOf(session), mqsa.committed)
    BY DEF SessionHeld
<1>4. mqsa.committed \in Nat
    BY <1>1, QsaTypes
<1>5. mqsa.committed + One(mtp.pending) = Base /\ (mqsa.committed = 0 \/ mqsa.committed = Base - 1)
    <2>1. CASE session = <<>>
        <3>1. mtp.pending = FALSE /\ (session # <<>>) = FALSE /\ Base = 0
            BY <1>2, <1>3, <2>1
        <3>2. One(mtp.pending) = 0 /\ One(session # <<>>) = 0
            BY <3>1 DEF One
        <3>3. QED
            BY <1>1, <1>3, <1>4, <3>1, <3>2
    <2>2. CASE session # <<>>
        <3>1. mtp.pending = TRUE /\ (session # <<>>) = TRUE /\ Base # 0
            BY <1>2, <1>3, <2>2
        <3>2. One(mtp.pending) = 1 /\ One(session # <<>>) = 1
            BY <3>1 DEF One
        <3>3. QED
            BY <1>1, <1>3, <1>4, <3>1, <3>2
    <2>3. QED
        BY <2>1, <2>2
<1>6. \A i \in 1..mqsa.committed : Rows[i] = MtpRowsOf(session)[i]
    <2>1. /\ Full \in Seq(Tokens) /\ Len(Full) = Base + Len(txn.toks) /\ Len(txn.toks) \in Nat
          /\ \A i \in 1..Base : Full[i] = session[i]
        BY <1>1, FullFacts
    <2>2. Base \in 0..Len(session) /\ Base <= Len(Full)
        BY <1>1, <2>1 DEF Base
    <2> DEFINE n == Base
    <2>3. n \in 0..Len(session) /\ n <= Len(Full) /\ \A i \in 1..n : session[i] = Full[i]
        BY <2>1, <2>2
    <2> HIDE DEF n
    <2>4. \A i \in 1..n - 1 : MtpRowsOf(session)[i] = MtpRowsOf(Full)[i]
        BY <1>1, <2>1, <2>3, RowsAgree
    <2>5. ASSUME NEW i \in 1..mqsa.committed PROVE i \in 1..n - 1
        BY <1>1, <1>4, <1>5 DEF n
    <2>6. QED
        BY <2>4, <2>5 DEF Rows
<1>7. Holds(mqsa, Rows, mqsa.committed)
    <2> DEFINE n == mqsa.committed
    <2>1. n \in Nat /\ n \in 0..n /\ Holds(mqsa, MtpRowsOf(session), n)
          /\ \A i \in 1..n : Rows[i] = MtpRowsOf(session)[i]
        BY <1>3, <1>4, <1>6
    <2> HIDE DEF n
    <2>2. mqsa.keys = mqsa.keys /\ mqsa.pooled = mqsa.pooled
        OBVIOUS
    <2>3. Holds(mqsa, Rows, n)
        BY <1>1, <2>1, <2>2, HoldsLess
    <2>4. QED
        BY <2>3 DEF n
<1>8. QED
    BY <1>1, <1>2, <1>4, <1>5, <1>7

\* Where an append's draft rows stand when the target has run a chunk.
LEMMA AppendFacts ==
    ASSUME StageInv, NoTail, step = "execute", txn.kind = "append",
           NEW st, InChunk(st), DraftWaits(st)
    PROVE  /\ st.mtp \in MtpRecords /\ st.mtp.pending = mtp.pending
           /\ mqsa.committed + st.mtp.rows + One(st.mtp.candidate) = Base + off
           /\ st.mtp.candidate => st.ws.cand = After(Base + off)
           /\ Holds(mqsa, Rows, mqsa.committed + st.mtp.rows)
           /\ st.mtp.active = (st.mtp.rows # 0)
           /\ st.mtp.rows - One(~st.mtp.candidate) = off - One(~mtp.pending)
           /\ AdvanceAccepted(st)
<1>1. StageTypes /\ SessionHeld /\ OpenTogether /\ AppendRan
    BY DEF StageInv, Running
<1>2. /\ st.mtp = MtpOpen /\ st.ws.cand = IF off = 0 /\ MtpOpen.candidate THEN ws.pend ELSE ws.cand
      /\ st.be.base = Base
    BY DEF DraftWaits, InChunk
<1>3. /\ off \in Nat /\ Base \in Nat /\ mqsa.committed \in Nat /\ mtp \in MtpRecords
      /\ mtp.pending \in BOOLEAN /\ mtp.rows \in Nat
    BY <1>1, Typing, CommittedRows DEF StageTypes
<1>4. /\ Holds(mqsa, Rows, mqsa.committed) /\ mqsa.committed + One(mtp.pending) = Base
    BY <1>1, CommittedRows
<1> DEFINE m == st.mtp
<1>5. /\ m \in MtpRecords /\ m.pending = mtp.pending
      /\ mqsa.committed + m.rows + One(m.candidate) = Base + off
      /\ m.candidate => st.ws.cand = After(Base + off)
      /\ Holds(mqsa, Rows, mqsa.committed + m.rows)
      /\ m.active = (m.rows # 0)
      /\ m.rows - One(~m.candidate) = off - One(~mtp.pending)
    <2>1. CASE off = 0
        <3>1. m = OpenedMtp
            BY <1>2, <2>1 DEF MtpOpen
        <3> HIDE DEF m
        <3>2. ~RetainedDraft
            BY DEF RetainedDraft
        <3>3. /\ m \in MtpRecords /\ m.pending = mtp.pending /\ m.candidate = mtp.pending
              /\ m.active = FALSE /\ m.rows = 0
            <4> DEFINE o == OpenedMtp
            <4>1. /\ o \in MtpRecords /\ o.pending = mtp.pending
                  /\ o.candidate = (txn.kind = "append" /\ mtp.pending)
                  /\ ~RetainedDraft => o.active = FALSE /\ o.rows = 0
                BY <1>1, OpenedFacts
            <4>2. (txn.kind = "append" /\ mtp.pending) = mtp.pending
                BY <1>3
            <4> HIDE DEF o
            <4>3. QED
                BY <3>1, <3>2, <4>1, <4>2 DEF o
        <3>4. m.candidate => st.ws.cand = After(Base + off)
            <4>1. ASSUME m.candidate PROVE st.ws.cand = After(Base + off)
                <5>1. MtpOpen.candidate /\ mtp.pending
                    BY <1>2, <3>3, <4>1 DEF m
                <5>2. st.ws.cand = ws.pend
                    BY <1>2, <2>1, <5>1
                <5>3. ws.pend = session
                    BY <1>1, <5>1 DEF SessionHeld
                <5>4. After(Base) = session
                    <6>1. session \in Seq(Tokens) /\ txn.toks \in Seq(Tokens)
                        BY <1>1, Typing
                    <6>2. QED
                        BY <6>1, FullFacts
                <5>5. Base + off = Base
                    BY <1>3, <2>1
                <5>6. QED
                    BY <5>2, <5>3, <5>4, <5>5
            <4>2. QED
                BY <4>1
        <3>5. mqsa.committed + m.rows = mqsa.committed
            BY <1>3, <3>3
        <3>6. /\ mqsa.committed + m.rows + One(m.candidate) = Base + off
              /\ m.rows - One(~m.candidate) = off - One(~mtp.pending)
            <4>1. One(m.candidate) = One(mtp.pending) /\ One(~m.candidate) = One(~mtp.pending)
                BY <3>3
            <4>2. One(mtp.pending) \in Int /\ One(~mtp.pending) \in Int
                BY DEF One
            <4>3. QED
                BY <1>3, <1>4, <2>1, <3>3, <4>1, <4>2
        <3>7. Holds(mqsa, Rows, mqsa.committed + m.rows) /\ m.active = (m.rows # 0)
            BY <1>4, <3>3, <3>5
        <3>8. QED
            BY <3>3, <3>4, <3>6, <3>7
    <2>2. CASE off # 0
        <3>1. m = mtp /\ off > 0 /\ st.ws.cand = ws.cand
            BY <1>2, <1>3, <2>2 DEF MtpOpen
        <3>2. /\ mtp.candidate /\ ws.cand = After(Base + off)
              /\ mtp.rows = off - One(~mtp.pending) /\ mtp.active = (mtp.rows # 0)
              /\ Holds(mqsa, Rows, mqsa.committed + mtp.rows)
            BY <1>1, <3>1 DEF AppendRan
        <3> HIDE DEF m
        <3>3. mqsa.committed + m.rows + One(m.candidate) = Base + off
            BY <1>3, <1>4, <3>1, <3>2 DEF One
        <3>4. m.rows - One(~m.candidate) = off - One(~mtp.pending)
            BY <1>3, <3>1, <3>2 DEF One
        <3>5. QED
            BY <1>3, <3>1, <3>2, <3>3, <3>4
    <2>3. QED
        BY <2>1, <2>2
<1>6. AdvanceAccepted(st)
    BY <1>2, <1>4, <1>5 DEF AdvanceAccepted
<1>7. QED
    BY <1>5, <1>6

\* The draft model has run k rows of the chunk.
RowsRun(r, st, k) ==
    /\ r \in States /\ r.be = st.be /\ r.ws = st.ws /\ r.gdn = st.gdn /\ r.qsa = st.qsa
    /\ r.mtp = [st.mtp EXCEPT !.active = TRUE, !.epoch = txn.epoch]
    /\ r.mqsa.committed = mqsa.committed
    /\ Holds(r.mqsa, Rows, mqsa.committed + st.mtp.rows + k)

\* Nothing but the draft model's bank and its members change.
LEMMA AdvancingFacts ==
    ASSUME StageInv, NoTail, step = "execute", txn.kind = "append",
           NEW st, InChunk(st), TargetAt(st, ChunkLen), DraftWaits(st),
           NEW k \in 0..AppendEvaluated(st)
    PROVE  RowsRun(Advancing(st, k), st, k)
<1> DEFINE l == ChunkLen
           had == st.mtp.candidate
           p == mqsa.committed + st.mtp.rows
           begun == IF st.mtp.active THEN st.mqsa ELSE QsaBegin(st.mqsa, txn.epoch)
           c == MtpRun(begun, st.ws, had, st.mqsa.committed + st.mtp.rows, k)
           m == [st.mtp EXCEPT !.active = TRUE, !.epoch = txn.epoch]
           r == [st EXCEPT !.mtp.active = TRUE, !.mtp.epoch = txn.epoch, !.mqsa = c]
<1>1. Advancing(st, k) = r
    BY DEF Advancing
<1>2. /\ StageTypes /\ SessionHeld /\ off \in Nat /\ Base \in Nat /\ txn.epoch \in Nat
      /\ Len(txn.toks) \in Nat
    BY Typing DEF StageInv
<1>3. mqsa.committed \in Nat /\ mqsa \in QsaOf(RowKeys) /\ st.mqsa = mqsa
    BY <1>2, CommittedRows DEF DraftWaits
<1>4. /\ st.mtp \in MtpRecords /\ p + One(had) = Base + off
      /\ had => st.ws.cand = After(Base + off)
      /\ Holds(mqsa, Rows, p)
    BY AppendFacts
<1>5. st \in States /\ st.ws \in WsRecords
    BY DEF InChunk, States
<1>6. had \in BOOLEAN /\ st.mtp.rows \in Nat /\ p \in Nat
    BY <1>3, <1>4 DEF MtpRecords
<1>7. l \in Nat /\ off + l <= Len(txn.toks) /\ l <= ChunkTokens /\ At = 0
    <2>1. At = 0
        BY DEF At
    <2>2. l \in Nat /\ off + l <= Len(txn.toks) /\ At + l <= ChunkTokens
        BY ChunkFacts
    <2>3. QED
        BY <2>1, <2>2
<1>8. k \in Nat /\ k + One(~had) <= l
    <2>1. AppendEvaluated(st) = l - One(~had)
        BY DEF AppendEvaluated
    <2>2. One(~had) \in Int
        BY DEF One
    <2>3. QED
        BY <1>7, <2>1, <2>2
<1>9. /\ \A i \in 1..l : st.ws.toks[i - 1] = txn.toks[off + i]
      /\ \A i \in 1..l : st.ws.hc[i - 1] = After(Base + off + i)
    <2>1. \A i \in 1..l : At + i - 1 = i - 1
        BY <1>7
    <2>2. \A i \in 1..l : st.ws.toks[At + i - 1] = txn.toks[off + i]
        BY DEF InChunk
    <2>3. \A i \in 1..l : st.ws.hc[At + i - 1] = After(Base + off + i)
        BY DEF TargetAt
    <2>4. QED
        BY <2>1, <2>2, <2>3
<1>10. begun \in QsaOf(RowKeys) /\ Holds(begun, Rows, p) /\ begun.committed = mqsa.committed
    <2> DEFINE x == QsaBegin(mqsa, txn.epoch)
    <2>1. x \in QsaOf(RowKeys) /\ x.keys = mqsa.keys /\ x.pooled = mqsa.pooled
          /\ x.committed = mqsa.committed
        <3> DEFINE b == mqsa  n == txn.epoch
        <3>1. b \in QsaOf(RowKeys) /\ n \in Nat
            BY <1>2, <1>3
        <3> HIDE DEF b, n
        <3> DEFINE y == QsaBegin(b, n)
        <3>2. y \in QsaOf(RowKeys) /\ y.keys = b.keys /\ y.pooled = b.pooled
              /\ y.committed = b.committed
            BY <3>1, QsaBeginFacts
        <3>3. QED
            BY <3>2 DEF b, n
    <2>2. begun = mqsa \/ begun = x
        BY <1>3
    <2> HIDE DEF x, begun
    <2>3. Holds(x, Rows, p)
        BY <1>4, <2>1 DEF Holds
    <2>4. QED
        BY <1>3, <1>4, <2>1, <2>2, <2>3
<1> DEFINE e == MtpRun(begun, st.ws, had, p, k)
<1>11. e \in QsaOf(RowKeys) /\ Holds(e, Rows, p + k) /\ e.committed = mqsa.committed
    <2> DEFINE w == st.ws
    <2>1. /\ w \in WsRecords /\ \A i \in 1..l : w.toks[i - 1] = txn.toks[off + i]
          /\ \A i \in 1..l : w.hc[i - 1] = After(Base + off + i)
          /\ (had => w.cand = After(Base + off))
        BY <1>4, <1>5, <1>9
    <2> HIDE DEF begun, had, p, l, w
    <2> DEFINE d == MtpRun(begun, w, had, p, k)
    <2>3. had \in BOOLEAN /\ p \in Nat /\ p + One(had) = Base + off
        BY <1>4, <1>6
    <2>4. l \in Nat /\ off + l <= Len(txn.toks) /\ l <= ChunkTokens
        BY <1>7
    <2>5. k \in Nat /\ k + One(~had) <= l
        BY <1>8
    <2>6. begun \in QsaOf(RowKeys) /\ Holds(begun, Rows, p)
        BY <1>10
    <2>7. StageTypes /\ off \in Nat
        BY <1>2
    <2>10. /\ w \in WsRecords
           /\ \A i \in 1..l : w.toks[i - 1] = txn.toks[off + i]
           /\ \A i \in 1..l : w.hc[i - 1] = After(Base + off + i)
           /\ had => w.cand = After(Base + off)
        BY <2>1
    <2> DEFINE a == off
    <2>11. /\ a \in Nat /\ a + l <= Len(txn.toks) /\ p + One(had) = Base + a
           /\ \A i \in 1..l : w.toks[i - 1] = txn.toks[a + i]
           /\ \A i \in 1..l : w.hc[i - 1] = After(Base + a + i)
           /\ had => w.cand = After(Base + a)
        BY <2>3, <2>4, <2>7, <2>10
    <2> HIDE DEF a
    <2>8. d \in QsaOf(RowKeys) /\ Holds(d, Rows, p + k) /\ d.committed = begun.committed
        <3> HIDE DEF d
        <3>1. MtpFed(d, begun, p + k)
            <4> USE DEF d
            <4>1. QED
                BY <2>1, <2>3, <2>4, <2>5, <2>6, <2>7, <2>11, MtpRunFacts
        <3>2. QED
            BY <3>1 DEF MtpFed
    <2>9. e = d
        BY DEF w
    <2> HIDE DEF e, d
    <2>2. QED
        BY <1>10, <2>8, <2>9
<1>12. c = e
    BY <1>3
<1> HIDE DEF e, c
<1>13. m \in MtpRecords
    BY <1>2, <1>4 DEF MtpRecords
<1>14. r = [st EXCEPT !.mtp = m, !.mqsa = c]
    BY <1>5 DEF States
<1> HIDE DEF r, m
<1>15. /\ r \in States /\ r.be = st.be /\ r.ws = st.ws /\ r.gdn = st.gdn /\ r.qsa = st.qsa
       /\ r.mtp = m /\ r.mqsa = c
    BY <1>5, <1>11, <1>12, <1>13, <1>14 DEF States
<1>16. QED
    BY <1>1, <1>11, <1>12, <1>15 DEF RowsRun, m, p

\* What feeding a chunk to the draft model leaves.
Fed(r, st) ==
    /\ r \in States /\ r.be = st.be /\ r.gdn = st.gdn /\ r.qsa = st.qsa
    /\ r.ws.hc = st.ws.hc /\ r.ws.pred = st.ws.pred /\ r.ws.toks = st.ws.toks
    /\ r.ws.pend = st.ws.pend /\ r.ws.cand = After(Base + off + ChunkLen)
    /\ r.mtp.pending = mtp.pending /\ r.mtp.candidate = TRUE
    /\ r.mtp.rows = off + ChunkLen - One(~mtp.pending)
    /\ r.mtp.active = (r.mtp.rows # 0)
    /\ r.mqsa.committed = mqsa.committed
    /\ Holds(r.mqsa, Rows, mqsa.committed + r.mtp.rows)

\* The chunk of an append, fed to the draft model.
LEMMA AdvancedFacts ==
    ASSUME StageInv, NoTail, step = "execute", txn.kind = "append",
           NEW st, InChunk(st), TargetAt(st, ChunkLen), DraftWaits(st)
    PROVE  Fed(AdvancedMtp(st), st)
<1> DEFINE l == ChunkLen
           m == AppendEvaluated(st)
           v == Advancing(st, m)
           n == st.mtp.rows + m
           x == [v EXCEPT !.mtp.rows = @ + m, !.mqsa = QsaMark(@, n)]
           ran == IF m = 0 THEN st ELSE x
           h == st.ws.hc[l - 1]
           r == [ran EXCEPT !.ws.cand = h, !.mtp.candidate = TRUE]
<1>1. AdvancedMtp(st) = r
    BY DEF AdvancedMtp
<1>2. /\ StageTypes /\ SessionHeld /\ off \in Nat /\ Base \in Nat
    BY Typing DEF StageInv
<1>3. mqsa.committed \in Nat /\ mqsa \in QsaOf(RowKeys) /\ st.mqsa = mqsa
    BY <1>2, CommittedRows DEF DraftWaits
<1>4. /\ st.mtp \in MtpRecords /\ st.mtp.pending = mtp.pending
      /\ st.mtp.active = (st.mtp.rows # 0)
      /\ Holds(mqsa, Rows, mqsa.committed + st.mtp.rows)
      /\ st.mtp.rows - One(~st.mtp.candidate) = off - One(~mtp.pending)
    BY AppendFacts
<1>5. st \in States /\ st.ws \in WsRecords /\ st.mtp.rows \in Nat /\ mtp.pending \in BOOLEAN
    <2>1. st \in States /\ st.ws \in WsRecords
        BY DEF InChunk, States
    <2>2. st.mtp.rows \in Nat
        BY <1>4 DEF MtpRecords
    <2>3. QED
        BY <1>2, <2>1, <2>2, Typing
<1>6. l \in Nat /\ l >= 1 /\ At = 0 /\ l - 1 \in Slots
    <2>1. At = 0
        BY DEF At
    <2>2. l \in Nat /\ l >= 1
        BY ChunkFacts
    <2>3. l \in 1..ChunkLen
        BY <2>2
    <2>4. At + l - 1 \in Slots
        BY <2>3, ChunkFacts
    <2>5. QED
        BY <2>1, <2>2, <2>4
<1>7. m \in Nat /\ m = l - One(~st.mtp.candidate)
    <2>1. m = l - One(~st.mtp.candidate)
        BY DEF AppendEvaluated
    <2>2. One(~st.mtp.candidate) \in {0, 1}
        BY DEF One
    <2>3. QED
        BY <1>6, <2>1, <2>2
<1>8. h = After(Base + off + l) /\ h \in Hcs
    <2>1. l \in 1..l /\ At + l - 1 = l - 1
        BY <1>6
    <2>2. st.ws.hc[At + l - 1] = After(Base + off + l)
        BY <2>1 DEF TargetAt
    <2>3. h \in Hcs
        BY <1>5, <1>6 DEF WsRecords
    <2>4. QED
        BY <2>1, <2>2, <2>3
<1> HIDE DEF h
<1>9. n = off + l - One(~mtp.pending) /\ n \in Nat
    <2>1. One(~st.mtp.candidate) \in Int /\ One(~mtp.pending) \in Int
        BY DEF One
    <2> HIDE DEF l, m
    <2>2. QED
        BY <1>2, <1>4, <1>5, <1>6, <1>7, <2>1
<1>10. /\ ran \in States /\ ran.be = st.be /\ ran.gdn = st.gdn /\ ran.qsa = st.qsa
       /\ ran.ws = st.ws /\ ran.mtp.pending = mtp.pending /\ ran.mtp.rows = n
       /\ ran.mtp.active = (n # 0) /\ ran.mqsa.committed = mqsa.committed
       /\ Holds(ran.mqsa, Rows, mqsa.committed + n)
    <2>1. CASE m = 0
        <3>1. ran = st /\ n = st.mtp.rows
            BY <1>5, <2>1
        <3> HIDE DEF ran, n
        <3>2. QED
            BY <1>3, <1>4, <1>5, <3>1
    <2>2. CASE m # 0
        <3>1. ran = x /\ m > 0 /\ m \in 0..m
            BY <1>7, <2>2
        <3>2. RowsRun(v, st, m)
            BY <3>1, AdvancingFacts
        <3> HIDE DEF v, m
        <3>3. /\ v \in States /\ v.be = st.be /\ v.ws = st.ws /\ v.gdn = st.gdn /\ v.qsa = st.qsa
              /\ v.mtp = [st.mtp EXCEPT !.active = TRUE, !.epoch = txn.epoch]
              /\ v.mqsa.committed = mqsa.committed
              /\ Holds(v.mqsa, Rows, mqsa.committed + st.mtp.rows + m)
            BY <3>2 DEF RowsRun
        <3>4. /\ v.mtp \in MtpRecords /\ v.mtp.rows = st.mtp.rows /\ v.mtp.pending = mtp.pending
              /\ v.mtp.active = TRUE
            <4>1. v.mtp \in MtpRecords
                BY <3>3 DEF States
            <4>2. QED
                BY <1>4, <3>3, <4>1 DEF MtpRecords
        <3>5. v.mqsa \in QsaOf(RowKeys)
            BY <3>3 DEF States
        <3> DEFINE y == [v.mtp EXCEPT !.rows = n]  z == QsaMark(v.mqsa, n)
        <3>6. x = [v EXCEPT !.mtp = y, !.mqsa = z]
            <4>1. v.mtp.rows + m = n
                BY <3>4
            <4>2. QED
                BY <3>3, <4>1 DEF States
        <3>7. y \in MtpRecords /\ y.rows = n /\ y.pending = mtp.pending /\ y.active = TRUE
            <4> HIDE DEF n
            <4>1. QED
                BY <1>9, <3>4 DEF MtpRecords
        <3>8. z \in QsaOf(RowKeys) /\ z.keys = v.mqsa.keys /\ z.pooled = v.mqsa.pooled
              /\ z.committed = v.mqsa.committed
            <4> DEFINE b == v.mqsa
            <4>1. b \in QsaOf(RowKeys)
                BY <3>5
            <4> HIDE DEF n, b
            <4> DEFINE c == QsaMark(b, n)
            <4>2. c \in QsaOf(RowKeys) /\ c.keys = b.keys /\ c.pooled = b.pooled
                  /\ c.committed = b.committed
                BY <1>9, <4>1, QsaMarkFacts
            <4>3. QED
                BY <4>2 DEF b
        <3>9. mqsa.committed + n = mqsa.committed + st.mtp.rows + m /\ n # 0
            BY <1>3, <1>5, <1>7, <3>1
        <3> HIDE DEF y, z, x, n, ran
        <3>10. /\ x \in States /\ x.be = v.be /\ x.ws = v.ws /\ x.gdn = v.gdn /\ x.qsa = v.qsa
               /\ x.mtp = y /\ x.mqsa = z
            BY <3>3, <3>6, <3>7, <3>8 DEF States
        <3>11. Holds(z, Rows, mqsa.committed + n)
            <4>1. Holds(z, Rows, mqsa.committed + st.mtp.rows + m)
                BY <3>3, <3>8 DEF Holds
            <4>2. QED
                BY <3>9, <4>1
        <3>12. QED
            BY <3>1, <3>3, <3>7, <3>8, <3>9, <3>10, <3>11
    <2>3. QED
        BY <2>1, <2>2
<1> HIDE DEF ran, n, l
<1> DEFINE w == [ran.ws EXCEPT !.cand = h]  y == [ran.mtp EXCEPT !.candidate = TRUE]
<1>11. /\ w \in WsRecords /\ w.hc = st.ws.hc /\ w.pred = st.ws.pred /\ w.toks = st.ws.toks
       /\ w.pend = st.ws.pend /\ w.cand = h
    BY <1>5, <1>8, <1>10 DEF WsRecords
<1>12. /\ y \in MtpRecords /\ y.candidate = TRUE /\ y.pending = ran.mtp.pending
       /\ y.rows = ran.mtp.rows /\ y.active = ran.mtp.active
    <2>1. ran.mtp \in MtpRecords
        BY <1>10 DEF States
    <2>2. QED
        BY <2>1 DEF MtpRecords
<1>13. r = [ran EXCEPT !.ws = w, !.mtp = y]
    BY <1>10 DEF States
<1> HIDE DEF w, y, r
<1>14. /\ r \in States /\ r.be = ran.be /\ r.gdn = ran.gdn /\ r.qsa = ran.qsa
       /\ r.mqsa = ran.mqsa /\ r.ws = w /\ r.mtp = y
    BY <1>10, <1>11, <1>12, <1>13 DEF States
<1>15. Fed(r, st)
    BY <1>8, <1>9, <1>10, <1>11, <1>12, <1>14 DEF Fed, l
<1>16. QED
    BY <1>1, <1>15

-----------------------------------------------------------------------------
(* execute.                                                                *)

\* A call of execute is one the backend expects.
LEMMA ExecuteAccepts ==
    ASSUME StageInv, NoTail, step = "execute"
    PROVE  ExecuteAccepted
<1>1. StageTypes /\ SessionHeld /\ OpenTogether /\ TargetRan /\ txn.kind \in Kinds
    BY DEF StageInv, Running, OpenTogether
<1>2. /\ off \in Nat /\ be.prov \in Nat /\ be.epoch \in Nat /\ Len(txn.toks) \in Nat
      /\ mtp.rows \in Nat /\ be.active \in BOOLEAN
    BY <1>1, Typing
<1>3. CASE be.prov = 0
    <2>1. off = 0
        BY <1>1, <1>2, <1>3 DEF TargetRan
    <2>2. txn.epoch > be.epoch
        BY <1>1, <1>2 DEF OpenTogether
    <2>3. Len(session) = be.frontier /\ qsa.committed = be.frontier
        BY <1>1 DEF SessionHeld, Base
    <2>4. ~gdn.active /\ ~qsa.active
        BY <1>1, <1>3 DEF OpenTogether
    <2>5. mtp.active => RetainedDraft
        <3>1. CASE txn.kind = "append"
            BY <2>1, <3>1 DEF StageInv, Running, AppendRan
        <3>2. CASE txn.kind = "decode"
            BY <3>2 DEF StageInv, Running, DecodeRan
        <3>3. CASE txn.kind = "speculative"
            <4>1. mtp.epoch = txn.epoch /\ mtp.rows + 1 = Len(txn.toks)
                BY <3>3 DEF StageInv, Running, DraftRan
            <4>2. Len(txn.toks) - 1 \in 1..MaxWidth
                BY <1>1, <3>3 DEF OpenTogether
            <4>3. mtp.rows # 0
                BY <1>2, <4>1, <4>2
            <4>4. QED
                BY <3>3, <4>1, <4>3 DEF RetainedDraft
        <3>4. QED
            BY <1>1, <3>1, <3>2, <3>3 DEF Kinds
    <2>6. QED
        BY <1>3, <2>1, <2>2, <2>3, <2>4, <2>5 DEF ExecuteAccepted
<1>4. CASE be.prov # 0
    <2>1. /\ be.base = Base /\ be.expected = Len(txn.toks) /\ be.kind = txn.kind
          /\ be.processed = off
        BY <1>1, <1>2, <1>4 DEF TargetRan
    <2>2. be.prov = txn.epoch /\ be.active = (be.prov # 0)
        BY <1>1, <1>4 DEF OpenTogether
    <2>3. QED
        BY <1>4, <2>1, <2>2 DEF ExecuteAccepted, Base
<1>5. QED
    BY <1>3, <1>4

\* The state that execute leaves.
RanTo(t) == Predicted(TargetRun(Entered, ChunkLen), t)
FedTo(t) == IF txn.kind = "append" THEN AdvancedMtp(RanTo(t)) ELSE RanTo(t)
Result(t) == [FedTo(t) EXCEPT !.be.processed = @ + ChunkLen]

\* What can be said of it whatever the kind of transaction.
Executed(s, t) ==
    /\ s \in States
    /\ s.be.prov = txn.epoch /\ s.be.base = Base /\ s.be.expected = Len(txn.toks)
    /\ s.be.kind = txn.kind /\ s.be.active = TRUE /\ s.be.frontier = be.frontier
    /\ s.be.epoch = be.epoch /\ s.be.processed = off + ChunkLen
    /\ s.be.toks = SubSeq(txn.toks, 1, off + ChunkLen)
    /\ s.ws.pend = ws.pend /\ s.mtp.pending = mtp.pending
    /\ TargetAt(s, ChunkLen) /\ s.qsa.evaluated = off + ChunkLen
    /\ \A i \in 1..ChunkLen : s.ws.toks[At + i - 1] = txn.toks[off + i]
    /\ s.ws.pred[At + ChunkLen - 1] = [hc |-> After(Base + off + ChunkLen), tok |-> t]
    /\ \A j \in Slots : j # At + ChunkLen - 1 => s.ws.pred[j] = ws.pred[j]
    /\ s.mqsa.committed = mqsa.committed

\* What it leaves of the draft model.
DraftFed(s) ==
    /\ txn.kind # "append" => s.mtp = MtpOpen /\ s.mqsa = mqsa
    /\ txn.kind = "append" =>
         /\ s.mtp.candidate = TRUE /\ s.ws.cand = After(Base + off + ChunkLen)
         /\ s.mtp.rows = off + ChunkLen - One(~mtp.pending)
         /\ s.mtp.active = (s.mtp.rows # 0)
         /\ Holds(s.mqsa, Rows, mqsa.committed + s.mtp.rows)

\* The target's run and its prediction.
LEMMA RanFacts ==
    ASSUME StageInv, NoTail, step = "execute", NEW t \in Tokens
    PROVE  /\ PredictedFrom(RanTo(t), TargetRun(Entered, ChunkLen), t)
           /\ DraftWaits(RanTo(t))
           /\ TargetRun(Entered, ChunkLen).ws.pred = ws.pred
<1> DEFINE e == Entered
<1>1. InChunk(e) /\ TargetAt(e, 0) /\ DraftWaits(e)
    BY EnteredFacts
<1>2. e.ws.pred = ws.pred
    BY EnteredWs
<1>3. ChunkLen \in 0..ChunkLen
    BY ChunkFacts
<1> HIDE DEF e
<1> DEFINE r == TargetRun(e, ChunkLen)
<1>4. /\ InChunk(r) /\ TargetAt(r, ChunkLen) /\ r.mtp = e.mtp /\ r.mqsa = e.mqsa
      /\ r.ws.cand = e.ws.cand /\ r.ws.pred = e.ws.pred
    BY <1>1, <1>3, RunFacts
<1> HIDE DEF r
<1> DEFINE p == Predicted(r, t)
<1>5. PredictedFrom(p, r, t)
    BY <1>4, PredictedFacts
<1>6. p = RanTo(t) /\ r = TargetRun(Entered, ChunkLen)
    BY DEF r, e, RanTo
<1> HIDE DEF p
<1>7. DraftWaits(p)
    BY <1>1, <1>4, <1>5 DEF DraftWaits, PredictedFrom
<1>8. QED
    BY <1>2, <1>4, <1>5, <1>6, <1>7

\* An append's draft rows never fall behind the target's.
LEMMA AdvanceAccepts ==
    ASSUME StageInv, NoTail, step = "execute", txn.kind = "append", NEW t \in Tokens
    PROVE  AdvanceAccepted(RanTo(t))
<1> DEFINE r == RanTo(t)
<1>1. InChunk(r) /\ DraftWaits(r)
    BY RanFacts DEF PredictedFrom
<1> HIDE DEF r
<1>2. AdvanceAccepted(r)
    BY <1>1, AppendFacts
<1>3. QED
    BY <1>2 DEF r

\* What a chunk leaves before its rows are counted.
Fetched(s, r) ==
    /\ s \in States /\ s.be = r.be /\ s.gdn = r.gdn /\ s.qsa = r.qsa
    /\ s.ws.hc = r.ws.hc /\ s.ws.pred = r.ws.pred /\ s.ws.toks = r.ws.toks
    /\ s.ws.pend = r.ws.pend /\ s.mqsa.committed = mqsa.committed
    /\ s.mtp.pending = mtp.pending /\ DraftFed(s)

\* With the draft model's part of an append.
LEMMA FedFacts ==
    ASSUME StageInv, NoTail, step = "execute", NEW t \in Tokens
    PROVE  Fetched(FedTo(t), RanTo(t))
<1> DEFINE r == RanTo(t)
<1>1. InChunk(r) /\ TargetAt(r, ChunkLen) /\ DraftWaits(r)
    BY RanFacts DEF PredictedFrom
<1>2. StageTypes
    BY DEF StageInv
<1> HIDE DEF r
<1>3. CASE txn.kind = "append"
    <2> DEFINE f == AdvancedMtp(r)
    <2>1. Fed(f, r)
        BY <1>1, <1>3, AdvancedFacts
    <2>2. FedTo(t) = f
        BY <1>3 DEF FedTo, r
    <2> HIDE DEF f
    <2>3. Fetched(f, r)
        BY <1>3, <2>1 DEF Fed, Fetched, DraftFed
    <2>4. QED
        BY <2>2, <2>3 DEF r
<1>4. CASE txn.kind # "append"
    <2>1. FedTo(t) = r
        BY <1>4 DEF FedTo, r
    <2>2. r \in States /\ r.mtp = MtpOpen /\ r.mqsa = mqsa
        BY <1>1 DEF InChunk, DraftWaits
    <2>3. MtpOpen.pending = mtp.pending
        BY <1>2, OpenedFacts DEF MtpOpen
    <2>4. Fetched(r, r)
        BY <1>4, <2>2, <2>3 DEF Fetched, DraftFed
    <2>5. QED
        BY <2>1, <2>4 DEF r
<1>5. QED
    BY <1>3, <1>4

\* The state that execute leaves, with its rows counted.
LEMMA ExecutedFacts ==
    ASSUME StageInv, NoTail, step = "execute", NEW t \in Tokens
    PROVE  Executed(Result(t), t) /\ DraftFed(Result(t))
<1> DEFINE r == RanTo(t)  f == FedTo(t)  g == TargetRun(Entered, ChunkLen)
<1>1. PredictedFrom(r, g, t) /\ g.ws.pred = ws.pred
    BY RanFacts
<1>2. Fetched(f, r)
    BY FedFacts
<1>3. off \in Nat /\ ChunkLen \in Nat
    BY Typing, ChunkFacts DEF StageInv
<1>4. Result(t) = [f EXCEPT !.be.processed = @ + ChunkLen]
    BY DEF Result
<1> HIDE DEF r, f, g
<1>5. f \in States /\ f.be = r.be /\ r.be.processed = off
    BY <1>1, <1>2 DEF Fetched, PredictedFrom, InChunk
<1> DEFINE b == [f.be EXCEPT !.processed = off + ChunkLen]
<1>6. Result(t) = [f EXCEPT !.be = b]
    BY <1>4, <1>5 DEF States
<1>7. /\ b \in BeRecords /\ b.processed = off + ChunkLen /\ b.prov = r.be.prov
      /\ b.base = r.be.base /\ b.expected = r.be.expected /\ b.kind = r.be.kind
      /\ b.active = r.be.active /\ b.frontier = r.be.frontier /\ b.epoch = r.be.epoch
      /\ b.toks = r.be.toks
    <2>1. f.be \in BeRecords /\ off + ChunkLen \in Nat
        BY <1>3, <1>5 DEF States
    <2>2. QED
        BY <1>5, <2>1 DEF BeRecords
<1> HIDE DEF b
<1> DEFINE s == Result(t)
<1>8. /\ s \in States /\ s.be = b /\ s.mtp = f.mtp /\ s.ws = f.ws /\ s.gdn = f.gdn
      /\ s.qsa = f.qsa /\ s.mqsa = f.mqsa
    BY <1>5, <1>6, <1>7 DEF States
<1> HIDE DEF s
<1>9. TargetAt(s, ChunkLen)
    BY <1>1, <1>2, <1>8 DEF PredictedFrom, Fetched, TargetAt
<1>10. Executed(s, t)
    BY <1>1, <1>2, <1>7, <1>8, <1>9 DEF PredictedFrom, Fetched, InChunk, Executed
<1>11. DraftFed(s)
    BY <1>2, <1>8 DEF Fetched, DraftFed
<1>12. QED
    BY <1>10, <1>11 DEF s

\* The target's array begins with the session, whatever came behind it.
LEMMA SessionKeys ==
    ASSUME StageTypes, NEW q \in QsaOf(TokenKeys), NEW n \in Nat, Holds(q, Full, Base + n)
    PROVE  Holds(q, session, Base)
<1>1. /\ session \in Seq(Tokens) /\ txn.toks \in Seq(Tokens) /\ Base \in Nat
      /\ \A i \in 1..Base : session[i] = Full[i]
    BY Typing, FullFacts
<1>2. Base \in 0..Base + n /\ Base + n \in Nat
    BY <1>1
<1> DEFINE m == Base  k == Base + n  r == Full  s == session
<1>3. /\ m \in 0..k /\ k \in Nat /\ Holds(q, r, k) /\ \A i \in 1..m : s[i] = r[i]
      /\ q.keys = q.keys /\ q.pooled = q.pooled
    BY <1>1, <1>2
<1> HIDE DEF m, k, r, s
<1>4. Holds(q, s, m)
    BY <1>3, HoldsLess
<1>5. QED
    BY <1>4 DEF s, m

\* The draft model's array begins with the session's rows.
LEMMA SessionRows ==
    ASSUME StageTypes, SessionHeld, NEW q \in QsaOf(RowKeys), NEW n \in Nat,
           Holds(q, Rows, mqsa.committed + n)
    PROVE  Holds(q, MtpRowsOf(session), mqsa.committed)
<1>1. /\ session \in Seq(Tokens) /\ txn.toks \in Seq(Tokens) /\ Base \in Nat
      /\ \A i \in 1..Base : session[i] = Full[i]
      /\ Full \in Seq(Tokens) /\ Len(Full) = Base + Len(txn.toks) /\ Len(txn.toks) \in Nat
    BY Typing, FullFacts
<1>2. mqsa.committed \in Nat /\ mqsa.committed = Base - One(session # <<>>)
    BY CommittedRows DEF SessionHeld
<1> DEFINE c == mqsa.committed
<1>3. CASE session = <<>>
    <2>1. c = 0
        BY <1>2, <1>3 DEF One, Base
    <2>2. QED
        BY <2>1, HoldsNothing
<1>4. CASE session # <<>>
    <2>1. c = Base - 1
        BY <1>2, <1>4 DEF One
    <2>2. \A i \in 1..Base - 1 : MtpRowsOf(session)[i] = MtpRowsOf(Full)[i]
        <3> DEFINE b == Base
        <3>1. b \in 0..Len(session) /\ b <= Len(Full)
            BY <1>1 DEF Base
        <3>2. \A i \in 1..b : session[i] = Full[i]
            BY <1>1
        <3> HIDE DEF b
        <3>3. \A i \in 1..b - 1 : MtpRowsOf(session)[i] = MtpRowsOf(Full)[i]
            BY <1>1, <3>1, <3>2, RowsAgree
        <3>4. QED
            BY <3>3 DEF b
    <2> DEFINE k == c + n  r == Rows  s == MtpRowsOf(session)
    <2>3. /\ c \in 0..k /\ k \in Nat /\ Holds(q, r, k) /\ \A i \in 1..c : s[i] = r[i]
          /\ q.keys = q.keys /\ q.pooled = q.pooled
        BY <1>2, <2>1, <2>2 DEF Rows
    <2> HIDE DEF c, k, r, s
    <2>4. Holds(q, s, c)
        BY <2>3, HoldsLess
    <2>5. QED
        BY <2>4 DEF s, c
<1>5. QED
    BY <1>3, <1>4

\* The answer is that of the chunk's last row, and every row behind which a
\* draft was confirmed is accepted.
LEMMA AnswerFacts ==
    ASSUME StageInv, NoTail, step = "execute", NEW t \in Tokens,
           NEW s, Executed(s, t), DraftFed(s)
    PROVE  AnswerOf(s) = [rows |-> off + ChunkLen, next |-> s.ws.pred[At + ChunkLen - 1]]
<1> DEFINE n == off + ChunkLen
<1>1. /\ off \in Nat /\ ChunkLen \in Nat /\ ChunkLen >= 1 /\ txn.toks \in Seq(Tokens)
      /\ n <= Len(txn.toks) /\ Len(txn.toks) \in Nat /\ StageTypes
    BY Typing, ChunkFacts DEF StageInv
<1>2. s.be.processed = n
    BY DEF Executed
<1>3. CASE txn.kind # "speculative"
    <2>1. At = 0
        BY <1>3 DEF At
    <2>2. At + ChunkLen - 1 = ChunkLen - 1
        BY <1>1, <2>1
    <2>3. AnswerOf(s) = [rows |-> s.be.processed, next |-> s.ws.pred[ChunkLen - 1]]
        BY <1>3 DEF AnswerOf
    <2>4. QED
        BY <1>2, <2>2, <2>3
<1>4. CASE txn.kind = "speculative"
    <2>1. At = off /\ ChunkLen = 1
        BY <1>4, ChunkFacts DEF At
    <2>2. At + ChunkLen - 1 = n - 1 /\ n = off + 1
        BY <1>1, <2>1
    <2>3. DraftRan
        BY <1>4 DEF StageInv, Running
    <2>4. \A i \in 1..off : ws.pred[i - 1].tok = txn.toks[i + 1]
        <3>1. mtp.reconciled = off + 1
            BY <2>3 DEF DraftRan
        <3>2. mtp.reconciled - 1 = off
            BY <1>1, <3>1
        <3>3. QED
            BY <2>3, <3>2 DEF DraftRan
    <2> DEFINE S == {k \in 1..n : \A i \in 1..(k - 1) : s.be.toks[i + 1] = s.ws.pred[i - 1].tok}
    <2>5. n \in S
        <3>1. ASSUME NEW i \in 1..(n - 1)
              PROVE  s.be.toks[i + 1] = s.ws.pred[i - 1].tok
            <4>1. i \in 1..off /\ i + 1 \in 1..n /\ i - 1 # off
                BY <1>1, <2>2
            <4>2. i - 1 \in Slots
                <5>1. At + ChunkLen <= ChunkTokens /\ ChunkTokens \in Nat
                    BY ChunkFacts, Cuda1Assumption
                <5>2. QED
                    BY <1>1, <2>1, <4>1, <5>1 DEF Slots
            <4>3. i - 1 # At + ChunkLen - 1
                BY <1>1, <2>1, <4>1
            <4>4. s.ws.pred[i - 1] = ws.pred[i - 1]
                BY <4>2, <4>3 DEF Executed
            <4>5. s.be.toks[i + 1] = txn.toks[i + 1]
                <5> DEFINE z == SubSeq(txn.toks, 1, n)
                <5>1. n \in 0..Len(txn.toks)
                    BY <1>1
                <5>2. \A j \in 1..n : z[j] = txn.toks[j]
                    BY <1>1, <5>1, FirstFacts
                <5>3. s.be.toks = z
                    BY DEF Executed
                <5>4. QED
                    BY <4>1, <5>2, <5>3
            <4>6. QED
                BY <2>4, <4>1, <4>4, <4>5
        <3>2. n \in 1..n
            BY <1>1
        <3>3. QED
            BY <3>1, <3>2
    <2>6. Max(S) = n
        <3>1. \A y \in S : y \in Nat /\ y <= n
            BY <1>1
        <3> HIDE DEF S
        <3>2. n \in Nat
            BY <1>1
        <3> HIDE DEF n
        <3>3. \A y \in S : n >= y
            BY <3>1, <3>2
        <3>4. \A x \in S : (\A y \in S : x >= y) => x = n
            BY <2>5, <3>1, <3>2
        <3>5. QED
            BY <2>5, <3>3, <3>4 DEF Max
    <2>7. AcceptedRows(s) = n
        BY <1>2, <2>6 DEF AcceptedRows
    <2>8. AnswerOf(s) = [rows |-> n, next |-> s.ws.pred[n - 1]]
        BY <1>2, <1>4, <2>7 DEF AnswerOf
    <2>9. QED
        BY <2>2, <2>8
<1>5. QED
    BY <1>3, <1>4

\* A call of execute makes progress, and the answer is its own.
LEMMA ExecuteStep ==
    ASSUME StageInv, NoTail, step = "execute", NEW t \in Tokens, Execute(t)
    PROVE  StageInv'
<1> DEFINE s == Result(t)  n == off + ChunkLen
<1>1. Executed(s, t) /\ DraftFed(s)
    BY ExecutedFacts
<1>2. /\ Becomes(s) /\ answer' = AnswerOf(s) /\ off' = n
      /\ step' = CASE off' = Len(txn.toks) -> "commit"
                   [] off' < Len(txn.toks) /\ txn.kind = "append" -> "execute"
                   [] OTHER -> "verify"
      /\ UNCHANGED <<session, txn, fail>>
    <2>1. ExecuteAccepted
        BY ExecuteAccepts
    <2>2. txn.kind = "append" => AdvanceAccepted(RanTo(t))
        BY AdvanceAccepts
    <2>3. QED
        BY <2>1, <2>2 DEF Execute, Result, FedTo, RanTo
<1> HIDE DEF s
<1>3. answer' = [rows |-> n, next |-> s.ws.pred[At + ChunkLen - 1]]
    BY <1>1, <1>2, AnswerFacts
<1>4. /\ StageTypes /\ SessionHeld /\ OpenTogether /\ TargetRan /\ StepInOrder /\ ~fail
      /\ txn.kind \in Kinds
    BY DEF StageInv, Running, OpenTogether
<1>5. /\ session \in Seq(Tokens) /\ txn.toks \in Seq(Tokens) /\ off \in Nat /\ Base \in Nat
      /\ Len(txn.toks) \in Nat /\ txn.epoch \in Nat /\ mtp.pending \in BOOLEAN
      /\ txn \in [kind : Kinds \cup {"none"}, toks : Seq(Tokens), epoch : Nat]
    BY <1>4, Typing DEF StageTypes
<1>6. /\ ChunkLen \in Nat /\ ChunkLen >= 1 /\ n <= Len(txn.toks) /\ n \in Nat /\ n > 0
      /\ At \in Nat /\ \A i \in 1..ChunkLen : At + i - 1 \in Slots
      /\ (txn.kind # "append" => ChunkLen = 1)
      /\ (txn.kind = "append" => ChunkLen = ChunkTokens \/ n = Len(txn.toks))
    BY <1>5, ChunkFacts
<1>7. Full' = Full /\ Base' = Base /\ Rows' = Rows
    BY <1>2 DEF Full, Base, Rows
<1>8. /\ s \in States /\ be' = s.be /\ mtp' = s.mtp /\ ws' = s.ws /\ gdn' = s.gdn
      /\ qsa' = s.qsa /\ mqsa' = s.mqsa
    BY <1>1, <1>2 DEF Executed, Becomes
<1>9. Base + off + ChunkLen = Base + n
    BY <1>5, <1>6
<1>10. s.ws.pred[At + ChunkLen - 1] = [hc |-> After(Base + n), tok |-> t]
       /\ s.ws.pred[At + ChunkLen - 1] \in Predictions
    <2>1. At + ChunkLen - 1 \in Slots
        BY <1>6
    <2>2. s.ws \in WsRecords
        BY <1>8 DEF States
    <2>3. QED
        BY <1>1, <1>9, <2>1, <2>2 DEF Executed, WsRecords
<1>11. step' \in Running /\ (step' = "commit" <=> n = Len(txn.toks))
       /\ (step' = "execute" <=> n < Len(txn.toks) /\ txn.kind = "append")
       /\ (step' = "verify" => n < Len(txn.toks) /\ txn.kind # "append")
    <2> HIDE DEF n
    <2>1. QED
        BY <1>2, <1>5, <1>6 DEF Running
<1>12. step' # "none" /\ step' # "draft"
    BY <1>11 DEF Running
<1> HIDE DEF n
<1>13. StageTypes'
    <2>1. be' \in BeRecords /\ mtp' \in MtpRecords /\ ws' \in WsRecords /\ gdn' \in Banks
          /\ qsa' \in QsaOf(TokenKeys) /\ mqsa' \in QsaOf(RowKeys)
        BY <1>8 DEF States
    <2>2. answer' \in [rows : Nat, next : Predictions]
        BY <1>3, <1>6, <1>10
    <2>3. off' \in Nat /\ step' \in Steps /\ session' \in Seq(Tokens)
        BY <1>2, <1>5, <1>6, <1>11 DEF Steps, Running
    <2>4. QED
        BY <1>2, <1>5, <2>1, <2>2, <2>3 DEF StageTypes
<1>14. /\ gdn'.active = TRUE /\ gdn'.epoch = txn.epoch /\ CommittedCopy(gdn') = session
       /\ Working(gdn') = After(Base + n)
       /\ qsa'.active = TRUE /\ qsa'.epoch = txn.epoch /\ qsa'.committed = Base
       /\ Holds(qsa', Full, Base + n)
       /\ \A i \in 1..ChunkLen : ws'.hc[At + i - 1] = After(Base + off + i)
    BY <1>1, <1>8, <1>9 DEF Executed, TargetAt
<1>15. /\ be'.prov = txn.epoch /\ be'.base = Base /\ be'.expected = Len(txn.toks)
       /\ be'.kind = txn.kind /\ be'.active = TRUE /\ be'.frontier = be.frontier
       /\ be'.epoch = be.epoch /\ be'.processed = n /\ be'.toks = SubSeq(txn.toks, 1, n)
       /\ ws'.pend = ws.pend /\ mtp'.pending = mtp.pending /\ qsa'.evaluated = n
       /\ mqsa'.committed = mqsa.committed
       /\ \A i \in 1..ChunkLen : ws'.toks[At + i - 1] = txn.toks[off + i]
       /\ \A j \in Slots : j # At + ChunkLen - 1 => ws'.pred[j] = ws.pred[j]
    BY <1>1, <1>8 DEF Executed, n
<1>16. txn.epoch = be.epoch + 1 /\ be.epoch \in Nat /\ txn.epoch # 0
    BY <1>4, Typing DEF OpenTogether
<1>17. TargetRan'
    BY <1>2, <1>6, <1>7, <1>14, <1>15, <1>16 DEF TargetRan, After
<1>18. StepInOrder'
    <2>1. step' = "verify" => txn.kind = "speculative"
        <3>1. txn.kind = "decode" => Len(txn.toks) = 1
            BY <1>4, <1>11 DEF OpenTogether
        <3>2. ASSUME step' = "verify"
              PROVE  txn.kind # "decode" /\ txn.kind # "append"
            <4>1. n < Len(txn.toks) /\ txn.kind # "append"
                BY <1>11, <3>2
            <4>2. n \in Nat /\ n > 0
                BY <1>6
            <4>3. ~(1 > n)
                BY <4>2
            <4>4. QED
                BY <3>1, <4>1, <4>2, <4>3
        <3>3. QED
            BY <1>4, <3>2 DEF Kinds
    <2>2. IF step' = "commit" THEN off' = Len(txn.toks) ELSE off' < Len(txn.toks)
        BY <1>2, <1>11 DEF Running, n
    <2>3. answer'.rows = off' /\ answer'.next.hc = After(Base + n)
        BY <1>2, <1>3, <1>10 DEF n
    <2>4. off' = n /\ off' > 0
        BY <1>2, <1>6 DEF n
    <2>5. QED
        BY <1>2, <1>7, <2>1, <2>2, <2>3, <2>4 DEF StepInOrder, After
<1>19. OpenTogether'
    <2>1. txn # NoTxn
        BY <1>4 DEF OpenTogether
    <2>2. /\ txn.kind \in Kinds /\ (txn.kind # "append" => session # <<>>)
          /\ (txn.kind = "append" => Len(txn.toks) \in AppendSizes)
          /\ (txn.kind = "decode" => Len(txn.toks) = 1)
          /\ (txn.kind = "speculative" => Len(txn.toks) - 1 \in 1..MaxWidth)
        BY <1>4 DEF OpenTogether
    <2>3. /\ be'.active = (be'.prov # 0) /\ gdn'.active = (be'.prov # 0)
          /\ qsa'.active = (be'.prov # 0)
        BY <1>14, <1>15, <1>16
    <2>4. QED
        BY <1>2, <1>12, <1>15, <1>16, <2>1, <2>2, <2>3 DEF OpenTogether
<1>20. SessionHeld'
    <2>1. Holds(qsa', session, Base)
        BY <1>4, <1>6, <1>8, <1>14, SessionKeys DEF States
    <2>2. Holds(mqsa', MtpRowsOf(session), mqsa.committed)
        <3>1. CASE txn.kind = "append"
            <4>1. Holds(mqsa', Rows, mqsa.committed + s.mtp.rows)
                BY <1>1, <1>8, <3>1 DEF DraftFed
            <4>2. s.mtp.rows \in Nat /\ mqsa' \in QsaOf(RowKeys)
                BY <1>8 DEF States, MtpRecords
            <4>3. QED
                BY <1>4, <4>1, <4>2, SessionRows
        <3>2. CASE txn.kind # "append"
            <4>1. mqsa' = mqsa
                BY <1>1, <1>8, <3>2 DEF DraftFed
            <4>2. QED
                BY <1>4, <4>1 DEF SessionHeld
        <3>3. QED
            BY <3>1, <3>2
    <2>3. MtpRowsOf(session') = MtpRowsOf(session)
        BY <1>2
    <2>4. QED
        BY <1>2, <1>4, <1>7, <1>14, <1>15, <2>1, <2>2, <2>3 DEF SessionHeld
<1>21. ASSUME txn.kind = "append"
       PROVE  AppendRan'
    <2>1. step' = "execute" => \E k \in 0..off' : off' = k * ChunkTokens
        <3>1. SUFFICES ASSUME step' = "execute"
                       PROVE  \E k \in 0..off' : off' = k * ChunkTokens
            OBVIOUS
        <3>2. ChunkLen = ChunkTokens
            BY <1>5, <1>6, <1>11, <3>1
        <3>3. PICK k \in 0..off : off = k * ChunkTokens
            BY <1>21 DEF StageInv, Running, AppendRan
        <3>4. ChunkTokens \in Nat /\ ChunkTokens >= 1
            BY Cuda1Assumption
        <3>5. n = (k + 1) * ChunkTokens
            BY <1>5, <3>2, <3>3, <3>4 DEF n
        <3>6. k + 1 \in 0..n
            BY <1>5, <3>2, <3>3, <3>4 DEF n
        <3>7. off' = n
            BY <1>2 DEF n
        <3>8. QED
            BY <3>5, <3>6, <3>7
    <2>2. off' = n /\ n > 0
        BY <1>2, <1>6 DEF n
    <2>3. /\ s.mtp.candidate = TRUE /\ s.ws.cand = After(Base + n)
          /\ s.mtp.rows = n - One(~mtp.pending) /\ s.mtp.active = (s.mtp.rows # 0)
          /\ Holds(s.mqsa, Rows, mqsa.committed + s.mtp.rows)
        <3>1. /\ s.mtp.candidate = TRUE /\ s.ws.cand = After(Base + off + ChunkLen)
              /\ s.mtp.rows = off + ChunkLen - One(~mtp.pending)
              /\ s.mtp.active = (s.mtp.rows # 0)
              /\ Holds(s.mqsa, Rows, mqsa.committed + s.mtp.rows)
            BY <1>1, <1>21 DEF DraftFed
        <3>2. n = off + ChunkLen
            BY DEF n
        <3>3. s.ws.cand = After(Base + n)
            BY <1>9, <3>1
        <3>4. s.mtp.rows = n - One(~mtp.pending)
            <4>1. off \in Nat /\ ChunkLen \in Nat /\ One(~mtp.pending) \in Int
                BY <1>5, <1>6 DEF One
            <4>2. QED
                BY <3>1, <3>2, <4>1
        <3>5. QED
            BY <3>1, <3>3, <3>4
    <2>4. /\ mtp'.candidate = TRUE /\ ws'.cand = After(Base + n)
          /\ mtp'.rows = n - One(~mtp.pending) /\ mtp'.active = (mtp'.rows # 0)
          /\ Holds(mqsa', Rows, mqsa.committed + mtp'.rows)
        BY <1>8, <2>3
    <2>5. ws'.cand = SubSeq(Full', 1, Base' + off')
        BY <1>7, <2>2, <2>4 DEF After
    <2>6. off' > 0 => mtp'.rows = off' - One(~mtp'.pending)
        BY <1>15, <2>2, <2>4
    <2>7. Holds(mqsa', Rows', mqsa'.committed + mtp'.rows)
        BY <1>7, <1>15, <2>4
    <2>8. ~(off' = 0)
        BY <1>6, <2>2
    <2>9. QED
        BY <2>1, <2>4, <2>5, <2>6, <2>7, <2>8 DEF AppendRan, After
<1>22. ASSUME txn.kind = "decode"
       PROVE  DecodeRan'
    <2>1. At = 0 /\ ChunkLen = 1 /\ off = 0 /\ 1 \in 1..ChunkLen /\ ~mtp.active
        BY <1>6, <1>22, ChunkFacts DEF At, StageInv, Running, DecodeRan
    <2>2. mtp'.active = FALSE
        <3>1. mtp' = OpenedMtp
            BY <1>1, <1>8, <1>22, <2>1 DEF DraftFed, MtpOpen
        <3>2. ~RetainedDraft
            BY <1>22 DEF RetainedDraft
        <3>3. QED
            BY <1>4, <3>1, <3>2, OpenedFacts
    <2>3. ws'.toks[0] = txn.toks[1]
        <3>1. ws'.toks[At + 1 - 1] = txn.toks[off + 1]
            BY <1>15, <2>1
        <3>2. At + 1 - 1 = 0 /\ off + 1 = 1
            BY <2>1
        <3>3. QED
            BY <3>1, <3>2
    <2>4. ws'.hc[0] = After(Base + n)
        <3>1. ws'.hc[At + 1 - 1] = After(Base + off + 1)
            BY <1>14, <2>1
        <3>2. At + 1 - 1 = 0 /\ Base + off + 1 = Base + n
            BY <1>5, <2>1 DEF n
        <3>3. QED
            BY <3>1, <3>2
    <2>5. off' = n
        BY <1>2 DEF n
    <2>6. ws'.hc[0] = After(Base + off)'
        BY <1>7, <2>4, <2>5 DEF After
    <2>7. QED
        BY <1>2, <2>2, <2>3, <2>6 DEF DecodeRan
<1>23. ASSUME txn.kind = "speculative"
       PROVE  DraftRan'
    <2>1. At = off /\ ChunkLen = 1 /\ 1 \in 1..ChunkLen /\ n = off + 1 /\ off' = n
        BY <1>2, <1>6, <1>23 DEF At, n
    <2>2. DraftRan /\ step' # "execute"
        BY <1>11, <1>23 DEF StageInv, Running
    <2>3. /\ mtp.active = TRUE /\ mtp.epoch = txn.epoch /\ mtp.rows + 1 = Len(txn.toks)
          /\ mtp.reconciled = n /\ Holds(mqsa, Rows, mqsa.committed + n)
          /\ \A i \in 1..(n - 1) : ws.pred[i - 1].tok = txn.toks[i + 1]
        BY <1>4, <2>1, <2>2, Typing DEF DraftRan
    <2>4. mqsa' = mqsa /\ mtp' = MtpOpen
        BY <1>1, <1>8, <1>23 DEF DraftFed
    <2>5. /\ mtp'.active = TRUE /\ mtp'.epoch = txn.epoch /\ mtp'.rows = mtp.rows
          /\ mtp'.reconciled = n
        <3>1. RetainedDraft
            <4>1. Len(txn.toks) - 1 \in 1..MaxWidth /\ mtp.rows \in Nat
                BY <1>4, <1>23, Typing DEF OpenTogether
            <4>2. mtp.rows # 0
                BY <2>3, <4>1
            <4>3. QED
                BY <1>23, <2>3, <4>2 DEF RetainedDraft
        <3>2. MtpOpen.active = mtp.active /\ MtpOpen.epoch = mtp.epoch
              /\ MtpOpen.rows = mtp.rows /\ MtpOpen.reconciled = mtp.reconciled
            BY <1>4, <3>1, OpenedFacts DEF MtpOpen
        <3>3. QED
            BY <2>3, <2>4, <3>2
    <2>6. ws'.hc[n - 1] = After(Base + n)
        <3>1. ws'.hc[At + 1 - 1] = After(Base + off + 1)
            BY <1>14, <2>1
        <3>2. At + 1 - 1 = n - 1 /\ Base + off + 1 = Base + n
            BY <1>5, <2>1
        <3>3. QED
            BY <3>1, <3>2
    <2>7. ASSUME NEW i \in 1..(n - 1)
          PROVE  ws'.pred[i - 1].tok = txn.toks[i + 1]
        <3>1. At + ChunkLen <= ChunkTokens /\ ChunkTokens \in Nat
            BY ChunkFacts, Cuda1Assumption
        <3>2. i - 1 \in Slots /\ i - 1 # At + ChunkLen - 1
            BY <1>5, <2>1, <3>1 DEF Slots
        <3>3. ws'.pred[i - 1] = ws.pred[i - 1]
            BY <1>15, <3>2
        <3>4. QED
            BY <2>3, <3>3
    <2>8. answer'.next = ws'.pred[n - 1]
        <3>1. At + ChunkLen - 1 = n - 1
            BY <1>5, <2>1
        <3>2. QED
            BY <1>3, <1>8, <3>1
    <2>9. ws'.hc[off' - 1] = After(Base + off)'
        BY <1>7, <2>1, <2>6 DEF After
    <2>10. Holds(mqsa', Rows', mqsa'.committed + mtp'.reconciled)
        BY <1>7, <2>3, <2>4, <2>5
    <2>11. \A i \in 1..(mtp'.reconciled - 1) : ws'.pred[i - 1].tok = txn.toks[i + 1]
        BY <2>5, <2>7
    <2>12. QED
        BY <1>2, <2>1, <2>2, <2>3, <2>5, <2>8, <2>9, <2>10, <2>11 DEF DraftRan
<1>24. QED
    BY <1>2, <1>4, <1>13, <1>17, <1>18, <1>19, <1>20, <1>21, <1>22, <1>23 DEF StageInv

-----------------------------------------------------------------------------
(* A cancelled execute.                                                    *)

\* What is left of the session when a chunk is given up.
Interrupted(r, k) ==
    /\ r \in States
    /\ r.be.prov = txn.epoch /\ r.be.active = TRUE /\ r.be.frontier = be.frontier
    /\ r.be.epoch = be.epoch /\ r.ws.pend = ws.pend /\ r.mtp.pending = mtp.pending
    /\ TargetAt(r, k)
    /\ r.mqsa.committed = mqsa.committed
    /\ Holds(r.mqsa, MtpRowsOf(session), mqsa.committed)

\* The next call rolls back.
LEMMA InterruptedStep ==
    ASSUME StageInv, NoTail, step = "execute", NEW r, NEW k \in Nat, Interrupted(r, k),
           Becomes(r), Cancelled
    PROVE  StageInv'
<1>1. /\ StageTypes /\ SessionHeld /\ OpenTogether /\ ~fail /\ txn # NoTxn
    BY DEF StageInv, OpenTogether
<1>2. step' = "rollback" /\ UNCHANGED <<session, txn, off, answer, fail>>
    BY DEF Cancelled
<1>3. /\ r \in States /\ be' = r.be /\ mtp' = r.mtp /\ ws' = r.ws /\ gdn' = r.gdn
      /\ qsa' = r.qsa /\ mqsa' = r.mqsa
    BY DEF Interrupted, Becomes
<1>4. step' \notin Running /\ step' \in Steps
    BY <1>2 DEF Running, Steps
<1>5. StageTypes'
    BY <1>1, <1>2, <1>3, <1>4 DEF StageTypes, States
<1>6. /\ be'.prov = txn.epoch /\ be'.active = TRUE /\ be'.frontier = be.frontier
      /\ be'.epoch = be.epoch /\ ws'.pend = ws.pend /\ mtp'.pending = mtp.pending
      /\ gdn'.active = TRUE /\ CommittedCopy(gdn') = session
      /\ qsa'.active = TRUE /\ qsa'.committed = Base /\ Holds(qsa', Full, Base + off + k)
      /\ mqsa'.committed = mqsa.committed
      /\ Holds(mqsa', MtpRowsOf(session), mqsa.committed)
    BY <1>3 DEF Interrupted, TargetAt
<1>7. Base' = Base /\ MtpRowsOf(session') = MtpRowsOf(session)
    BY <1>2 DEF Base
<1>8. Holds(qsa', session, Base)
    <2>1. off \in Nat /\ Base \in Nat
        BY <1>1, Typing
    <2>2. Base + off + k = Base + (off + k) /\ off + k \in Nat
        BY <2>1
    <2>3. qsa' \in QsaOf(TokenKeys)
        BY <1>3 DEF States
    <2>4. QED
        BY <1>1, <1>6, <2>2, <2>3, SessionKeys
<1>9. SessionHeld'
    BY <1>1, <1>2, <1>6, <1>7, <1>8 DEF SessionHeld
<1>10. OpenTogether'
    <2>1. txn.epoch = be.epoch + 1 /\ be.epoch \in Nat /\ txn.epoch # 0
        BY <1>1, Typing DEF OpenTogether
    <2>2. /\ txn.kind \in Kinds /\ (txn.kind # "append" => session # <<>>)
          /\ (txn.kind = "append" => Len(txn.toks) \in AppendSizes)
          /\ (txn.kind = "decode" => Len(txn.toks) = 1)
          /\ (txn.kind = "speculative" => Len(txn.toks) - 1 \in 1..MaxWidth)
        BY <1>1 DEF OpenTogether
    <2>3. /\ be'.active = (be'.prov # 0) /\ gdn'.active = (be'.prov # 0)
          /\ qsa'.active = (be'.prov # 0)
        BY <1>6, <2>1
    <2>4. QED
        BY <1>1, <1>2, <1>6, <2>1, <2>2, <2>3 DEF OpenTogether
<1>11. QED
    BY <1>1, <1>2, <1>4, <1>5, <1>9, <1>10 DEF StageInv

\* The target's run is given up before the draft model has begun.
LEMMA TargetInterrupted ==
    ASSUME StageInv, NoTail, step = "execute", NEW k \in 0..ChunkLen
    PROVE  /\ Interrupted(TargetRun(Entered, k), k)
           /\ DraftWaits(TargetRun(Entered, k)) /\ InChunk(TargetRun(Entered, k))
           /\ TargetAt(TargetRun(Entered, k), k)
<1> DEFINE e == Entered
<1>1. InChunk(e) /\ TargetAt(e, 0) /\ DraftWaits(e)
    BY EnteredFacts
<1>2. StageTypes /\ SessionHeld
    BY DEF StageInv
<1> HIDE DEF e
<1> DEFINE r == TargetRun(e, k)
<1>3. /\ InChunk(r) /\ TargetAt(r, k) /\ r.mtp = e.mtp /\ r.mqsa = e.mqsa
      /\ r.ws.cand = e.ws.cand
    BY <1>1, RunFacts
<1> HIDE DEF r
<1>4. DraftWaits(r)
    BY <1>1, <1>3 DEF DraftWaits
<1>5. MtpOpen.pending = mtp.pending
    BY <1>2, OpenedFacts DEF MtpOpen
<1>6. r.mqsa = mqsa /\ r.mtp.pending = mtp.pending
    BY <1>4, <1>5 DEF DraftWaits
<1>7. Holds(mqsa, MtpRowsOf(session), mqsa.committed)
    BY <1>2 DEF SessionHeld
<1>8. Interrupted(r, k)
    BY <1>3, <1>6, <1>7 DEF Interrupted, InChunk
<1>9. QED
    BY <1>3, <1>4, <1>8 DEF r, e

\* It is given up in the draft model's run.
LEMMA DraftInterrupted ==
    ASSUME StageInv, NoTail, step = "execute", txn.kind = "append",
           NEW k \in 0..AppendEvaluated(TargetRun(Entered, ChunkLen))
    PROVE  Interrupted(Advancing(TargetRun(Entered, ChunkLen), k), ChunkLen)
<1> DEFINE g == TargetRun(Entered, ChunkLen)
<1>1. ChunkLen \in Nat /\ ChunkLen \in 0..ChunkLen
    BY ChunkFacts
<1>2. InChunk(g) /\ TargetAt(g, ChunkLen) /\ DraftWaits(g)
    BY <1>1, TargetInterrupted
<1>3. k \in 0..AppendEvaluated(g)
    OBVIOUS
<1> HIDE DEF g
<1> DEFINE r == Advancing(g, k)
<1>4. RowsRun(r, g, k)
    BY <1>2, <1>3, AdvancingFacts
<1> HIDE DEF r
<1>5. /\ r \in States /\ r.be = g.be /\ r.ws = g.ws /\ r.gdn = g.gdn /\ r.qsa = g.qsa
      /\ r.mtp = [g.mtp EXCEPT !.active = TRUE, !.epoch = txn.epoch]
      /\ r.mqsa.committed = mqsa.committed
      /\ Holds(r.mqsa, Rows, mqsa.committed + g.mtp.rows + k)
    BY <1>4 DEF RowsRun
<1>6. StageTypes /\ SessionHeld
    BY DEF StageInv
<1>7. g.mtp \in MtpRecords /\ g.mtp.pending = mtp.pending
    BY <1>2, AppendFacts
<1>8. r.mtp.pending = mtp.pending
    BY <1>5, <1>7 DEF MtpRecords
<1>9. Holds(r.mqsa, MtpRowsOf(session), mqsa.committed)
    <2>1. mqsa.committed \in Nat /\ g.mtp.rows \in Nat
        BY <1>6, <1>7, CommittedRows DEF MtpRecords
    <2>2. k \in Nat
        <3>1. AppendEvaluated(g) \in Int
            BY <1>1 DEF AppendEvaluated, One
        <3>2. QED
            BY <1>3, <3>1
    <2> DEFINE m == g.mtp.rows + k
    <2>3. m \in Nat /\ mqsa.committed + g.mtp.rows + k = mqsa.committed + m
        BY <2>1, <2>2
    <2>4. r.mqsa \in QsaOf(RowKeys)
        BY <1>5 DEF States
    <2> HIDE DEF m
    <2>5. Holds(r.mqsa, Rows, mqsa.committed + m)
        BY <1>5, <2>3
    <2>6. QED
        BY <1>6, <2>3, <2>4, <2>5, SessionRows
<1>10. TargetAt(r, ChunkLen)
    BY <1>2, <1>5 DEF TargetAt
<1>11. Interrupted(r, ChunkLen)
    BY <1>2, <1>5, <1>8, <1>9, <1>10 DEF Interrupted, InChunk
<1>12. QED
    BY <1>11 DEF r, g

\* Nothing has been done yet: cancelled on entry, or before a draft's first row.
LEMMA CancelledStep ==
    ASSUME StageInv, step \in {"draft", "execute"}, Cancelled,
           UNCHANGED <<be, mtp, ws, gdn, qsa, mqsa>>
    PROVE  StageInv'
<1>1. /\ StageTypes /\ SessionHeld /\ OpenTogether /\ ~fail /\ txn # NoTxn
    BY DEF StageInv, OpenTogether
<1>2. step' = "rollback" /\ UNCHANGED <<session, txn, off, answer, fail>>
    BY DEF Cancelled
<1>3. step' \notin Running /\ step' \in Steps
    BY <1>2 DEF Running, Steps
<1>4. StageTypes'
    BY <1>1, <1>2, <1>3 DEF StageTypes
<1>5. SessionHeld'
    BY <1>1, <1>2 DEF SessionHeld, Base
<1>6. OpenTogether'
    BY <1>1, <1>2 DEF OpenTogether
<1>7. QED
    BY <1>1, <1>2, <1>3, <1>4, <1>5, <1>6 DEF StageInv

\* A cancelled execute leaves the session as it was.
LEMMA CancelExecuteStep ==
    ASSUME StageInv, NoTail, CancelExecute
    PROVE  StageInv'
<1>1. step = "execute" /\ Cancelled
    BY DEF CancelExecute
<1>2. CASE UNCHANGED <<be, mtp, ws, gdn, qsa, mqsa>>
    BY <1>1, <1>2, CancelledStep
<1>3. CASE \E k \in Stops(ChunkLen) : Becomes(TargetRun(Entered, k))
    <2>1. PICK k \in Stops(ChunkLen) : Becomes(TargetRun(Entered, k))
        BY <1>3
    <2>2. k \in 0..ChunkLen /\ k \in Nat
        BY ChunkFacts, <1>1, <2>1 DEF Stops
    <2> DEFINE r == TargetRun(Entered, k)
    <2>3. Interrupted(r, k)
        BY <1>1, <2>2, TargetInterrupted
    <2>4. Becomes(r)
        BY <2>1
    <2> HIDE DEF r
    <2>5. QED
        BY <1>1, <2>2, <2>3, <2>4, InterruptedStep
<1>4. ASSUME txn.kind = "append",
             NEW k \in Stops(AppendEvaluated(TargetRun(Entered, ChunkLen))),
             Becomes(Advancing(TargetRun(Entered, ChunkLen), k))
      PROVE  StageInv'
    <2>1. k \in 0..AppendEvaluated(TargetRun(Entered, ChunkLen))
        BY DEF Stops
    <2> DEFINE r == Advancing(TargetRun(Entered, ChunkLen), k)
    <2>2. Interrupted(r, ChunkLen)
        BY <1>1, <1>4, <2>1, DraftInterrupted
    <2>3. Becomes(r)
        BY <1>4
    <2> HIDE DEF r
    <2>4. ChunkLen \in Nat
        BY <1>1, ChunkFacts
    <2>5. QED
        BY <1>1, <2>2, <2>3, <2>4, InterruptedStep
<1>5. QED
    BY <1>2, <1>3, <1>4 DEF CancelExecute

-----------------------------------------------------------------------------
(* A transaction begins, and its draft.                                    *)

\* Nothing of the transaction has run.
LEMMA BeginStep ==
    ASSUME StageInv, NEW kind \in Kinds, NEW toks \in Seq(Tokens), NEW next,
           next = IF kind = "speculative" THEN "draft" ELSE "execute",
           kind # "append" => session # <<>>,
           kind = "append" => Len(toks) \in AppendSizes,
           kind = "decode" => Len(toks) = 1,
           kind = "speculative" => Len(toks) - 1 \in 1..MaxWidth,
           Begin(kind, toks, next)
    PROVE  StageInv'
<1>1. /\ StageTypes /\ SessionHeld /\ OpenTogether /\ ~fail /\ step = "none"
    BY DEF StageInv, Begin
<1>2. /\ txn' = [kind |-> kind, toks |-> toks, epoch |-> be.epoch + 1]
      /\ off' = 0 /\ step' = next /\ answer' = NoAnswer
      /\ UNCHANGED <<session, fail, be, mtp, ws, gdn, qsa, mqsa>>
    BY DEF Begin
<1>3. be.epoch \in Nat /\ be.prov = 0 /\ ~mtp.active
    BY <1>1, Typing DEF OpenTogether
<1>4. /\ txn'.kind = kind /\ txn'.toks = toks /\ txn'.epoch = be.epoch + 1
      /\ txn' \in [kind : Kinds \cup {"none"}, toks : Seq(Tokens), epoch : Nat]
      /\ txn' # NoTxn
    <2>1. kind # "none"
        BY DEF Kinds
    <2>2. QED
        BY <1>2, <1>3, <2>1 DEF NoTxn
<1>5. answer' \in [rows : Nat, next : Predictions]
    BY <1>2 DEF NoAnswer, Predictions, Hcs, Cells
<1>6. step' \in {"draft", "execute"} /\ (step' = "draft" <=> kind = "speculative")
    BY <1>2
<1>7. StageTypes'
    BY <1>1, <1>2, <1>4, <1>5, <1>6 DEF StageTypes, Steps
<1>8. SessionHeld'
    BY <1>1, <1>2 DEF SessionHeld, Base
<1>9. OpenTogether'
    <2>1. gdn'.active = (be'.prov # 0) /\ qsa'.active = (be'.prov # 0) /\ be'.active = (be'.prov # 0)
        BY <1>1, <1>2 DEF OpenTogether
    <2>2. step' # "none"
        BY <1>6
    <2>3. QED
        BY <1>2, <1>3, <1>4, <1>6, <2>1, <2>2 DEF OpenTogether
<1>10. ASSUME step' \in Running
       PROVE  /\ TargetRan' /\ StepInOrder'
              /\ txn'.kind = "append" => AppendRan'
              /\ txn'.kind = "decode" => DecodeRan'
              /\ txn'.kind = "speculative" => DraftRan'
    <2>1. step' = "execute" /\ kind # "speculative"
        BY <1>6, <1>10 DEF Running
    <2>2. TargetRan'
        BY <1>2, <1>3 DEF TargetRan
    <2>3. Len(toks) > 0
        <3>1. CASE kind = "append"
            BY <3>1, Cuda1Assumption
        <3>2. CASE kind = "decode"
            BY <3>2
        <3>3. QED
            BY <2>1, <3>1, <3>2 DEF Kinds
    <2>4. StepInOrder'
        BY <1>2, <1>4, <2>1, <2>3 DEF StepInOrder
    <2>5. AppendRan'
        <3>1. 0 \in 0..0 /\ 0 = 0 * ChunkTokens
            BY Cuda1Assumption
        <3>2. QED
            BY <1>2, <1>3, <3>1 DEF AppendRan
    <2>6. DecodeRan'
        BY <1>2, <1>3 DEF DecodeRan
    <2>7. QED
        BY <1>4, <2>1, <2>2, <2>4, <2>5, <2>6
<1>11. QED
    BY <1>1, <1>2, <1>7, <1>8, <1>9, <1>10 DEF StageInv

\* The committed rows are the first of any sequence the session begins.
LEMMA CommittedRowsOf ==
    ASSUME StageTypes, SessionHeld, NEW t \in Seq(Tokens)
    PROVE  Holds(mqsa, MtpRowsOf(session \o t), mqsa.committed)
<1> DEFINE c == mqsa.committed  f == session \o t
<1>1. /\ c \in Nat /\ mqsa \in QsaOf(RowKeys) /\ c + One(mtp.pending) = Base
      /\ session \in Seq(Tokens) /\ Base \in Nat
      /\ Holds(mqsa, MtpRowsOf(session), c) /\ mtp.pending = (session # <<>>)
    BY CommittedRows, Typing DEF SessionHeld
<1>2. f \in Seq(Tokens) /\ Base <= Len(f) /\ \A i \in 1..Base : f[i] = session[i]
    BY <1>1, TailOfTwo DEF Base
<1>3. CASE session = <<>>
    <2>1. mtp.pending = FALSE
        BY <1>1, <1>3
    <2>2. c = 0
        BY <1>1, <1>3, <2>1 DEF One, Base
    <2>3. QED
        BY <1>1, <2>2, HoldsNothing
<1>4. CASE session # <<>>
    <2>1. mtp.pending = TRUE
        BY <1>1, <1>4
    <2>2. c = Base - 1
        BY <1>1, <2>1 DEF One
    <2> DEFINE b == Base
    <2>3. b \in 0..Len(session) /\ b <= Len(f) /\ \A i \in 1..b : session[i] = f[i]
        BY <1>1, <1>2 DEF Base
    <2> HIDE DEF b, f
    <2>4. \A i \in 1..b - 1 : MtpRowsOf(session)[i] = MtpRowsOf(f)[i]
        BY <1>1, <1>2, <2>3, RowsAgree
    <2> DEFINE r == MtpRowsOf(session)  s == MtpRowsOf(f)
    <2>5. /\ c \in 0..c /\ Holds(mqsa, r, c) /\ \A i \in 1..c : s[i] = r[i]
          /\ mqsa.keys = mqsa.keys /\ mqsa.pooled = mqsa.pooled
        BY <1>1, <2>2, <2>4 DEF b
    <2> HIDE DEF r, s, c
    <2>6. Holds(mqsa, s, c)
        BY <1>1, <2>5, HoldsLess DEF c
    <2>7. QED
        BY <2>6 DEF s, f, c
<1>5. QED
    BY <1>3, <1>4

\* A draft's transaction has its pending token.
LEMMA DraftTypes ==
    ASSUME StageInv, step = "draft"
    PROVE  /\ Width \in 1..MaxWidth /\ Len(txn.toks) = Width + 1 /\ txn.toks[1] \in Tokens
           /\ session # <<>> /\ mtp.pending = TRUE /\ mqsa.committed + 1 = Base
           /\ DraftReady
<1>1. StageTypes /\ SessionHeld /\ OpenTogether
    BY DEF StageInv
<1>2. /\ txn.kind = "speculative" /\ session # <<>> /\ Len(txn.toks) - 1 \in 1..MaxWidth
      /\ be.prov = 0 /\ ~mtp.active
    BY <1>1 DEF OpenTogether
<1>3. txn.toks \in Seq(Tokens) /\ Len(txn.toks) \in Nat
    BY <1>1, Typing
<1>4. mtp.pending = TRUE
    BY <1>1, <1>2 DEF SessionHeld
<1>5. mqsa.committed + 1 = Base
    <2>1. mqsa.committed + One(mtp.pending) = Base
        BY <1>1, CommittedRows
    <2>2. One(mtp.pending) = 1
        BY <1>4 DEF One
    <2>3. QED
        BY <2>1, <2>2
<1>6. Width \in 1..MaxWidth /\ Len(txn.toks) = Width + 1
    BY <1>2, <1>3, Cuda1Assumption DEF Width
<1>7. txn.toks[1] \in Tokens
    <2>1. 1 \in 1..Len(txn.toks)
        BY <1>3, <1>6
    <2>2. QED
        BY <1>3, <2>1, ElementOfSeq
<1>8. DraftReady
    BY <1>1, <1>2, <1>4, <1>5 DEF DraftReady, SessionHeld, Base
<1>9. QED
    BY <1>2, <1>4, <1>5, <1>6, <1>7, <1>8

\* What the draft model's run leaves of its bank: only its first row is right.
DraftLeft(c, e) ==
    /\ c \in QsaOf(RowKeys) /\ c.committed = mqsa.committed
    /\ Holds(c, MtpRowsOf(session), mqsa.committed)
    /\ Holds(c, MtpRowsOf(session \o (<<txn.toks[1]>> \o e)), mqsa.committed + 1)

\* The draft model's run.
LEMMA DraftRunFacts ==
    ASSUME StageInv, step = "draft", NEW d \in Seq(Tokens), Len(d) > 0, NEW e \in Seq(Tokens)
    PROVE  DraftLeft(DraftRun(d), e)
<1>1. /\ StageTypes /\ SessionHeld
    BY DEF StageInv
<1>2. /\ txn.toks[1] \in Tokens /\ session # <<>> /\ mqsa.committed + 1 = Base
    BY DraftTypes
<1>3. /\ mqsa \in QsaOf(RowKeys) /\ mqsa.committed \in Nat /\ txn.epoch \in Nat
      /\ session \in Seq(Tokens) /\ Base \in Nat /\ ws.pend = session
    BY <1>1, <1>2, CommittedRows, Typing DEF SessionHeld
<1> DEFINE t == <<txn.toks[1]>> \o e  f == session \o t  r == MtpRowsOf(f)
           p == mqsa.committed  s == DraftRows(d)
           b == QsaBegin(mqsa, txn.epoch)
<1>4. t \in Seq(Tokens) /\ Len(t) >= 1 /\ t[1] = txn.toks[1]
    <2> DEFINE o == <<txn.toks[1]>>
    <2>1. o \in Seq(Tokens) /\ Len(o) = 1 /\ o[1] = txn.toks[1] /\ 1 \in 1..Len(o)
        BY <1>2
    <2> HIDE DEF o
    <2>2. o \o e \in Seq(Tokens) /\ Len(o \o e) = Len(o) + Len(e) /\ Len(e) \in Nat
          /\ \A i \in 1..Len(o) : (o \o e)[i] = o[i]
        <3>1. o \in Seq(Tokens) /\ e \in Seq(Tokens)
            BY <2>1
        <3>2. /\ o \o e \in Seq(Tokens) /\ Len(o \o e) = Len(o) + Len(e)
              /\ Len(o) \in Nat /\ Len(e) \in Nat
              /\ \A i \in 1..Len(o) : (o \o e)[i] = o[i]
              /\ \A i \in 1..Len(e) : (o \o e)[Len(o) + i] = e[i]
            BY <3>1, TailOfTwo
        <3>3. QED
            BY <3>2
    <2>3. QED
        BY <2>1, <2>2 DEF o
<1> HIDE DEF t
<1>5. /\ f \in Seq(Tokens) /\ Len(f) = Base + Len(t) /\ f[Base + 1] = txn.toks[1]
      /\ SubSeq(f, 1, Base) = session
    <2>1. /\ f \in Seq(Tokens) /\ Len(f) = Base + Len(t)
          /\ \A i \in 1..Base : f[i] = session[i]
          /\ \A i \in 1..Len(t) : f[Base + i] = t[i]
        BY <1>3, <1>4, TailOfTwo DEF Base
    <2>2. 1 \in 1..Len(t)
        BY <1>4
    <2> HIDE DEF f
    <2>3. Base \in 0..Len(f) /\ Base \in 0..Len(session) /\ Len(t) \in Nat
        BY <1>3, <1>4, <2>1 DEF Base
    <2>4. SubSeq(f, 1, Base) = SubSeq(session, 1, Base)
        <3> DEFINE n == Base
        <3>1. n \in 0..Len(f) /\ n <= Len(session) /\ \A i \in 1..n : f[i] = session[i]
            BY <1>3, <2>1, <2>3 DEF Base
        <3> HIDE DEF n
        <3>2. SubSeq(f, 1, n) = SubSeq(session, 1, n)
            BY <1>3, <2>1, <3>1, SameFirst
        <3>3. QED
            BY <3>2 DEF n
    <2>5. SubSeq(session, 1, Base) = session
        BY <1>3 DEF Base
    <2>6. QED
        BY <1>4, <2>1, <2>2, <2>4, <2>5
<1> HIDE DEF f
<1>6. s \in Seq(RowKeys) /\ Len(s) = Len(d) /\ s[1] = <<session, txn.toks[1]>>
    <2> DEFINE l == Len(d)
    <2>1. l \in Nat /\ l > 0 /\ \A i \in 1..l : d[i] \in Tokens
        BY ElementOfSeq
    <2>2. s = [i \in 1..l |-> IF i = 1 THEN <<session, txn.toks[1]>> ELSE <<<<"draft">>, d[i - 1]>>]
        BY <1>3 DEF DraftRows
    <2> HIDE DEF l, s
    <2>3. \A i \in 1..l : (IF i = 1 THEN <<session, txn.toks[1]>> ELSE <<<<"draft">>, d[i - 1]>>)
                             \in RowKeys
        <3>1. TAKE i \in 1..l
        <3>2. CASE i = 1
            BY <1>2, <1>3, <3>2 DEF RowKeys, Hcs, Cells
        <3>3. CASE i # 1
            <4>1. i - 1 \in 1..l
                BY <2>1, <3>3
            <4>2. d[i - 1] \in Tokens
                BY <2>1, <4>1
            <4>3. QED
                BY <3>3, <4>2 DEF RowKeys, Hcs, Cells
        <3>4. QED
            BY <3>2, <3>3
    <2>4. s \in [1..l -> RowKeys] /\ s[1] = <<session, txn.toks[1]>>
        <3>1. s \in [1..l -> RowKeys]
            BY <2>2, <2>3
        <3>2. 1 \in 1..l
            BY <2>1
        <3>3. QED
            BY <2>2, <3>1, <3>2
    <2>5. s \in Seq(RowKeys) /\ Len(s) = l
        BY <2>1, <2>4, IsASeq, LenProperties
    <2>6. QED
        BY <2>4, <2>5 DEF l
<1>7. b \in QsaOf(RowKeys) /\ b.keys = mqsa.keys /\ b.pooled = mqsa.pooled /\ b.committed = p
    <2> DEFINE q == mqsa  n == txn.epoch
    <2>1. q \in QsaOf(RowKeys) /\ n \in Nat
        BY <1>3
    <2> HIDE DEF q, n
    <2> DEFINE y == QsaBegin(q, n)
    <2>2. y \in QsaOf(RowKeys) /\ y.keys = q.keys /\ y.pooled = q.pooled
          /\ y.committed = q.committed
        BY <2>1, QsaBeginFacts
    <2>3. QED
        BY <2>2 DEF q, n
<1>8. DraftRun(d) = QsaStore(b, p, s)
    BY DEF DraftRun
<1>9. Holds(mqsa, r, p)
    BY <1>1, <1>4, CommittedRowsOf DEF f
<1>10. Holds(mqsa, MtpRowsOf(session), p)
    BY <1>1 DEF SessionHeld
<1>11. r[p + 1] = s[1]
    <2>1. Base \in 1..(Len(f) - 1)
        BY <1>2, <1>3, <1>4, <1>5
    <2>2. r[Base] = <<SubSeq(f, 1, Base), f[Base + 1]>>
        BY <2>1 DEF MtpRowsOf
    <2>3. QED
        BY <1>2, <1>5, <1>6, <2>2
<1> HIDE DEF b, r, s
<1>12. Holds(b, r, p) /\ Holds(b, MtpRowsOf(session), p)
    BY <1>7, <1>9, <1>10 DEF Holds
<1> DEFINE c == QsaStore(b, p, s)
<1>13. c \in QsaOf(RowKeys) /\ c.committed = b.committed /\ Holds(c, r, p + 1)
    <2>1. 1 \in 0..Len(s) /\ \A i \in 1..1 : r[p + i] = s[i]
        <3>1. Len(s) \in Nat /\ Len(s) > 0
            BY <1>6
        <3>2. \A i \in 1..1 : i = 1
            OBVIOUS
        <3>3. QED
            BY <1>11, <3>1, <3>2
    <2>2. p \in Nat
        BY <1>3
    <2> DEFINE k == 1
    <2>3. k \in 0..Len(s) /\ \A i \in 1..k : r[p + i] = s[i]
        BY <2>1
    <2> HIDE DEF p, k, c
    <2>4. c \in QsaOf(RowKeys) /\ c.committed = b.committed /\ Holds(c, r, p + k)
        BY <1>6, <1>7, <1>12, <2>2, <2>3, HoldsStore DEF c
    <2>5. QED
        BY <2>4 DEF k
<1>14. Holds(c, MtpRowsOf(session), p)
    <2> DEFINE z == MtpRowsOf(session)  k == 0
    <2>1. k \in 0..Len(s) /\ \A i \in 1..k : z[p + i] = s[i]
        BY <1>6
    <2>2. p \in Nat /\ Holds(b, z, p) /\ p + k = p
        BY <1>3, <1>12
    <2> HIDE DEF p, z, k, c
    <2>3. Holds(c, z, p + k)
        BY <1>6, <1>7, <2>1, <2>2, HoldsStore DEF c
    <2>4. QED
        BY <2>2, <2>3 DEF z
<1> HIDE DEF c
<1>15. QED
    BY <1>7, <1>8, <1>13, <1>14 DEF DraftLeft, c, r, f, t

\* A draft writes to the workspace, but not to the pending HC.
LEMMA DraftedFacts ==
    ASSUME StageInv, step = "draft", NEW d \in Seq(Tokens)
    PROVE  Drafted(d) \in WsRecords /\ Drafted(d).pend = ws.pend
<1> DEFINE o == <<txn.toks[1]>>
           s == [i \in 1..Len(d) |-> [hc |-> <<"draft">>, tok |-> d[i]]]
           x == Written(ws.toks, 0, o)  y == Written(ws.pred, 0, s)
<1>1. StageTypes /\ ws \in WsRecords
    BY DEF StageInv, StageTypes
<1>2. ws.toks \in [Slots -> Cells] /\ ws.pred \in [Slots -> Predictions]
    BY <1>1, Typing
<1>3. o \in Seq(Cells)
    <2>1. txn.toks[1] \in Cells
        BY DraftTypes DEF Cells
    <2>2. QED
        BY <2>1
<1>4. s \in Seq(Predictions)
    <2>1. Len(d) \in Nat /\ \A i \in 1..Len(d) : d[i] \in Tokens
        BY ElementOfSeq
    <2>2. \A i \in 1..Len(d) : [hc |-> <<"draft">>, tok |-> d[i]] \in Predictions
        BY <2>1 DEF Predictions, Hcs, Cells
    <2>3. s \in [1..Len(d) -> Predictions]
        BY <2>2
    <2> HIDE DEF s
    <2>4. QED
        BY <2>1, <2>3, IsASeq
<1> HIDE DEF o, s
<1>5. x \in [Slots -> Cells]
    BY <1>2, <1>3, WrittenFacts
<1>6. y \in [Slots -> Predictions]
    BY <1>2, <1>4, WrittenFacts
<1>7. Drafted(d) = [ws EXCEPT !.toks = x, !.pred = y, !.cand = <<"draft">>]
    BY DEF Drafted, o, s
<1> HIDE DEF x, y
<1>8. <<"draft">> \in Hcs
    BY DEF Hcs
<1>9. QED
    BY <1>1, <1>5, <1>6, <1>7, <1>8 DEF WsRecords

\* The draft's first row is made of the pending HC and the pending token, which
\* the target has still to confirm nothing of.
LEMMA DraftStep ==
    ASSUME StageInv, NEW d \in Seq(Tokens), Draft(d)
    PROVE  StageInv'
<1>1. /\ StageTypes /\ SessionHeld /\ OpenTogether /\ ~fail /\ step = "draft" /\ Len(d) = Width
    BY DEF StageInv, Draft
<1>2. /\ Width \in 1..MaxWidth /\ Len(txn.toks) = Width + 1 /\ txn.toks[1] \in Tokens
      /\ session # <<>> /\ mtp.pending = TRUE /\ mqsa.committed + 1 = Base /\ DraftReady
    BY <1>1, DraftTypes
<1>3. /\ mqsa' = QsaMark(DraftRun(d), Width) /\ ws' = Drafted(d)
      /\ mtp' = [mtp EXCEPT !.active = TRUE, !.epoch = txn.epoch, !.rows = Width,
                            !.reconciled = 1]
      /\ txn' = [txn EXCEPT !.toks = <<txn.toks[1]>> \o d]
      /\ step' = "execute"
      /\ UNCHANGED <<session, off, answer, fail, be, gdn, qsa>>
    BY <1>2 DEF Draft
<1>4. /\ txn.epoch \in Nat /\ txn.kind = "speculative" /\ be.prov = 0 /\ off = 0
      /\ be.epoch \in Nat /\ txn.epoch = be.epoch + 1 /\ MaxWidth \in Nat
      /\ txn \in [kind : Kinds \cup {"none"}, toks : Seq(Tokens), epoch : Nat]
    BY <1>1, Typing, Cuda1Assumption DEF OpenTogether, StageTypes
<1> DEFINE t == <<txn.toks[1]>> \o d
<1>5. t \in Seq(Tokens) /\ Len(t) = Width + 1
    <2> DEFINE o == <<txn.toks[1]>>
    <2>1. o \in Seq(Tokens) /\ Len(o) = 1
        BY <1>2
    <2>2. o \in Seq(Tokens) /\ d \in Seq(Tokens)
        BY <2>1
    <2> HIDE DEF o
    <2>3. o \o d \in Seq(Tokens) /\ Len(o \o d) = Len(o) + Len(d)
        BY <2>2, TailOfTwo
    <2>4. QED
        BY <1>1, <1>2, <2>1, <2>3 DEF o
<1>6. txn' = [txn EXCEPT !.toks = t]
    BY <1>3
<1> HIDE DEF t
<1>7. /\ txn'.kind = "speculative" /\ txn'.toks = t /\ txn'.epoch = txn.epoch /\ txn' # NoTxn
      /\ txn' \in [kind : Kinds \cup {"none"}, toks : Seq(Tokens), epoch : Nat]
    BY <1>4, <1>5, <1>6 DEF NoTxn, Kinds
<1>8. /\ mtp' \in MtpRecords /\ mtp'.active = TRUE /\ mtp'.epoch = txn.epoch /\ mtp'.rows = Width
      /\ mtp'.reconciled = 1 /\ mtp'.pending = mtp.pending
    <2>1. mtp \in MtpRecords /\ Width \in Nat
        BY <1>1, <1>2, <1>4 DEF StageTypes
    <2>2. QED
        BY <1>3, <1>4, <2>1 DEF MtpRecords
<1>9. ws' \in WsRecords /\ ws'.pend = ws.pend
    BY <1>1, <1>3, DraftedFacts
<1>10. /\ mqsa' \in QsaOf(RowKeys) /\ mqsa'.committed = mqsa.committed
       /\ Holds(mqsa', MtpRowsOf(session), mqsa.committed)
       /\ Holds(mqsa', MtpRowsOf(session \o t), mqsa.committed + 1)
    <2> DEFINE c == DraftRun(d)
    <2>1. Len(d) > 0 /\ Width \in Nat
        BY <1>1, <1>2, <1>4
    <2>2. DraftLeft(c, d)
        BY <1>1, <2>1, DraftRunFacts
    <2>3. mqsa' = QsaMark(c, Width)
        BY <1>3
    <2> HIDE DEF c
    <2>4. /\ c \in QsaOf(RowKeys) /\ c.committed = mqsa.committed
          /\ Holds(c, MtpRowsOf(session), mqsa.committed)
          /\ Holds(c, MtpRowsOf(session \o t), mqsa.committed + 1)
        BY <2>2 DEF DraftLeft, t
    <2> DEFINE m == QsaMark(c, Width)
    <2>5. m \in QsaOf(RowKeys) /\ m.keys = c.keys /\ m.pooled = c.pooled
          /\ m.committed = c.committed
        BY <2>1, <2>4, QsaMarkFacts
    <2> HIDE DEF m
    <2>6. Holds(m, MtpRowsOf(session), mqsa.committed)
        BY <2>4, <2>5 DEF Holds
    <2>7. Holds(m, MtpRowsOf(session \o t), mqsa.committed + 1)
        BY <2>4, <2>5 DEF Holds
    <2>8. QED
        BY <2>3, <2>4, <2>5, <2>6, <2>7 DEF m
<1>11. StageTypes'
    BY <1>1, <1>3, <1>7, <1>8, <1>9, <1>10 DEF StageTypes, Steps
<1>12. Base' = Base /\ MtpRowsOf(session') = MtpRowsOf(session) /\ session' = session
       /\ Full' = session \o t /\ Rows' = MtpRowsOf(session \o t)
    BY <1>3, <1>7 DEF Base, Full, Rows
<1>13. SessionHeld'
    BY <1>1, <1>3, <1>8, <1>9, <1>10, <1>12 DEF SessionHeld
<1>14. OpenTogether'
    <2>1. Len(t) - 1 \in 1..MaxWidth
        BY <1>2, <1>4, <1>5
    <2>2. /\ be.active = (be.prov # 0) /\ gdn.active = (be.prov # 0)
          /\ qsa.active = (be.prov # 0)
        BY <1>1 DEF OpenTogether
    <2>3. QED
        BY <1>2, <1>3, <1>4, <1>7, <2>1, <2>2 DEF OpenTogether, Kinds
<1>15. TargetRan'
    BY <1>3, <1>4 DEF TargetRan
<1>16. StepInOrder'
    <2>1. 0 < Len(t)
        BY <1>2, <1>4, <1>5
    <2>2. QED
        BY <1>3, <1>4, <1>7, <2>1 DEF StepInOrder
<1>17. DraftRan'
    <2>1. Holds(mqsa', Rows', mqsa'.committed + mtp'.reconciled)
        BY <1>8, <1>10, <1>12
    <2>2. mtp'.rows + 1 = Len(txn'.toks)
        BY <1>5, <1>7, <1>8
    <2>3. \A i \in 1..(mtp'.reconciled - 1) : ws'.pred[i - 1].tok = txn'.toks[i + 1]
        BY <1>8
    <2>4. mtp'.reconciled = off' + 1
        BY <1>3, <1>4, <1>8
    <2>5. QED
        BY <1>3, <1>4, <1>7, <1>8, <2>1, <2>2, <2>3, <2>4 DEF DraftRan
<1>18. QED
    BY <1>1, <1>3, <1>7, <1>11, <1>13, <1>14, <1>15, <1>16, <1>17 DEF StageInv

\* An interrupted draft rolls its bank back.
LEMMA CancelDraftStep ==
    ASSUME StageInv, NEW d \in Seq(Tokens), CancelDraft(d)
    PROVE  StageInv'
<1>1. /\ StageTypes /\ SessionHeld /\ OpenTogether /\ ~fail /\ step = "draft" /\ Cancelled
      /\ UNCHANGED <<be, mtp, gdn, qsa>> /\ txn # NoTxn
    BY DEF StageInv, CancelDraft, OpenTogether
<1>2. CASE d = <<>>
    <2>1. UNCHANGED <<be, mtp, ws, gdn, qsa, mqsa>>
        BY <1>1, <1>2 DEF CancelDraft
    <2>2. QED
        BY <1>1, <2>1, CancelledStep
<1>3. CASE d # <<>>
    <2>1. ws' = Drafted(d) /\ mqsa' = LeftBank(QsaRollback(DraftRun(d)))
        BY <1>3 DEF CancelDraft
    <2>2. step' = "rollback" /\ UNCHANGED <<session, txn, off, answer, fail>>
        BY <1>1 DEF Cancelled
    <2>3. step' \notin Running /\ step' \in Steps
        BY <2>2 DEF Running, Steps
    <2>4. ws' \in WsRecords /\ ws'.pend = ws.pend
        BY <1>1, <2>1, DraftedFacts
    <2>5. /\ mqsa' \in QsaOf(RowKeys) /\ mqsa'.committed = mqsa.committed
          /\ Holds(mqsa', MtpRowsOf(session), mqsa.committed)
        <3> DEFINE c == DraftRun(d)
        <3>1. DraftLeft(c, d)
            <4>1. Len(d) > 0
                BY <1>3, EmptySeq
            <4>2. QED
                BY <1>1, <4>1, DraftRunFacts
        <3>2. mqsa' = LeftBank(QsaRollback(c))
            BY <2>1
        <3>3. mqsa.committed \in Nat
            BY <1>1, CommittedRows
        <3> HIDE DEF c
        <3>4. /\ c \in QsaOf(RowKeys) /\ c.committed = mqsa.committed
              /\ Holds(c, MtpRowsOf(session), mqsa.committed)
            BY <3>1 DEF DraftLeft
        <3> DEFINE k == QsaRollback(c)
        <3>5. k \in QsaOf(RowKeys) /\ k.keys = c.keys /\ k.pooled = c.pooled
              /\ k.committed = c.committed
            BY <3>4, QsaRollbackFacts
        <3> HIDE DEF k
        <3>6. Holds(k, MtpRowsOf(session), mqsa.committed)
            BY <3>4, <3>5 DEF Holds
        <3>7. StaleHc \in RowKeys /\ StaleHc \in Seq(RowKeys)
            BY DEF RowKeys, StaleHc
        <3> DEFINE r == MtpRowsOf(session)  n == mqsa.committed
        <3>8. n \in 0..k.committed /\ Holds(k, r, n)
            BY <3>3, <3>4, <3>5, <3>6
        <3> HIDE DEF r, n
        <3>9. /\ LeftBank(k) \in QsaOf(RowKeys) /\ LeftBank(k).committed = k.committed
              /\ Holds(LeftBank(k), r, n)
            BY <3>5, <3>7, <3>8, LeftBankFacts
        <3>10. QED
            BY <3>2, <3>4, <3>5, <3>9 DEF k, r, n
    <2>6. Base' = Base /\ MtpRowsOf(session') = MtpRowsOf(session)
        BY <2>2 DEF Base
    <2>7. StageTypes'
        BY <1>1, <2>2, <2>3, <2>4, <2>5 DEF StageTypes
    <2>8. SessionHeld'
        BY <1>1, <2>2, <2>4, <2>5, <2>6 DEF SessionHeld
    <2>9. OpenTogether'
        BY <1>1, <2>2 DEF OpenTogether
    <2>10. QED
        BY <1>1, <2>2, <2>3, <2>7, <2>8, <2>9 DEF StageInv
<1>4. QED
    BY <1>2, <1>3

\* The row of a confirmed draft is made again, of the target's own HC.
LEMMA ReconcileStep ==
    ASSUME StageInv, Reconcile
    PROVE  StageInv'
<1>1. /\ step = "verify" /\ answer.next.tok = txn.toks[off + 1]
    BY DEF Reconcile
<1>2. /\ StageTypes /\ SessionHeld /\ OpenTogether /\ TargetRan /\ StepInOrder /\ ~fail
      /\ txn.kind = "speculative" /\ DraftRan
    BY <1>1 DEF StageInv, Running, StepInOrder
<1>3. /\ session \in Seq(Tokens) /\ txn.toks \in Seq(Tokens) /\ off \in Nat /\ off > 0
      /\ off < Len(txn.toks) /\ Len(txn.toks) \in Nat /\ Base \in Nat /\ session # <<>>
      /\ be.prov \in Nat /\ mtp.rows \in Nat /\ answer.next \in Predictions
    BY <1>1, <1>2, Typing DEF StepInOrder, OpenTogether
<1>4. /\ mtp.active = TRUE /\ mtp.epoch = txn.epoch /\ mtp.rows + 1 = Len(txn.toks)
      /\ mtp.reconciled = off /\ Holds(mqsa, Rows, mqsa.committed + off)
      /\ ws.hc[off - 1] = After(Base + off) /\ answer.next = ws.pred[off - 1]
      /\ \A i \in 1..(off - 1) : ws.pred[i - 1].tok = txn.toks[i + 1]
    BY <1>1, <1>2, <1>3, Typing DEF DraftRan
<1>5. ReconcileAccepted
    <2>1. be.prov = txn.epoch /\ be.kind = "speculative" /\ be.processed = off
        BY <1>2, <1>3 DEF TargetRan, OpenTogether
    <2>2. off - 1 < mtp.rows
        BY <1>3, <1>4
    <2>3. QED
        BY <1>4, <2>1, <2>2 DEF ReconcileAccepted
<1>6. /\ mqsa' = ReconciledBank /\ mtp' = [mtp EXCEPT !.reconciled = off + 1]
      /\ step' = "execute"
      /\ UNCHANGED <<session, txn, off, answer, fail, be, ws, gdn, qsa>>
    BY <1>5 DEF Reconcile
<1>7. /\ mtp' \in MtpRecords /\ mtp'.reconciled = off + 1 /\ mtp'.active = TRUE
      /\ mtp'.epoch = txn.epoch /\ mtp'.rows = mtp.rows /\ mtp'.pending = mtp.pending
    <2>1. mtp \in MtpRecords
        BY <1>2 DEF StageTypes
    <2>2. off + 1 \in Nat /\ mtp' = [mtp EXCEPT !.reconciled = off + 1]
        BY <1>3, <1>6
    <2> DEFINE n == off + 1
    <2>3. n \in Nat /\ mtp' = [mtp EXCEPT !.reconciled = n]
        BY <2>2
    <2> HIDE DEF n
    <2>4. /\ mtp' \in MtpRecords /\ mtp'.reconciled = n /\ mtp'.active = mtp.active
          /\ mtp'.epoch = mtp.epoch /\ mtp'.rows = mtp.rows /\ mtp'.pending = mtp.pending
        BY <2>1, <2>3 DEF MtpRecords
    <2>5. QED
        BY <1>4, <2>4 DEF n
<1> DEFINE p == mqsa.committed + off  h == ws.hc[off - 1]  z == ws.pred[off - 1].tok
           t == <<<<h, z>>>>
<1>8. mqsa.committed \in Nat /\ mqsa \in QsaOf(RowKeys) /\ mqsa.committed + 1 = Base
    <2>1. mqsa.committed \in Nat /\ mqsa \in QsaOf(RowKeys)
          /\ mqsa.committed + One(mtp.pending) = Base
        BY <1>2, CommittedRows
    <2>2. mtp.pending = TRUE
        BY <1>2, <1>3 DEF SessionHeld
    <2>3. One(mtp.pending) = 1
        BY <2>2 DEF One
    <2>4. QED
        BY <2>1, <2>3
<1>9. h = After(p + 1) /\ p + 1 = Base + off /\ p \in Nat
    <2>1. p + 1 = Base + off /\ p \in Nat
        <3> DEFINE c == mqsa.committed  b == Base
        <3>1. c \in Nat /\ c + 1 = b /\ off \in Nat
            BY <1>3, <1>8
        <3> HIDE DEF c, b
        <3>2. (c + off) + 1 = b + off /\ c + off \in Nat
            BY <3>1
        <3>3. QED
            BY <3>2 DEF c, b
    <2>2. QED
        BY <1>4, <2>1
<1>10. z = txn.toks[off + 1] /\ z \in Cells
    <2>1. z = answer.next.tok
        BY <1>4
    <2>2. answer.next.tok \in Cells
        BY <1>3 DEF Predictions
    <2>3. QED
        BY <1>1, <2>1, <2>2
<1>11. Full \in Seq(Tokens) /\ Len(Full) = Base + Len(txn.toks)
       /\ (\A i \in 1..Len(txn.toks) : Full[Base + i] = txn.toks[i])
       /\ (\A n \in 0..Base + Len(txn.toks) : After(n) \in Seq(Tokens))
    BY <1>3, FullFacts
<1>12. Rows[p + 1] = <<h, z>> /\ <<h, z>> \in RowKeys
    <2>1. p + 1 \in 1..(Len(Full) - 1) /\ p + 1 + 1 = Base + (off + 1)
          /\ off + 1 \in 1..Len(txn.toks) /\ p + 1 \in 0..Base + Len(txn.toks)
        <3> DEFINE b == Base  l == Len(txn.toks)  x == p + 1  f == Len(Full)
        <3>1. /\ b \in Nat /\ l \in Nat /\ off \in Nat /\ off > 0 /\ off < l
              /\ x = b + off /\ f = b + l
            BY <1>3, <1>9, <1>11
        <3> HIDE DEF b, l, x, f
        <3>2. x \in 1..(f - 1) /\ x + 1 = b + (off + 1) /\ off + 1 \in 1..l /\ x \in 0..b + l
            BY <3>1
        <3>3. QED
            BY <3>2 DEF b, l, x, f
    <2>2. Rows[p + 1] = <<SubSeq(Full, 1, p + 1), Full[p + 1 + 1]>>
        BY <2>1 DEF Rows, MtpRowsOf
    <2>3. Full[p + 1 + 1] = z
        BY <1>10, <1>11, <2>1
    <2>4. h \in Seq(Tokens)
        BY <1>9, <1>11, <2>1
    <2> HIDE DEF p, h, z
    <2>5. <<h, z>> \in RowKeys
        BY <1>10, <2>4 DEF RowKeys, Hcs
    <2>6. QED
        BY <1>9, <2>2, <2>3, <2>5 DEF After
<1>13. ReconciledBank = QsaMark(QsaStore(mqsa, p, t), off + 1)
    BY DEF ReconciledBank
<1> HIDE DEF h, z
<1>14. t \in Seq(RowKeys) /\ Len(t) = 1 /\ t[1] = <<h, z>>
    BY <1>12
<1> HIDE DEF t
<1>15. /\ mqsa' \in QsaOf(RowKeys) /\ mqsa'.committed = mqsa.committed
       /\ Holds(mqsa', Rows, p + 1)
    <2> DEFINE q == mqsa  k == 1  c == QsaStore(q, p, t)  m == QsaMark(c, off + 1)  r == Rows
    <2>1. k \in 0..Len(t) /\ \A i \in 1..k : r[p + i] = t[i]
        <3>1. \A i \in 1..1 : i = 1
            OBVIOUS
        <3>2. QED
            BY <1>12, <1>14, <3>1
    <2>2. q \in QsaOf(RowKeys) /\ Holds(q, r, p) /\ p \in Nat
        BY <1>4, <1>8, <1>9
    <2>3. mqsa' = m
        BY <1>6, <1>13
    <2>4. off + 1 \in Nat
        BY <1>3
    <2> HIDE DEF p, m, q, k, c, r
    <2>5. c \in QsaOf(RowKeys) /\ c.committed = q.committed /\ Holds(c, r, p + k)
        <3>1. t \in Seq(RowKeys)
            BY <1>14
        <3>2. QED
            BY <2>1, <2>2, <3>1, HoldsStore DEF c
    <2>6. m \in QsaOf(RowKeys) /\ m.keys = c.keys /\ m.pooled = c.pooled
          /\ m.committed = c.committed
        BY <2>4, <2>5, QsaMarkFacts DEF m
    <2>7. Holds(m, r, p + k)
        BY <2>5, <2>6 DEF Holds
    <2>8. QED
        BY <2>3, <2>5, <2>6, <2>7 DEF q, k, r
<1> HIDE DEF p
<1>16. p + 1 = mqsa.committed + (off + 1)
    <2> DEFINE c == mqsa.committed
    <2>1. c \in Nat /\ off \in Nat /\ p = c + off
        BY <1>3, <1>8 DEF p
    <2> HIDE DEF c
    <2>2. p + 1 = c + (off + 1)
        BY <2>1
    <2>3. QED
        BY <2>2 DEF c
<1>17. StageTypes'
    BY <1>2, <1>6, <1>7, <1>15 DEF StageTypes, Steps
<1>18. Base' = Base /\ Full' = Full /\ Rows' = Rows /\ MtpRowsOf(session') = MtpRowsOf(session)
    BY <1>6 DEF Base, Full, Rows
<1>19. SessionHeld'
    <2>1. Holds(mqsa', MtpRowsOf(session), mqsa.committed)
        <3>1. off + 1 \in Nat /\ Holds(mqsa', Rows, mqsa.committed + (off + 1))
            BY <1>3, <1>15, <1>16
        <3>2. QED
            BY <1>2, <1>15, <3>1, SessionRows
    <2>2. QED
        BY <1>2, <1>6, <1>7, <1>15, <1>18, <2>1 DEF SessionHeld
<1>20. OpenTogether'
    BY <1>1, <1>2, <1>3, <1>6 DEF OpenTogether
<1>21. TargetRan'
    BY <1>2, <1>6, <1>18 DEF TargetRan, After
<1>22. StepInOrder'
    BY <1>3, <1>6 DEF StepInOrder
<1>23. DraftRan'
    <2>1. \A i \in 1..off : ws.pred[i - 1].tok = txn.toks[i + 1]
        <3>1. TAKE i \in 1..off
        <3>2. CASE i = off
            BY <1>1, <1>4, <3>2
        <3>3. CASE i # off
            <4>1. i \in 1..(off - 1)
                BY <1>3, <3>3
            <4>2. QED
                BY <1>4, <4>1
        <3>4. QED
            BY <3>2, <3>3
    <2>2. mtp'.reconciled - 1 = off
        BY <1>3, <1>7
    <2>3. \A i \in 1..(mtp'.reconciled - 1) : ws.pred[i - 1].tok = txn.toks[i + 1]
        BY <2>1, <2>2
    <2>4. Holds(mqsa', Rows', mqsa'.committed + mtp'.reconciled)
        BY <1>7, <1>15, <1>16, <1>18
    <2>5. ws'.hc[off' - 1] = SubSeq(Full', 1, Base' + off')
        BY <1>4, <1>6, <1>18 DEF After
    <2>6. QED
        BY <1>4, <1>6, <1>7, <2>3, <2>4, <2>5 DEF DraftRan, After
<1>24. QED
    BY <1>2, <1>6, <1>17, <1>19, <1>20, <1>21, <1>22, <1>23 DEF StageInv

-----------------------------------------------------------------------------
(* A transaction ends.                                                     *)

\* Between transactions the banks hold the session s, and nothing is open.
Ended(s, b, m, w, g, q, r) ==
    /\ b \in BeRecords /\ b.prov = 0 /\ b.active = FALSE /\ b.frontier = Len(s)
    /\ m \in MtpRecords /\ m.active = FALSE /\ m.pending = (s # <<>>)
    /\ w \in WsRecords /\ (s # <<>> => w.pend = s)
    /\ g \in Banks /\ g.active = FALSE /\ CommittedCopy(g) = s
    /\ q \in QsaOf(TokenKeys) /\ q.active = FALSE /\ q.committed = Len(s)
    /\ Holds(q, s, Len(s))
    /\ r \in QsaOf(RowKeys) /\ r.committed = Len(s) - One(s # <<>>)
    /\ Holds(r, MtpRowsOf(s), r.committed)

\* That is all the invariant says then.
LEMMA EndedStep ==
    ASSUME NEW s \in Seq(Tokens), Ended(s, be', mtp', ws', gdn', qsa', mqsa'), End(s), ~fail
    PROVE  StageInv'
<1>1. /\ session' = s /\ txn' = NoTxn /\ off' = 0 /\ step' = "none" /\ answer' = NoAnswer
      /\ fail' = fail
    BY DEF End
<1>2. answer' \in [rows : Nat, next : Predictions]
    BY <1>1 DEF NoAnswer, Predictions, Hcs, Cells
<1>3. txn' \in [kind : Kinds \cup {"none"}, toks : Seq(Tokens), epoch : Nat]
    BY <1>1 DEF NoTxn
<1>4. step' \in Steps /\ step' \notin Running
    BY <1>1 DEF Steps, Running
<1>5. StageTypes'
    BY <1>1, <1>2, <1>3, <1>4 DEF StageTypes, Ended
<1>6. Base' = Len(s)
    BY <1>1 DEF Base
<1>7. SessionHeld'
    BY <1>1, <1>6 DEF SessionHeld, Ended
<1>8. OpenTogether'
    BY <1>1 DEF OpenTogether, Ended
<1>9. QED
    BY <1>1, <1>4, <1>5, <1>7, <1>8 DEF StageInv

\* A workspace of which only the pending HC is told apart.
LEMMA LeftWorkspaceFacts ==
    ASSUME NEW h \in Hcs
    PROVE  LeftWorkspace(h) \in WsRecords /\ LeftWorkspace(h).pend = h
<1>1. StaleHc \in Hcs /\ StalePrediction \in Predictions /\ 0 \in Cells
    BY DEF Hcs, StalePrediction, Predictions, Cells
<1>2. QED
    BY <1>1 DEF LeftWorkspace, WsRecords

\* What is not told apart is a key of either bank.
LEMMA StaleKeys ==
    /\ StaleHc \in TokenKeys /\ StaleHc \in Seq(TokenKeys)
    /\ StaleHc \in RowKeys /\ StaleHc \in Seq(RowKeys)
    BY DEF StaleHc, TokenKeys, RowKeys

\* The backend's record after a transaction.
Closes(b) ==
    b \in BeRecords /\ b.prov = 0 /\ b.active = FALSE /\ b.frontier = be.frontier
    /\ b.base = be.base

\* Nothing of the transaction is left in it.
LEMMA Closed1Facts ==
    ASSUME be \in BeRecords, NEW e \in Nat
    PROVE  Closes(Closed1(e))
<1> DEFINE x == [be EXCEPT !.epoch = e, !.prov = 0, !.expected = 0, !.processed = 0]
           y == [x EXCEPT !.kind = "invalid", !.active = FALSE, !.toks = <<>>]
<1>1. Closed1(e) = y
    BY DEF Closed1
<1>2. x \in BeRecords /\ x.prov = 0 /\ x.frontier = be.frontier /\ x.base = be.base
    BY DEF BeRecords
<1> HIDE DEF x
<1> DEFINE z == <<>>
<1>3. z \in Seq(Tokens) /\ y = [x EXCEPT !.kind = "invalid", !.active = FALSE, !.toks = z]
    OBVIOUS
<1> HIDE DEF y, z
<1>4. /\ y \in BeRecords /\ y.prov = x.prov /\ y.frontier = x.frontier /\ y.active = FALSE
      /\ y.base = x.base
    BY <1>2, <1>3 DEF BeRecords
<1>5. QED
    BY <1>1, <1>2, <1>4 DEF Closes

\* The beginning of the program.
LEMMA StageInit ==
    ASSUME Cuda1Init
    PROVE  StageInv
<1>1. /\ session = <<>> /\ txn = NoTxn /\ off = 0 /\ step = "none"
      /\ answer = NoAnswer /\ fail = FALSE
      /\ be = FreshBe1 /\ mtp = FreshMtp
      /\ ws = LeftWorkspace(StaleHc)
      /\ gdn = FreshBank /\ qsa = FreshQsa /\ mqsa = FreshQsa
    BY DEF Cuda1Init
<1>2. ws \in WsRecords
    <2>1. StaleHc \in Hcs
        BY DEF Hcs
    <2>2. QED
        BY <1>1, <2>1, LeftWorkspaceFacts
<1>3. /\ be \in BeRecords /\ be.prov = 0 /\ be.active = FALSE /\ be.frontier = 0
      /\ mtp \in MtpRecords /\ mtp.active = FALSE /\ mtp.pending = FALSE
    BY <1>1 DEF FreshBe1, FreshMtp, BeRecords, MtpRecords
<1>4. gdn \in Banks /\ gdn.active = FALSE /\ CommittedCopy(gdn) = <<>>
    BY <1>1 DEF FreshBank, Banks, CommittedCopy
<1>5. /\ qsa \in QsaOf(TokenKeys) /\ qsa.active = FALSE /\ qsa.committed = 0
      /\ mqsa \in QsaOf(RowKeys) /\ mqsa.committed = 0
    BY <1>1 DEF FreshQsa, QsaOf
<1>6. Base = 0 /\ One(session # <<>>) = 0
    BY <1>1 DEF Base, One
<1>7. answer \in [rows : Nat, next : Predictions]
    BY <1>1 DEF NoAnswer, Predictions, Hcs, Cells
<1>8. StageTypes
    <2>1. txn \in [kind : Kinds \cup {"none"}, toks : Seq(Tokens), epoch : Nat]
        BY <1>1 DEF NoTxn
    <2>2. QED
        BY <1>1, <1>2, <1>3, <1>4, <1>5, <1>7, <2>1 DEF StageTypes, Steps
<1>9. Holds(qsa, session, 0) /\ Holds(mqsa, MtpRowsOf(session), 0)
    BY <1>5, HoldsNothing
<1>10. SessionHeld
    <2>1. (session # <<>>) = FALSE /\ 0 - 0 = 0
        BY <1>1
    <2>2. mqsa.committed = Base - One(session # <<>>)
        BY <1>5, <1>6, <2>1
    <2>3. qsa.committed = Base /\ be.frontier = Base /\ mtp.pending = (session # <<>>)
        BY <1>3, <1>5, <1>6, <2>1
    <2>4. Holds(qsa, session, Base) /\ Holds(mqsa, MtpRowsOf(session), mqsa.committed)
        BY <1>5, <1>6, <1>9
    <2>5. CommittedCopy(gdn) = session /\ ~(session # <<>>)
        BY <1>1, <1>4
    <2>6. QED
        BY <2>2, <2>3, <2>4, <2>5 DEF SessionHeld
<1>11. OpenTogether
    BY <1>1, <1>3, <1>4, <1>5 DEF OpenTogether
<1>12. QED
    BY <1>1, <1>8, <1>10, <1>11 DEF StageInv, Running

\* A rollback leaves the session's part of every bank.
LEMMA RollbackStep ==
    ASSUME StageInv, Rollback
    PROVE  StageInv'
<1>1. /\ StageTypes /\ SessionHeld /\ OpenTogether /\ ~fail
    BY DEF StageInv
<1>2. /\ session \in Seq(Tokens) /\ Base \in Nat /\ txn.epoch \in Nat /\ ws.pend \in Hcs
      /\ be \in BeRecords /\ mtp \in MtpRecords /\ gdn \in Banks /\ qsa \in QsaOf(TokenKeys)
      /\ mqsa \in QsaOf(RowKeys) /\ mqsa.committed \in Nat
    BY <1>1, Typing, CommittedRows DEF StageTypes
<1>3. /\ CommittedCopy(gdn) = session /\ qsa.committed = Base /\ Holds(qsa, session, Base)
      /\ mqsa.committed = Base - One(session # <<>>)
      /\ Holds(mqsa, MtpRowsOf(session), mqsa.committed)
      /\ be.frontier = Base /\ mtp.pending = (session # <<>>)
      /\ (session # <<>> => ws.pend = session)
    BY <1>1 DEF SessionHeld
<1>4. /\ be.active = (be.prov # 0) /\ gdn.active = (be.prov # 0) /\ qsa.active = (be.prov # 0)
    BY <1>1 DEF OpenTogether
<1> DEFINE undo == be.prov # 0 /\ be.active
<1>5. /\ gdn' = (IF undo THEN LeftCopy(BankRollback(gdn)) ELSE gdn)
      /\ qsa' = (IF undo THEN LeftBank(QsaRollback(qsa)) ELSE qsa)
      /\ mqsa' = (IF mtp.active THEN LeftBank(QsaRollback(mqsa)) ELSE mqsa)
      /\ mtp' = [mtp EXCEPT !.active = FALSE, !.epoch = 0, !.rows = 0, !.candidate = FALSE]
      /\ ws' = LeftWorkspace(ws.pend)
      /\ be' = Closed1(txn.epoch)
      /\ End(session)
    BY DEF Rollback
<1>6. undo <=> be.prov # 0
    BY <1>4
<1> HIDE DEF undo
<1>7. gdn' \in Banks /\ gdn'.active = FALSE /\ CommittedCopy(gdn') = session
    <2>1. CASE undo
        BY <1>2, <1>3, <1>5, <2>1, BankEndFacts
    <2>2. CASE ~undo
        BY <1>2, <1>3, <1>4, <1>5, <1>6, <2>2
    <2>3. QED
        BY <2>1, <2>2
<1>8. qsa' \in QsaOf(TokenKeys) /\ qsa'.active = FALSE /\ qsa'.committed = Base
      /\ Holds(qsa', session, Base)
    <2>1. CASE undo
        <3> DEFINE k == QsaRollback(qsa)  q == qsa
        <3>1. q \in QsaOf(TokenKeys) /\ q.committed = Base /\ Holds(q, session, Base)
            BY <1>2, <1>3
        <3>2. qsa' = LeftBank(k)
            BY <1>5, <2>1
        <3>3. /\ k \in QsaOf(TokenKeys) /\ k.keys = q.keys /\ k.pooled = q.pooled
              /\ k.committed = q.committed /\ k.active = FALSE
            BY <3>1, QsaRollbackFacts
        <3> HIDE DEF k, q
        <3>4. Holds(k, session, Base)
            BY <3>1, <3>3 DEF Holds
        <3>5. Base \in 0..k.committed
            BY <1>2, <3>1, <3>3
        <3>6. /\ LeftBank(k) \in QsaOf(TokenKeys) /\ LeftBank(k).committed = k.committed
              /\ LeftBank(k).active = k.active /\ Holds(LeftBank(k), session, Base)
            BY <3>3, <3>4, <3>5, StaleKeys, LeftBankFacts
        <3>7. QED
            BY <3>1, <3>2, <3>3, <3>6
    <2>2. CASE ~undo
        BY <1>2, <1>3, <1>4, <1>5, <1>6, <2>2
    <2>3. QED
        BY <2>1, <2>2
<1>9. mqsa' \in QsaOf(RowKeys) /\ mqsa'.committed = mqsa.committed
      /\ Holds(mqsa', MtpRowsOf(session), mqsa.committed)
    <2>1. CASE mtp.active
        <3> DEFINE k == QsaRollback(mqsa)  q == mqsa  r == MtpRowsOf(session)
        <3>1. q \in QsaOf(RowKeys) /\ q.committed \in Nat /\ Holds(q, r, q.committed)
            BY <1>2, <1>3
        <3>2. mqsa' = LeftBank(k)
            BY <1>5, <2>1
        <3>3. /\ k \in QsaOf(RowKeys) /\ k.keys = q.keys /\ k.pooled = q.pooled
              /\ k.committed = q.committed
            BY <3>1, QsaRollbackFacts
        <3> HIDE DEF k, q, r
        <3>4. Holds(k, r, k.committed) /\ k.committed \in 0..k.committed
            <4>1. Holds(k, r, q.committed)
                BY <3>1, <3>3 DEF Holds
            <4>2. QED
                BY <3>1, <3>3, <4>1
        <3>5. /\ LeftBank(k) \in QsaOf(RowKeys) /\ LeftBank(k).committed = k.committed
              /\ Holds(LeftBank(k), r, k.committed)
            BY <3>3, <3>4, StaleKeys, LeftBankFacts
        <3>6. QED
            BY <3>2, <3>3, <3>5 DEF q, r
    <2>2. CASE ~mtp.active
        BY <1>2, <1>3, <1>5, <2>2
    <2>3. QED
        BY <2>1, <2>2
<1>10. ws' \in WsRecords /\ ws'.pend = ws.pend
    BY <1>2, <1>5, LeftWorkspaceFacts
<1>11. mtp' \in MtpRecords /\ mtp'.active = FALSE /\ mtp'.pending = mtp.pending
    BY <1>2, <1>5 DEF MtpRecords
<1>12. be' \in BeRecords /\ be'.prov = 0 /\ be'.active = FALSE /\ be'.frontier = be.frontier
    <2>1. Closes(Closed1(txn.epoch))
        BY <1>2, Closed1Facts
    <2>2. QED
        BY <1>5, <2>1 DEF Closes
<1>13. Ended(session, be', mtp', ws', gdn', qsa', mqsa')
    BY <1>3, <1>7, <1>8, <1>9, <1>10, <1>11, <1>12 DEF Ended, Base
<1>14. QED
    BY <1>1, <1>2, <1>5, <1>13, EndedStep

\* A reset leaves nothing.
LEMMA ResetStep ==
    ASSUME StageInv, Reset
    PROVE  StageInv'
<1>1. /\ StageTypes /\ OpenTogether /\ ~fail /\ step = "none"
    BY DEF StageInv, Reset
<1>2. /\ be.prov = 0 /\ be.active = FALSE /\ ~mtp.active /\ qsa.active = FALSE
      /\ qsa \in QsaOf(TokenKeys) /\ mqsa \in QsaOf(RowKeys) /\ ws \in WsRecords
    BY <1>1 DEF OpenTogether, StageTypes
<1>3. /\ gdn' = FreshBank /\ qsa' = LeftBank(QsaReset(qsa))
      /\ mqsa' = LeftBank(QsaReset(mqsa)) /\ be' = FreshBe1 /\ mtp' = FreshMtp
      /\ End(<<>>) /\ ws' = ws
    BY <1>2 DEF Reset
<1>4. /\ be' \in BeRecords /\ be'.prov = 0 /\ be'.active = FALSE /\ be'.frontier = 0
      /\ mtp' \in MtpRecords /\ mtp'.active = FALSE /\ mtp'.pending = FALSE
    BY <1>3 DEF FreshBe1, FreshMtp, BeRecords, MtpRecords
<1>5. gdn' \in Banks /\ gdn'.active = FALSE /\ CommittedCopy(gdn') = <<>>
    BY <1>3 DEF FreshBank, Banks, CommittedCopy
<1>6. qsa' \in QsaOf(TokenKeys) /\ qsa'.committed = 0 /\ qsa'.active = FALSE
    <2> DEFINE k == QsaReset(qsa)
    <2>1. k \in QsaOf(TokenKeys) /\ k.committed = 0 /\ k.active = FALSE
        BY <1>2, QsaResetFacts
    <2>2. qsa' = LeftBank(k)
        BY <1>3
    <2> HIDE DEF k
    <2>3. /\ LeftBank(k) \in QsaOf(TokenKeys) /\ LeftBank(k).committed = k.committed
          /\ LeftBank(k).active = k.active
        BY <2>1, StaleKeys, LeftBankFacts
    <2>4. QED
        BY <2>1, <2>2, <2>3
<1>7. mqsa' \in QsaOf(RowKeys) /\ mqsa'.committed = 0
    <2> DEFINE k == QsaReset(mqsa)
    <2>1. k \in QsaOf(RowKeys) /\ k.committed = 0
        BY <1>2, QsaResetFacts
    <2>2. mqsa' = LeftBank(k)
        BY <1>3
    <2> HIDE DEF k
    <2>3. LeftBank(k) \in QsaOf(RowKeys) /\ LeftBank(k).committed = k.committed
        BY <2>1, StaleKeys, LeftBankFacts
    <2>4. QED
        BY <2>1, <2>2, <2>3
<1> DEFINE s == <<>>
<1>8. s \in Seq(Tokens) /\ Len(s) = 0 /\ One(s # <<>>) = 0 /\ (s # <<>>) = FALSE
    BY DEF One
<1>9. Holds(qsa', s, 0) /\ Holds(mqsa', MtpRowsOf(s), 0)
    BY <1>6, <1>7, HoldsNothing
<1>10. Ended(s, be', mtp', ws', gdn', qsa', mqsa')
    <2>1. mqsa'.committed = Len(s) - One(s # <<>>) /\ ~(s # <<>>)
        BY <1>7, <1>8
    <2>2. mtp'.pending = (s # <<>>) /\ be'.frontier = Len(s) /\ qsa'.committed = Len(s)
        BY <1>4, <1>6, <1>8
    <2>3. Holds(qsa', s, Len(s)) /\ Holds(mqsa', MtpRowsOf(s), mqsa'.committed)
        BY <1>7, <1>8, <1>9
    <2>4. CommittedCopy(gdn') = s /\ ws' \in WsRecords
        BY <1>2, <1>3, <1>5
    <2> HIDE DEF s
    <2>5. QED
        BY <1>4, <1>5, <1>6, <1>7, <2>1, <2>2, <2>3, <2>4 DEF Ended
<1>11. End(s)
    BY <1>3
<1> HIDE DEF s
<1>12. QED
    BY <1>1, <1>8, <1>10, <1>11, EndedStep

\* What the draft model's part of a commit prepares: n rows, and the HC of the
\* last committed token.
Prepares(p, n) ==
    /\ p.mqsa \in QsaOf(RowKeys) /\ p.mqsa.committed = mqsa.committed
    /\ Holds(p.mqsa, Rows, mqsa.committed + n)
    /\ p.mtp.active => p.mtp.rows = n
    /\ ~p.mtp.active => n = 0
    /\ p.mtp.candidate = TRUE /\ p.cand = After(Base + off)

\* The commit makes what is prepared the state of the session.
PreparedBy(n) ==
    IF be.kind = "append" THEN [mtp |-> mtp, mqsa |-> mqsa, cand |-> ws.cand] ELSE Prepared(n)

\* The draft model has as many rows of the transaction as it will commit.
LEMMA PreparedFacts ==
    ASSUME StageInv, step \in {"verify", "commit"}, NEW n \in Nat,
           mqsa.committed + n + 1 = Base + off
    PROVE  Prepares(PreparedBy(off), n)
<1>1. /\ StageTypes /\ SessionHeld /\ OpenTogether /\ TargetRan /\ StepInOrder
      /\ txn.kind \in Kinds
    BY DEF StageInv, Running, OpenTogether
<1>2. /\ off \in Nat /\ off > 0 /\ Base \in Nat /\ mtp.rows \in Nat /\ mtp.pending \in BOOLEAN
      /\ mtp.active \in BOOLEAN /\ txn.epoch \in Nat /\ Len(txn.toks) \in Nat
      /\ be.kind = txn.kind /\ ws \in WsRecords
    BY <1>1, Typing DEF StepInOrder, TargetRan, StageTypes
<1>3. /\ mqsa \in QsaOf(RowKeys) /\ mqsa.committed \in Nat
      /\ mqsa.committed + One(mtp.pending) = Base
      /\ mtp.pending = (session # <<>>) /\ Holds(mqsa, Rows, mqsa.committed)
    BY <1>1, CommittedRows DEF SessionHeld
<1>4. CASE txn.kind = "append"
    <2>1. /\ mtp.candidate = TRUE /\ ws.cand = After(Base + off)
          /\ mtp.rows = off - One(~mtp.pending) /\ mtp.active = (mtp.rows # 0)
          /\ Holds(mqsa, Rows, mqsa.committed + mtp.rows)
        BY <1>1, <1>2, <1>4, Typing DEF StageInv, Running, AppendRan
    <2>2. mtp.rows = n
        <3> DEFINE o == One(mtp.pending)  z == One(~mtp.pending)  c == mqsa.committed
                   r == mtp.rows  b == Base
        <3>1. o \in Nat /\ z \in Nat /\ o + z = 1
            BY <1>2 DEF One
        <3>2. /\ r \in Nat /\ c \in Nat /\ b \in Nat /\ c + o = b /\ r = off - z
              /\ c + n + 1 = b + off /\ off \in Nat
            BY <1>2, <1>3, <2>1
        <3> HIDE DEF o, z, c, r, b
        <3>3. r = n
            BY <3>1, <3>2
        <3>4. QED
            BY <3>3 DEF r
    <2> DEFINE p == [mtp |-> mtp, mqsa |-> mqsa, cand |-> ws.cand]
    <2>3. PreparedBy(off) = p /\ p.mtp = mtp /\ p.mqsa = mqsa /\ p.cand = ws.cand
        BY <1>2, <1>4 DEF PreparedBy
    <2> HIDE DEF p
    <2>4. QED
        BY <1>3, <2>1, <2>2, <2>3 DEF Prepares
<1>5. ASSUME txn.kind # "append"
      PROVE  /\ mtp.pending = TRUE /\ n = off /\ PreparedRows(off) = off
             /\ PreparedBy(off) = Prepared(off)
    <2>1. mtp.pending = TRUE
        BY <1>1, <1>3, <1>5 DEF OpenTogether
    <2>2. One(mtp.pending) = 1 /\ One(~mtp.pending) = 0
        BY <2>1 DEF One
    <2>3. PreparedRows(off) = off
        BY <1>2, <2>2 DEF PreparedRows
    <2>4. n = off
        <3> DEFINE c == mqsa.committed  b == Base
        <3>1. c \in Nat /\ b \in Nat /\ off \in Nat /\ c + 1 = b /\ c + n + 1 = b + off
            BY <1>2, <1>3, <2>2
        <3> HIDE DEF c, b
        <3>2. QED
            BY <3>1
    <2>5. QED
        BY <1>2, <1>5, <2>1, <2>3, <2>4 DEF PreparedBy
<1> DEFINE p == Prepared(off)
           w == IF mtp.pending THEN [ws EXCEPT !.cand = ws.pend] ELSE ws
           begun == QsaBegin(mqsa, txn.epoch)
           fed == MtpRun(begun, w, mtp.pending, mqsa.committed, off)
           m == [mtp EXCEPT !.active = @ \/ off # 0, !.epoch = IF off # 0 THEN txn.epoch ELSE @,
                            !.rows = off, !.candidate = TRUE]
           q == IF mtp.active \/ off = 0 THEN mqsa ELSE QsaMark(fed, off)
<1>6. ASSUME txn.kind # "append"
      PROVE  p.mtp = m /\ p.mqsa = q /\ p.cand = ws.hc[off - 1]
    BY <1>5, <1>6 DEF Prepared
<1>7. ASSUME txn.kind # "append"
      PROVE  p.mtp.active = TRUE /\ p.mtp.rows = off /\ p.mtp.candidate = TRUE
    <2>1. mtp \in MtpRecords
        BY <1>1 DEF StageTypes
    <2>2. m.active = TRUE /\ m.rows = off /\ m.candidate = TRUE
        <3>1. (mtp.active \/ off # 0) = TRUE /\ off # 0
            BY <1>2
        <3> DEFINE o == off  e == txn.epoch
        <3>2. m = [mtp EXCEPT !.active = TRUE, !.epoch = e, !.rows = o, !.candidate = TRUE]
            BY <3>1
        <3>3. o \in Nat /\ e \in Nat
            BY <1>2
        <3> HIDE DEF m, o, e
        <3>4. m.active = TRUE /\ m.rows = o /\ m.candidate = TRUE
            BY <2>1, <3>2, <3>3 DEF MtpRecords
        <3>5. QED
            BY <3>4 DEF o
    <2> HIDE DEF m, p, q
    <2>3. QED
        BY <1>6, <1>7, <2>2
<1>8. CASE txn.kind = "speculative"
    <2>1. /\ mtp.active /\ mtp.reconciled = off /\ ws.hc[off - 1] = After(Base + off)
          /\ Holds(mqsa, Rows, mqsa.committed + off)
        BY <1>2, <1>8 DEF StageInv, Running, DraftRan
    <2>2. q = mqsa
        BY <2>1
    <2> HIDE DEF p, m, q
    <2>3. p.mqsa = mqsa /\ p.cand = After(Base + off) /\ txn.kind # "append"
        BY <1>6, <1>8, <2>1, <2>2
    <2>4. Prepares(p, off)
        BY <1>3, <1>7, <2>1, <2>3 DEF Prepares
    <2>5. QED
        BY <1>5, <2>3, <2>4 DEF p
<1>9. CASE txn.kind = "decode"
    <2>1. /\ ~mtp.active /\ ws.toks[0] = txn.toks[1] /\ ws.hc[0] = After(Base + off)
        BY <1>2, <1>9 DEF StageInv, Running, DecodeRan
    <2>2. off = 1
        <3>1. Len(txn.toks) = 1
            BY <1>1, <1>9 DEF OpenTogether
        <3>2. off <= Len(txn.toks)
            BY <1>1, <1>2 DEF StepInOrder
        <3>3. QED
            BY <1>2, <3>1, <3>2
    <2>3. mtp.pending = TRUE /\ ws.pend = After(Base)
        <3>1. mtp.pending = TRUE
            BY <1>5, <1>9
        <3>2. session # <<>>
            BY <1>1, <1>9 DEF OpenTogether
        <3>3. ws.pend = session
            BY <1>1, <3>2 DEF SessionHeld
        <3>4. After(Base) = session
            BY <1>1, Typing, FullFacts
        <3>5. QED
            BY <3>1, <3>3, <3>4
    <2>4. /\ w \in WsRecords /\ w.cand = After(Base) /\ w.toks = ws.toks /\ w.hc = ws.hc
        BY <1>2, <2>3 DEF WsRecords
    <2>5. q = QsaMark(fed, 1)
        BY <2>1, <2>2
    <2>6. begun \in QsaOf(RowKeys) /\ begun.committed = mqsa.committed
          /\ Holds(begun, Rows, mqsa.committed)
        <3> DEFINE a == mqsa  e == txn.epoch  c == mqsa.committed
        <3>1. a \in QsaOf(RowKeys) /\ e \in Nat /\ Holds(a, Rows, c) /\ a.committed = c
            BY <1>2, <1>3
        <3> HIDE DEF a, e, c
        <3> DEFINE y == QsaBegin(a, e)
        <3>2. y \in QsaOf(RowKeys) /\ y.keys = a.keys /\ y.pooled = a.pooled
              /\ y.committed = a.committed
            BY <3>1, QsaBeginFacts
        <3> HIDE DEF y
        <3>3. Holds(y, Rows, c)
            BY <3>1, <3>2 DEF Holds
        <3>4. QED
            BY <3>1, <3>2, <3>3 DEF a, e, c, y
    <2>7. fed \in QsaOf(RowKeys) /\ fed.committed = mqsa.committed
          /\ Holds(fed, Rows, mqsa.committed + 1)
        <3> DEFINE had == TRUE  a == 0  l == 1  k == 1  c == mqsa.committed  b == begun  v == w
        <3>1. /\ a \in Nat /\ l \in Nat /\ a + l <= Len(txn.toks) /\ l <= ChunkTokens
              /\ had \in BOOLEAN /\ k \in Nat
            <4>1. Len(txn.toks) = 1
                BY <1>1, <1>9 DEF OpenTogether
            <4>2. QED
                BY <4>1, Cuda1Assumption
        <3>2. k + One(~had) <= l /\ One(had) = 1
            BY DEF One
        <3>3. \A i \in 1..1 : i = 1
            OBVIOUS
        <3>4. \A i \in 1..l : v.toks[i - 1] = txn.toks[a + i]
            BY <2>1, <2>4, <3>3
        <3>5. \A i \in 1..l : v.hc[i - 1] = After(Base + a + i)
            <4>1. Base + a + 1 = Base + 1
                BY <1>2
            <4>2. QED
                BY <2>1, <2>2, <2>4, <3>3, <4>1
        <3>6. had => v.cand = After(Base + a)
            <4>1. Base + a = Base
                BY <1>2
            <4>2. QED
                BY <2>4, <4>1
        <3>7. c \in Nat /\ c + One(had) = Base + a
            <4>1. One(mtp.pending) = 1
                BY <2>3 DEF One
            <4> DEFINE x == Base
            <4>2. c \in Nat /\ c + 1 = x /\ x \in Nat
                BY <1>2, <1>3, <4>1
            <4> HIDE DEF c, x
            <4>3. c \in Nat /\ c + 1 = x + 0
                BY <4>2
            <4>4. QED
                BY <3>2, <4>3 DEF x
        <3>8. v \in WsRecords /\ b \in QsaOf(RowKeys) /\ Holds(b, Rows, c) /\ b.committed = c
            BY <2>4, <2>6
        <3>9. fed = MtpRun(b, v, had, c, k)
            BY <2>2, <2>3
        <3> HIDE DEF had, a, l, k, c, b, v
        <3>10. MtpFed(MtpRun(b, v, had, c, k), b, c + k)
            BY <1>1, <3>1, <3>2, <3>4, <3>5, <3>6, <3>7, <3>8, MtpRunFacts
        <3> HIDE DEF fed
        <3>11. MtpFed(fed, b, c + k)
            BY <3>9, <3>10
        <3>12. QED
            BY <3>8, <3>11 DEF MtpFed, c, k
    <2> HIDE DEF fed
    <2> DEFINE y == QsaMark(fed, 1)
    <2>8. y \in QsaOf(RowKeys) /\ y.keys = fed.keys /\ y.pooled = fed.pooled
          /\ y.committed = fed.committed
        <3> DEFINE i == 1
        <3>1. i \in Nat
            OBVIOUS
        <3> HIDE DEF i
        <3> DEFINE z == QsaMark(fed, i)
        <3>2. z \in QsaOf(RowKeys) /\ z.keys = fed.keys /\ z.pooled = fed.pooled
              /\ z.committed = fed.committed
            BY <2>7, <3>1, QsaMarkFacts
        <3>3. QED
            BY <3>2 DEF i
    <2>9. q = y
        BY <2>5
    <2> HIDE DEF y, q, p, m
    <2>10. Holds(y, Rows, mqsa.committed + 1)
        BY <2>7, <2>8 DEF Holds
    <2>11. p.mqsa = y /\ p.cand = After(Base + off)
        <3>1. off - 1 = 0 /\ txn.kind # "append"
            BY <1>9, <2>2
        <3>2. QED
            BY <1>6, <2>1, <2>9, <3>1
    <2>12. Prepares(p, off)
        BY <1>7, <1>9, <2>2, <2>7, <2>8, <2>10, <2>11 DEF Prepares
    <2>13. QED
        BY <1>5, <1>9, <2>12 DEF p
<1>10. QED
    BY <1>1, <1>4, <1>8, <1>9 DEF Kinds

\* A commit is one that the backend and the banks expect.
LEMMA CommitAccepts ==
    ASSUME StageInv, step \in {"verify", "commit"}
    PROVE  CommitAccepted(off)
<1>1. /\ StageTypes /\ SessionHeld /\ OpenTogether /\ TargetRan /\ StepInOrder
      /\ txn.kind \in Kinds
    BY DEF StageInv, Running, OpenTogether
<1>2. /\ off \in Nat /\ off > 0 /\ Base \in Nat /\ mtp.rows \in Nat /\ Len(txn.toks) \in Nat
      /\ be.prov # 0 /\ txn.epoch = be.prov /\ be.active = TRUE
    BY <1>1, Typing DEF StepInOrder, TargetRan, OpenTogether
<1>3. /\ gdn.epoch = be.prov /\ qsa.epoch = be.prov /\ be.base = Base
      /\ be.expected = Len(txn.toks) /\ be.kind = txn.kind /\ be.processed = off
      /\ qsa.evaluated = off /\ gdn.active = TRUE /\ qsa.active = TRUE
    BY <1>1, <1>2 DEF TargetRan, OpenTogether
<1>4. off = Len(txn.toks) \/ txn.kind = "speculative"
    BY <1>1 DEF StepInOrder
<1>5. BankHolds(gdn, be.prov) /\ QsaCanCommit(qsa, be.prov, off)
    <2>1. off \in 1..off
        BY <1>2
    <2>2. QED
        BY <1>3, <2>1 DEF BankHolds, QsaCanCommit, QsaHolds
<1>6. CASE txn.kind = "append"
    <2>1. mtp.candidate
        BY <1>2, <1>6 DEF StageInv, Running, AppendRan
    <2>2. QED
        BY <1>2, <1>3, <1>4, <1>5, <1>6, <2>1 DEF CommitAccepted
<1>7. CASE txn.kind # "append"
    <2>1. session # <<>> /\ mtp.pending = TRUE
        BY <1>1, <1>7 DEF OpenTogether, SessionHeld
    <2>2. mqsa.committed + One(mtp.pending) = be.base
        BY <1>1, <1>3, CommittedRows
    <2>3. ASSUME mtp.active
          PROVE  /\ mtp.epoch = txn.epoch /\ mtp.rows # 0 /\ mtp.pending
                 /\ be.kind = "speculative" /\ be.expected = mtp.rows + 1
                 /\ PreparedRows(off) \in 1..mtp.reconciled
        <3>1. txn.kind # "decode"
            BY <2>3 DEF StageInv, Running, DecodeRan
        <3>2. txn.kind = "speculative"
            BY <1>1, <1>7, <3>1 DEF Kinds
        <3>3. /\ mtp.epoch = txn.epoch /\ mtp.rows + 1 = Len(txn.toks)
              /\ mtp.reconciled = off
            BY <3>2 DEF StageInv, Running, DraftRan
        <3>4. mtp.rows # 0
            <4>1. Len(txn.toks) - 1 \in 1..MaxWidth
                BY <1>1, <3>2 DEF OpenTogether
            <4>2. QED
                BY <1>2, <3>3, <4>1
        <3>5. PreparedRows(off) = off
            <4>1. One(~mtp.pending) = 0
                BY <2>1 DEF One
            <4>2. QED
                BY <1>2, <4>1 DEF PreparedRows
        <3>6. off \in 1..off
            BY <1>2
        <3>7. QED
            BY <1>3, <2>1, <3>2, <3>3, <3>4, <3>5, <3>6
    <2>4. PrepareAccepted(off)
        BY <2>2, <2>3 DEF PrepareAccepted
    <2>5. QED
        BY <1>2, <1>3, <1>4, <1>5, <1>7, <2>4 DEF CommitAccepted
<1>8. QED
    BY <1>6, <1>7

\* What a commit keeps of the draft model's bank.
LEMMA MtpCommittedFacts ==
    ASSUME StageInv, NEW p, NEW n \in Nat, Prepares(p, n)
    PROVE  /\ LeftBank(MtpCommitted(p)) \in QsaOf(RowKeys)
           /\ LeftBank(MtpCommitted(p)).committed = mqsa.committed + n
           /\ Holds(LeftBank(MtpCommitted(p)), Rows, mqsa.committed + n)
<1> DEFINE q == p.mqsa  c == mqsa.committed  k == QsaCommit(q, n)
<1>1. c \in Nat /\ q \in QsaOf(RowKeys) /\ q.committed = c /\ Holds(q, Rows, c + n)
    BY CommittedRows DEF Prepares, StageInv
<1> HIDE DEF q
<1>2. /\ k \in QsaOf(RowKeys) /\ k.keys = q.keys /\ k.pooled = q.pooled
      /\ k.committed = q.committed + n
    BY <1>1, QsaCommitFacts
<1> HIDE DEF k, c
<1>3. Holds(k, Rows, c + n) /\ k.committed = c + n
    BY <1>1, <1>2 DEF Holds
<1> DEFINE e == MtpCommitted(p)  m == c + n
<1>4. e \in QsaOf(RowKeys) /\ e.committed = m /\ Holds(e, Rows, m)
    <2>1. CASE p.mtp.active
        <3>1. e = k
            BY <2>1 DEF MtpCommitted, Prepares, k, q
        <3>2. QED
            BY <1>2, <1>3, <3>1
    <2>2. CASE ~p.mtp.active
        <3>1. e = q /\ n = 0
            BY <2>2 DEF MtpCommitted, Prepares, q
        <3>2. m = c
            BY <1>1, <3>1
        <3>3. QED
            BY <1>1, <3>1, <3>2
    <2>3. QED
        BY <2>1, <2>2
<1>5. m \in Nat /\ m = mqsa.committed + n
    BY <1>1 DEF c
<1> HIDE DEF e, m
<1>6. m \in 0..e.committed
    BY <1>4, <1>5
<1> DEFINE r == Rows
<1>7. Holds(e, r, m)
    BY <1>4
<1> HIDE DEF r
<1>8. LeftBank(e) \in QsaOf(RowKeys) /\ LeftBank(e).committed = e.committed
      /\ Holds(LeftBank(e), r, m)
    BY <1>4, <1>6, <1>7, StaleKeys, LeftBankFacts
<1>9. QED
    BY <1>4, <1>5, <1>8 DEF e, r

\* A commit makes the session longer by what was verified.
LEMMA CommitStep ==
    ASSUME StageInv, NEW n, Commit(n)
    PROVE  StageInv'
<1>1. step \in {"verify", "commit"} /\ n = off
    <2>1. (step = "commit" /\ n = answer.rows) \/ (step = "verify" /\ n = off)
        BY DEF Commit
    <2>2. step = "commit" => answer.rows = off
        BY DEF StageInv, Running, StepInOrder
    <2>3. QED
        BY <2>1, <2>2
<1>2. /\ StageTypes /\ SessionHeld /\ OpenTogether /\ TargetRan /\ StepInOrder /\ ~fail
    BY <1>1 DEF StageInv, Running
<1> DEFINE p == PreparedBy(off)  s == After(Base + off)  k == mqsa.committed
           m == off - One(~mtp.pending)
<1>3. CommitAccepted(n)
    BY <1>1, CommitAccepts
<1>4. /\ gdn' = LeftCopy(BankCommit(gdn)) /\ qsa' = LeftBank(QsaCommit(qsa, off))
      /\ mqsa' = LeftBank(MtpCommitted(p))
      /\ mtp' = [FreshMtp EXCEPT !.pending = p.mtp.candidate]
      /\ ws' = LeftWorkspace(p.cand)
      /\ be' = [Closed1(be.prov) EXCEPT !.frontier = be.base + off]
      /\ End(session \o SubSeq(txn.toks, 1, off))
    BY <1>1, <1>3 DEF Commit, PreparedBy
<1>5. /\ off \in Nat /\ off > 0 /\ Base \in Nat /\ be.prov \in Nat /\ be.prov # 0
      /\ off <= Len(txn.toks) /\ Len(txn.toks) \in Nat /\ mtp.pending \in BOOLEAN
      /\ session \in Seq(Tokens) /\ txn.toks \in Seq(Tokens)
      /\ be \in BeRecords /\ gdn \in Banks /\ qsa \in QsaOf(TokenKeys)
    <2>1. /\ off \in Nat /\ Base \in Nat /\ be.prov \in Nat /\ Len(txn.toks) \in Nat
          /\ mtp.pending \in BOOLEAN /\ session \in Seq(Tokens) /\ txn.toks \in Seq(Tokens)
        BY <1>2, Typing
    <2>2. be \in BeRecords /\ gdn \in Banks /\ qsa \in QsaOf(TokenKeys)
        BY <1>2 DEF StageTypes
    <2>3. off > 0 /\ (off = Len(txn.toks) \/ off < Len(txn.toks))
        BY <1>1, <1>2 DEF StepInOrder
    <2>4. be.prov # 0
        BY <1>2, <2>3 DEF TargetRan
    <2>5. QED
        BY <2>1, <2>2, <2>3, <2>4
<1>6. /\ be.base = Base /\ Working(gdn) = s /\ Holds(qsa, Full, Base + off)
      /\ qsa.committed = Base
    BY <1>2, <1>5 DEF TargetRan, SessionHeld
<1>7. /\ k \in Nat /\ k + One(mtp.pending) = Base
    BY <1>2, CommittedRows
<1>8. m \in Nat /\ k + m + 1 = Base + off
    <2> DEFINE o == One(mtp.pending)  z == One(~mtp.pending)  b == Base
    <2>1. o \in Nat /\ z \in {0, 1} /\ o + z = 1
        BY <1>5 DEF One
    <2>2. /\ k \in Nat /\ b \in Nat /\ off \in Nat /\ off > 0 /\ k + o = b
          /\ m = off - z
        BY <1>5, <1>7
    <2> HIDE DEF o, z, b, k, m
    <2>3. m \in Nat /\ k + m + 1 = b + off
        BY <2>1, <2>2
    <2>4. QED
        BY <2>3 DEF b
<1> HIDE DEF m
<1>9. Prepares(p, m)
    BY <1>1, <1>8, PreparedFacts
<1>10. /\ Full \in Seq(Tokens) /\ Len(Full) = Base + Len(txn.toks)
       /\ s \in Seq(Tokens) /\ Len(s) = Base + off /\ \A i \in 1..Base + off : s[i] = Full[i]
       /\ session \o SubSeq(txn.toks, 1, off) = s /\ s # <<>>
    <2>1. Base + off \in 0..Base + Len(txn.toks) /\ off \in 0..Len(txn.toks)
        BY <1>5
    <2>2. /\ Full \in Seq(Tokens) /\ Len(Full) = Base + Len(txn.toks)
          /\ s \in Seq(Tokens) /\ Len(s) = Base + off
          /\ \A i \in 1..Base + off : s[i] = Full[i]
          /\ session \o SubSeq(txn.toks, 1, off) = s
        BY <1>5, <2>1, FullFacts
    <2> HIDE DEF s
    <2>3. s # <<>>
        BY <1>5, <2>2
    <2>4. QED
        BY <2>2, <2>3
<1> HIDE DEF p, s, k
<1>11. gdn' \in Banks /\ gdn'.active = FALSE /\ CommittedCopy(gdn') = s
    BY <1>4, <1>5, <1>6, BankEndFacts
<1> DEFINE b == Base + off
<1>12. b \in Nat /\ b = Base + off /\ b <= Len(Full) /\ b = Len(s)
    BY <1>5, <1>10
<1>13. /\ qsa' \in QsaOf(TokenKeys) /\ qsa'.active = FALSE /\ qsa'.committed = b
       /\ Holds(qsa', s, b)
    <2> DEFINE q == qsa  c == QsaCommit(qsa, off)
    <2>1. q \in QsaOf(TokenKeys) /\ Holds(q, Full, b) /\ q.committed + off = b
        BY <1>5, <1>6
    <2>2. /\ c \in QsaOf(TokenKeys) /\ c.keys = q.keys /\ c.pooled = q.pooled
          /\ c.committed = q.committed + off /\ c.active = FALSE
        BY <1>5, QsaCommitFacts
    <2>3. qsa' = LeftBank(c)
        BY <1>4
    <2> DEFINE f == Full
    <2>4. Holds(q, f, b) /\ \A i \in 1..b : s[i] = f[i]
        BY <1>10, <2>1
    <2> HIDE DEF q, c, f, b
    <2>5. Holds(c, s, b)
        <3>1. b \in 0..b
            BY <1>12
        <3>2. QED
            BY <1>12, <2>1, <2>2, <2>4, <3>1, HoldsLess
    <2>6. b \in 0..c.committed
        BY <1>12, <2>1, <2>2
    <2>7. /\ LeftBank(c) \in QsaOf(TokenKeys) /\ LeftBank(c).committed = c.committed
          /\ LeftBank(c).active = c.active /\ Holds(LeftBank(c), s, b)
        BY <2>2, <2>5, <2>6, StaleKeys, LeftBankFacts
    <2>8. QED
        BY <2>1, <2>2, <2>3, <2>7
<1>14. /\ mqsa' \in QsaOf(RowKeys) /\ mqsa'.committed = b - 1
       /\ Holds(mqsa', MtpRowsOf(s), mqsa'.committed)
    <2> DEFINE c == LeftBank(MtpCommitted(p))  g == k + m  r == Rows  t == MtpRowsOf(s)
    <2>1. c \in QsaOf(RowKeys) /\ c.committed = g /\ Holds(c, r, g)
        BY <1>8, <1>9, MtpCommittedFacts DEF k
    <2>2. mqsa' = c
        BY <1>4
    <2>3. g = b - 1 /\ g \in Nat
        <3>1. k \in Nat
            BY <1>7
        <3> HIDE DEF b
        <3>2. k + m + 1 = b
            BY <1>8 DEF b
        <3>3. QED
            BY <1>8, <1>12, <3>1, <3>2
    <2>4. \A i \in 1..g : t[i] = r[i]
        <3> DEFINE f == Full
        <3>1. /\ b \in 0..Len(s) /\ b <= Len(f) /\ f \in Seq(Tokens)
              /\ \A i \in 1..b : s[i] = f[i]
            BY <1>10, <1>12
        <3> HIDE DEF f, b
        <3>2. \A i \in 1..b - 1 : MtpRowsOf(s)[i] = MtpRowsOf(f)[i]
            BY <1>10, <3>1, RowsAgree
        <3>3. r = MtpRowsOf(f)
            BY DEF Rows, f
        <3> HIDE DEF g, r
        <3>4. QED
            BY <2>3, <3>2, <3>3
    <2> HIDE DEF c, g, r, t, b
    <2>5. Holds(c, t, g)
        <3>1. g \in 0..g
            BY <2>3
        <3>2. QED
            BY <2>1, <2>3, <2>4, <3>1, HoldsLess
    <2>6. QED
        BY <2>1, <2>2, <2>3, <2>5 DEF t
<1>15. ws' \in WsRecords /\ ws'.pend = s
    <2>1. p.cand = s /\ s \in Hcs
        BY <1>9, <1>10 DEF Prepares, Hcs, s
    <2>2. QED
        BY <1>4, <2>1, LeftWorkspaceFacts
<1>16. mtp' \in MtpRecords /\ mtp'.active = FALSE /\ mtp'.pending = TRUE
    BY <1>4, <1>9 DEF Prepares, FreshMtp, MtpRecords
<1>17. be' \in BeRecords /\ be'.prov = 0 /\ be'.active = FALSE /\ be'.frontier = b
    <2> DEFINE c == Closed1(be.prov)
    <2>1. Closes(c)
        BY <1>5, Closed1Facts
    <2>2. be' = [c EXCEPT !.frontier = b]
        BY <1>4, <1>6
    <2> HIDE DEF c, b
    <2>3. QED
        BY <1>12, <2>1, <2>2 DEF Closes, BeRecords
<1>18. Ended(s, be', mtp', ws', gdn', qsa', mqsa')
    <2>1. (s # <<>>) = TRUE
        BY <1>10
    <2>2. One(s # <<>>) = 1
        BY <2>1 DEF One
    <2> HIDE DEF b
    <2>3. mqsa'.committed = Len(s) - One(s # <<>>)
        BY <1>12, <1>14, <2>2
    <2>4. Holds(qsa', s, Len(s)) /\ qsa'.committed = Len(s) /\ be'.frontier = Len(s)
        BY <1>12, <1>13, <1>17
    <2>5. QED
        BY <1>11, <1>13, <1>14, <1>15, <1>16, <1>17, <2>1, <2>3, <2>4 DEF Ended
<1>19. End(s)
    BY <1>4, <1>10
<1>20. QED
    BY <1>2, <1>10, <1>18, <1>19, EndedStep

-----------------------------------------------------------------------------
(* The theorems.                                                           *)

\* Every step of the stage preserves the invariant.
LEMMA StageStep ==
    ASSUME StageInv, NoTail, [Cuda1Next]_cuda1Vars
    PROVE  StageInv'
<1>1. ASSUME NEW n \in AppendSizes, NEW s \in Strings(n), Begin("append", s, "execute")
      PROVE  StageInv'
    <2>1. n \in Nat /\ s \in Seq(Tokens) /\ Len(s) = n
        <3>1. n \in Nat
            BY Cuda1Assumption
        <3>2. s \in [1..n -> Tokens]
            BY DEF Strings
        <3>3. s \in Seq(Tokens)
            BY <3>1, <3>2, IsASeq
        <3>4. DOMAIN s = 1..n
            BY <3>2
        <3>5. Len(s) = n
            BY <3>1, <3>3, <3>4, LenProperties
        <3>6. QED
            BY <3>1, <3>3, <3>5
    <2> DEFINE kind == "append"  next == "execute"
    <2>2. /\ kind \in Kinds /\ next = (IF kind = "speculative" THEN "draft" ELSE "execute")
          /\ (kind # "append" => session # <<>>) /\ (kind = "append" => Len(s) \in AppendSizes)
          /\ (kind = "decode" => Len(s) = 1)
          /\ (kind = "speculative" => Len(s) - 1 \in 1..MaxWidth)
          /\ Begin(kind, s, next)
        BY <1>1, <2>1 DEF Kinds
    <2> HIDE DEF kind, next
    <2>3. QED
        BY <2>1, <2>2, BeginStep
<1>2. ASSUME NEW t \in Tokens, session # <<>>, Begin("decode", <<t>>, "execute")
      PROVE  StageInv'
    <2> DEFINE kind == "decode"  next == "execute"  s == <<t>>
    <2>1. s \in Seq(Tokens) /\ Len(s) = 1
        OBVIOUS
    <2>2. /\ kind \in Kinds /\ next = (IF kind = "speculative" THEN "draft" ELSE "execute")
          /\ (kind # "append" => session # <<>>) /\ (kind = "append" => Len(s) \in AppendSizes)
          /\ (kind = "decode" => Len(s) = 1)
          /\ (kind = "speculative" => Len(s) - 1 \in 1..MaxWidth)
          /\ Begin(kind, s, next)
        BY <1>2, <2>1 DEF Kinds
    <2> HIDE DEF kind, next, s
    <2>3. QED
        BY <2>1, <2>2, BeginStep
<1>3. ASSUME NEW t \in Tokens, NEW w \in 1..MaxWidth, session # <<>>,
             Begin("speculative", [i \in 1..(w + 1) |-> t], "draft")
      PROVE  StageInv'
    <2> DEFINE kind == "speculative"  next == "draft"  s == [i \in 1..(w + 1) |-> t]
    <2>1. s \in Seq(Tokens) /\ Len(s) - 1 = w
        <3>1. MaxWidth \in Nat /\ w + 1 \in Nat
            BY Cuda1Assumption
        <3>2. s \in [1..(w + 1) -> Tokens] /\ DOMAIN s = 1..(w + 1)
            OBVIOUS
        <3> HIDE DEF s
        <3>3. s \in Seq(Tokens)
            BY <3>1, <3>2, IsASeq
        <3>4. Len(s) = w + 1
            BY <3>1, <3>2, <3>3, LenProperties
        <3>5. QED
            BY <3>1, <3>3, <3>4
    <2> HIDE DEF s
    <2>2. /\ kind \in Kinds /\ next = (IF kind = "speculative" THEN "draft" ELSE "execute")
          /\ (kind # "append" => session # <<>>) /\ (kind = "append" => Len(s) \in AppendSizes)
          /\ (kind = "decode" => Len(s) = 1)
          /\ (kind = "speculative" => Len(s) - 1 \in 1..MaxWidth)
        BY <1>3, <2>1 DEF Kinds
    <2>3. Begin(kind, s, next)
        BY <1>3 DEF s
    <2> HIDE DEF kind, next
    <2>4. QED
        BY <2>1, <2>2, <2>3, BeginStep
<1>4. ASSUME NEW w \in 0..MaxWidth, NEW d \in Strings(w), Draft(d) \/ CancelDraft(d)
      PROVE  StageInv'
    <2>1. d \in Seq(Tokens)
        BY Cuda1Assumption, IsASeq DEF Strings
    <2>2. QED
        BY <1>4, <2>1, DraftStep, CancelDraftStep
<1>5. ASSUME NEW t \in Tokens, Execute(t)
      PROVE  StageInv'
    BY <1>5, ExecuteStep DEF Execute
<1>6. ASSUME UNCHANGED cuda1Vars
      PROVE  StageInv'
    <2>1. UNCHANGED <<session, txn, off, step, answer, fail, be, mtp, ws, gdn, qsa, mqsa>>
        BY <1>6 DEF cuda1Vars, driver1Vars
    <2>2. Base' = Base /\ Full' = Full /\ Rows' = Rows
        BY <2>1 DEF Base, Full, Rows
    <2>3. StageTypes' = StageTypes /\ SessionHeld' = SessionHeld /\ OpenTogether' = OpenTogether
        BY <2>1, <2>2 DEF StageTypes, SessionHeld, OpenTogether
    <2>4. TargetRan' = TargetRan /\ StepInOrder' = StepInOrder
        BY <2>1, <2>2 DEF TargetRan, StepInOrder, After
    <2>5. AppendRan' = AppendRan /\ DecodeRan' = DecodeRan /\ DraftRan' = DraftRan
        BY <2>1, <2>2 DEF AppendRan, DecodeRan, DraftRan, After
    <2>6. QED
        BY <2>1, <2>3, <2>4, <2>5 DEF StageInv
<1>7. 1..MaxWidth \subseteq 0..MaxWidth
    BY Cuda1Assumption
<1>8. QED
    BY <1>1, <1>2, <1>3, <1>4, <1>5, <1>6, <1>7, CancelExecuteStep, ReconcileStep, CommitStep,
       RollbackStep, ResetStep DEF Cuda1Next

\* The invariant, of every instance in which no append ends in a chunk of one.
THEOREM StageInvariant ==
    ASSUME NoTail
    PROVE  Cuda1Spec => []StageInv
<1>1. Cuda1Init => StageInv
    BY StageInit
<1>2. StageInv /\ [Cuda1Next]_cuda1Vars => StageInv'
    BY StageStep
<1>3. QED
    BY <1>1, <1>2, PTL DEF Cuda1Spec

\* In the executor's order, and whatever was cancelled before, stage 1 refuses
\* no call: the checks on entry to draft, execute, reconcile, commit and reset
\* all pass.
THEOREM StageOneNeverRefuses ==
    ASSUME NoTail
    PROVE  Cuda1Spec => []StageOneAccepts
<1>1. StageInv => StageOneAccepts
    BY DEF StageInv, StageOneAccepts
<1>2. QED
    BY <1>1, StageInvariant, PTL

\* What execute answers was predicted after the last row it was given.
THEOREM StageOneAnswersItsOwn ==
    ASSUME NoTail
    PROVE  Cuda1Spec => []AnswerIsOwn
<1>1. ASSUME StageInv
      PROVE  AnswerIsOwn
    <2>1. SUFFICES ASSUME step \in {"verify", "commit"}
                   PROVE  /\ answer.next.hc = session \o SubSeq(txn.toks, 1, off)
                          /\ answer.rows = off
        BY DEF AnswerIsOwn
    <2>2. StageTypes /\ StepInOrder
        BY <1>1, <2>1 DEF StageInv, Running
    <2>3. answer.rows = off /\ answer.next.hc = After(Base + off)
        BY <2>1, <2>2 DEF StepInOrder
    <2>4. off \in 0..Len(txn.toks) /\ session \in Seq(Tokens) /\ txn.toks \in Seq(Tokens)
        <3>1. off = Len(txn.toks) \/ off < Len(txn.toks)
            BY <2>2 DEF StepInOrder
        <3>2. QED
            BY <2>2, <3>1, Typing
    <2>5. session \o SubSeq(txn.toks, 1, off) = After(Base + off)
        BY <2>4, FullFacts
    <2>6. QED
        BY <2>3, <2>5
<1>2. QED
    BY <1>1, StageInvariant, PTL

\* The first elements of an array that begins with the sequence s.
LEMMA HoldsFirst ==
    ASSUME NEW K, NEW q \in QsaOf(K), NEW S, NEW s \in Seq(S), Holds(q, s, Len(s))
    PROVE  /\ SubSeq(q.keys, 1, Len(s)) = s
           /\ SubSeq(q.pooled, 1, Len(s) \div BlockTokens) = Blocks(s)
<1> DEFINE n == Len(s)  m == n \div BlockTokens  a == SubSeq(q.keys, 1, n)
           b == SubSeq(q.pooled, 1, m)
<1>1. q.keys \in Seq(K) /\ q.pooled \in Seq(Seq(K)) /\ Len(q.keys) \in Nat /\ Len(q.pooled) \in Nat
    BY QsaTypes
<1>2. n \in Nat /\ m \in Nat
    BY DivFacts
<1>3. /\ n <= Len(q.keys) /\ \A i \in 1..n : q.keys[i] = s[i]
      /\ m <= Len(q.pooled)
      /\ \A j \in 1..m : q.pooled[j] = [i \in 1..BlockTokens |-> s[(j - 1) * BlockTokens + i]]
    BY DEF Holds
<1>4. /\ Blocks(s) \in Seq(Seq(S)) /\ Len(Blocks(s)) = m
      /\ \A j \in 1..m : Blocks(s)[j] = [i \in 1..BlockTokens |-> s[(j - 1) * BlockTokens + i]]
    <2>1. /\ Blocks(s) \in Seq(Seq(S)) /\ Len(Blocks(s)) = Len(s) \div BlockTokens
          /\ \A j \in 1..Len(s) \div BlockTokens :
               Blocks(s)[j] = [i \in 1..BlockTokens |-> s[(j - 1) * BlockTokens + i]]
        <3>1. AreBlocks(Blocks(s), S, s)
            BY BlocksFacts
        <3>2. QED
            BY <3>1 DEF AreBlocks
    <2>2. m = Len(s) \div BlockTokens
        OBVIOUS
    <2> HIDE DEF m, n
    <2>3. QED
        BY <2>1, <2>2
<1> HIDE DEF m
<1>5. a \in Seq(K) /\ Len(a) = n /\ \A i \in 1..n : a[i] = q.keys[i]
    <2> DEFINE k == q.keys
    <2>1. k \in Seq(K) /\ n \in 0..Len(k)
        <3>1. n <= Len(k)
            BY <1>3
        <3> HIDE DEF n
        <3>2. QED
            BY <1>1, <1>2, <3>1
    <2> HIDE DEF k, n
    <2>2. SubSeq(k, 1, n) \in Seq(K) /\ Len(SubSeq(k, 1, n)) = n
          /\ \A i \in 1..n : SubSeq(k, 1, n)[i] = k[i]
        BY <2>1, FirstFacts
    <2>3. QED
        BY <2>2 DEF k
<1>6. b \in Seq(Seq(K)) /\ Len(b) = m /\ \A i \in 1..m : b[i] = q.pooled[i]
    <2> DEFINE k == q.pooled  T == Seq(K)
    <2>1. k \in Seq(T) /\ m \in 0..Len(k)
        <3>1. m <= Len(k)
            BY <1>3
        <3>2. QED
            BY <1>1, <1>2, <3>1
    <2> HIDE DEF k, T
    <2>2. SubSeq(k, 1, m) \in Seq(T) /\ Len(SubSeq(k, 1, m)) = m
          /\ \A i \in 1..m : SubSeq(k, 1, m)[i] = k[i]
        BY <2>1, FirstFacts
    <2>3. QED
        BY <2>2 DEF k, T
<1> HIDE DEF a, b
<1>7. a = s
    <2>1. \A i \in 1..Len(a) : a[i] = s[i]
        BY <1>3, <1>5
    <2>2. Len(a) = Len(s)
        BY <1>5
    <2> HIDE DEF n
    <2>3. QED
        BY <1>5, <2>1, <2>2, SeqEqual
<1>8. b = Blocks(s)
    <2> DEFINE c == Blocks(s)  T == Seq(K)  U == Seq(S)
    <2>1. \A i \in 1..Len(b) : b[i] = c[i]
        BY <1>3, <1>4, <1>6
    <2>2. Len(b) = Len(c) /\ b \in Seq(T) /\ c \in Seq(U)
        BY <1>4, <1>6
    <2> HIDE DEF c, T, U
    <2>3. b = c
        BY <2>1, <2>2, SeqEqual
    <2>4. QED
        BY <2>3 DEF c
<1>9. QED
    BY <1>7, <1>8 DEF a, b, n, m

\* Between transactions the target's banks hold the session, and the draft
\* model's rows, its pooled blocks and the pending HC are those the target would
\* have made of it: what a rejected or cancelled draft left is never seen again.
THEOREM DraftFollowsTarget ==
    ASSUME NoTail
    PROVE  Cuda1Spec => []DraftStateFollowsTarget
<1>1. ASSUME StageInv, step = "none"
      PROVE  /\ CommittedCopy(gdn) = session
             /\ qsa.committed = Len(session)
             /\ SubSeq(qsa.keys, 1, qsa.committed) = session
             /\ mtp.pending <=> session # <<>>
             /\ session # <<>> =>
                  /\ ws.pend = session
                  /\ mqsa.committed = Len(session) - 1
                  /\ SubSeq(mqsa.keys, 1, mqsa.committed) = MtpRowsOf(session)
                  /\ SubSeq(mqsa.pooled, 1, mqsa.committed \div BlockTokens)
                       = Blocks(MtpRowsOf(session))
    <2>1. StageTypes /\ SessionHeld /\ session \in Seq(Tokens)
        BY <1>1, Typing DEF StageInv
    <2>2. /\ CommittedCopy(gdn) = session /\ qsa.committed = Len(session)
          /\ Holds(qsa, session, Len(session)) /\ mtp.pending = (session # <<>>)
          /\ mqsa.committed = Len(session) - One(session # <<>>)
          /\ Holds(mqsa, MtpRowsOf(session), mqsa.committed)
          /\ (session # <<>> => ws.pend = session)
        BY <2>1 DEF SessionHeld, Base
    <2>3. qsa \in QsaOf(TokenKeys) /\ mqsa \in QsaOf(RowKeys)
        BY <2>1 DEF StageTypes
    <2>4. SubSeq(qsa.keys, 1, Len(session)) = session
        BY <2>1, <2>2, <2>3, HoldsFirst
    <2>5. ASSUME session # <<>>
          PROVE  /\ mqsa.committed = Len(session) - 1
                 /\ SubSeq(mqsa.keys, 1, mqsa.committed) = MtpRowsOf(session)
                 /\ SubSeq(mqsa.pooled, 1, mqsa.committed \div BlockTokens)
                      = Blocks(MtpRowsOf(session))
        <3> DEFINE r == MtpRowsOf(session)  n == Len(session) - 1
                   T == Seq(Tokens) \X Tokens
        <3>1. n \in Nat /\ mqsa.committed = n
            <4>1. One(session # <<>>) = 1
                BY <2>5 DEF One
            <4>2. Len(session) \in Nat /\ Len(session) # 0
                BY <2>1, <2>5, EmptySeq
            <4>3. QED
                BY <2>2, <4>1, <4>2
        <3>2. r \in Seq(T) /\ Len(r) = n
            <4>1. \A i \in 1..n : <<SubSeq(session, 1, i), session[i + 1]>> \in T
                <5>1. TAKE i \in 1..n
                <5>2. i \in 0..Len(session) /\ i + 1 \in 1..Len(session)
                    BY <2>1, <3>1
                <5>3. SubSeq(session, 1, i) \in Seq(Tokens)
                    BY <2>1, <5>2, FirstFacts
                <5>4. session[i + 1] \in Tokens
                    BY <2>1, <5>2, ElementOfSeq
                <5>5. QED
                    BY <5>3, <5>4
            <4>2. r = [i \in 1..n |-> <<SubSeq(session, 1, i), session[i + 1]>>]
                BY DEF MtpRowsOf
            <4> HIDE DEF r, n, T
            <4>3. r \in [1..n -> T] /\ DOMAIN r = 1..n
                BY <4>1, <4>2
            <4>4. r \in Seq(T)
                BY <3>1, <4>3, IsASeq
            <4>5. QED
                BY <3>1, <4>3, <4>4, LenProperties
        <3> HIDE DEF r, n, T
        <3>3. Holds(mqsa, r, Len(r))
            BY <2>2, <3>1, <3>2 DEF r
        <3>4. SubSeq(mqsa.keys, 1, Len(r)) = r
              /\ SubSeq(mqsa.pooled, 1, Len(r) \div BlockTokens) = Blocks(r)
            BY <2>3, <3>2, <3>3, HoldsFirst
        <3>5. QED
            BY <3>1, <3>2, <3>4 DEF r, n
    <2>6. QED
        BY <2>2, <2>4, <2>5
<1>2. StageInv => DraftStateFollowsTarget
    BY <1>1 DEF DraftStateFollowsTarget
<1>3. QED
    BY <1>2, StageInvariant, PTL
=============================================================================
