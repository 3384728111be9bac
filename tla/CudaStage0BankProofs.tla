----------------------- MODULE CudaStage0BankProofs -------------------------
(***************************************************************************)
(* What the stage of CudaStage0 holds, what the executor sees of it, and    *)
(* when its calls fail.                                                    *)
(*                                                                         *)
(* CudaStage0Proofs follows the rows from the reader to the two recurrent  *)
(* banks.  StateInv adds the rest of the stage: that the backend's record  *)
(* and the three banks open and close a transaction together, and that the *)
(* QSA array, which speculation overwrites in place, begins with the keys  *)
(* of the session and of what went through the kernels since, each of its  *)
(* complete blocks pooled.  Stored is the part that needs an argument: a   *)
(* store at the end of a stored prefix leaves a longer one (StoredStore),  *)
(* because the blocks below the first one touched do not change and the    *)
(* others are pooled again, and what is stored holds for every shorter     *)
(* prefix (StoredPrefix), which is what a rollback falls back on.          *)
(*                                                                         *)
(* From StateInv every step is one call of the reference backend or is     *)
(* invisible to it.  HealthInv adds what holds without faults: a read      *)
(* delivers all its tiles unless it is cancelled, whatever the executor    *)
(* asks for is accepted, and the two recurrent banks flip together, so that*)
(* decoding meets two pairs of working banks and no third.                 *)
(*                                                                         *)
(* Everything here has the hypothesis TilesFitChunks; without it an append *)
(* of several chunks fails at its first tile that straddles two.           *)
(***************************************************************************)
EXTENDS CudaStage0Proofs, FiniteSetTheorems

-----------------------------------------------------------------------------
(* The QSA array.                                                          *)

\* The complete blocks of a positions end at or before a.
LEMMA DivFacts ==
    ASSUME NEW a \in Nat
    PROVE  /\ BlockTokens \in Nat /\ BlockTokens >= 1
           /\ a \div BlockTokens \in Nat
           /\ (a \div BlockTokens) * BlockTokens <= a
           /\ \A b \in Nat : a <= b => a \div BlockTokens <= b \div BlockTokens
           /\ \A i \in 1..a \div BlockTokens :
                (i - 1) * BlockTokens \in Nat /\ i * BlockTokens \in Nat /\ i * BlockTokens <= a
                /\ i * BlockTokens = (i - 1) * BlockTokens + BlockTokens
<1>1. BlockTokens \in Nat /\ BlockTokens >= 1
    BY BlockAssumption
<1>2. ASSUME NEW c \in Nat
      PROVE  /\ c \div BlockTokens \in Nat
             /\ (c \div BlockTokens) * BlockTokens <= c
             /\ c < (c \div BlockTokens) * BlockTokens + BlockTokens
    <2>1. c = BlockTokens * (c \div BlockTokens) + (c % BlockTokens) /\ c % BlockTokens \in 0..BlockTokens - 1
          /\ c \div BlockTokens \in Int
        BY <1>1
    <2>2. c \div BlockTokens \in Nat
        BY <1>1, <2>1
    <2>3. QED
        BY <1>1, <2>1, <2>2
<1>3. ASSUME NEW b \in Nat, a <= b PROVE a \div BlockTokens <= b \div BlockTokens
    <2> DEFINE p == a \div BlockTokens  q == b \div BlockTokens
    <2>1. p \in Nat /\ q \in Nat /\ p * BlockTokens <= a /\ b < q * BlockTokens + BlockTokens
        BY <1>2
    <2> HIDE DEF p, q
    <2>2. ASSUME p > q PROVE FALSE
        <3>1. p * BlockTokens >= (q + 1) * BlockTokens
            BY <1>1, <2>1, <2>2
        <3>2. (q + 1) * BlockTokens = q * BlockTokens + BlockTokens
            BY <1>1, <2>1
        <3>3. QED
            BY <1>1, <1>3, <2>1, <3>1, <3>2
    <2>3. p <= q
        BY <2>1, <2>2
    <2>4. QED
        BY <2>3 DEF p, q
<1>4. ASSUME NEW i \in 1..a \div BlockTokens
      PROVE  /\ (i - 1) * BlockTokens \in Nat /\ i * BlockTokens \in Nat /\ i * BlockTokens <= a
             /\ i * BlockTokens = (i - 1) * BlockTokens + BlockTokens
    <2> DEFINE p == a \div BlockTokens
    <2>1. p \in Nat /\ p * BlockTokens <= a /\ i \in 1..p
        BY <1>2
    <2> HIDE DEF p
    <2>2. i - 1 \in Nat /\ i \in Nat /\ i <= p
        BY <2>1
    <2>3. i * BlockTokens <= p * BlockTokens
        BY <1>1, <2>1, <2>2
    <2>4. QED
        BY <1>1, <2>1, <2>2, <2>3
<1>5. QED
    BY <1>1, <1>2, <1>3, <1>4

\* The first rows of a sequence.
LEMMA PrefixFacts ==
    ASSUME NEW S, NEW r \in Seq(S), NEW m \in 0..Len(r)
    PROVE  /\ SubSeq(r, 1, m) \in Seq(S) /\ Len(SubSeq(r, 1, m)) = m
           /\ \A i \in 1..m : SubSeq(r, 1, m)[i] = r[i]
           /\ \A n \in 0..m : SubSeq(SubSeq(r, 1, m), 1, n) = SubSeq(r, 1, n)
           /\ m = Len(r) => SubSeq(r, 1, m) = r
<1>1. m \in Nat /\ Len(r) \in Nat /\ m <= Len(r)
    OBVIOUS
<1> DEFINE v == SubSeq(r, 0 + 1, 0 + m)
<1>2. 0 + m <= Len(r) /\ 0 + 0 <= m /\ 0 \in Nat
    BY <1>1
<1>3. v \in Seq(S) /\ Len(v) = m /\ \A i \in 1..m : v[i] = r[0 + i]
    BY <1>1, <1>2, PartOfPart
<1>4. ASSUME NEW n \in 0..m PROVE SubSeq(v, 1, n) = SubSeq(r, 1, n)
    <2>1. n \in Nat /\ 0 + n <= m
        BY <1>1
    <2>2. SubSeq(v, 0 + 1, 0 + n) = SubSeq(r, 0 + 0 + 1, 0 + 0 + n)
        BY <1>1, <1>2, <2>1, PartOfPart
    <2> HIDE DEF v
    <2>3. QED
        BY <2>1, <2>2
<1>5. v = SubSeq(r, 1, m)
    BY <1>1
<1> HIDE DEF v
<1>6. \A i \in 1..m : v[i] = r[i]
    BY <1>1, <1>3
<1>7. m = Len(r) => v = r
    BY <1>3, <1>6, SeqEqual
<1>8. QED
    BY <1>3, <1>4, <1>5, <1>6, <1>7

\* The blocks of a sequence are parts of it.
LEMMA BlocksFacts ==
    ASSUME NEW S, NEW s \in Seq(S)
    PROVE  /\ Blocks(s) \in Seq(Seq(S)) /\ Len(Blocks(s)) = Len(s) \div BlockTokens
           /\ \A i \in 1..Len(s) \div BlockTokens :
                Blocks(s)[i] = SubSeq(s, (i - 1) * BlockTokens + 1, i * BlockTokens)
<1> DEFINE d == Len(s) \div BlockTokens
<1>1. d \in Nat /\ Len(s) \in Nat
    BY DivFacts
<1>2. \A i \in 1..d : Blocks(s)[i] = SubSeq(s, (i - 1) * BlockTokens + 1, i * BlockTokens)
    BY DEF Blocks
<1>3. ASSUME NEW i \in 1..d PROVE Blocks(s)[i] \in Seq(S)
    <2> DEFINE a == (i - 1) * BlockTokens  v == SubSeq(s, a + 1, a + BlockTokens)
    <2>1. a \in Nat /\ BlockTokens \in Nat /\ a + BlockTokens <= Len(s) /\ a + BlockTokens = i * BlockTokens
        BY <1>1, DivFacts
    <2> HIDE DEF a
    <2>2. 0 \in Nat /\ 0 + 0 <= BlockTokens
        BY <2>1
    <2>3. v \in Seq(S)
        BY <2>1, <2>2, PartOfPart
    <2>4. QED
        BY <1>2, <2>1, <2>3 DEF a
<1>4. Blocks(s) \in [1..d -> Seq(S)]
    BY <1>3 DEF Blocks
<1> HIDE DEF d
<1>5. Blocks(s) \in Seq(Seq(S)) /\ Len(Blocks(s)) = d
    BY <1>1, <1>4, LenProperties
<1>6. QED
    BY <1>2, <1>5 DEF d

\* The blocks of the first rows are the first blocks.
LEMMA BlocksPrefix ==
    ASSUME NEW S, NEW s \in Seq(S), NEW m \in 0..Len(s)
    PROVE  /\ m \div BlockTokens \in 0..Len(Blocks(s))
           /\ Blocks(SubSeq(s, 1, m)) = SubSeq(Blocks(s), 1, m \div BlockTokens)
<1> DEFINE v == SubSeq(s, 1, m)  d == m \div BlockTokens  e == Len(s) \div BlockTokens
           x == Blocks(v)  y == SubSeq(Blocks(s), 1, d)
<1>1. m \in Nat /\ Len(s) \in Nat /\ m <= Len(s)
    OBVIOUS
<1>2. v \in Seq(S) /\ Len(v) = m
    BY PrefixFacts
<1>3. d \in Nat /\ e \in Nat /\ d <= e
    BY <1>1, DivFacts
<1>4. /\ Blocks(s) \in Seq(Seq(S)) /\ Len(Blocks(s)) = e
      /\ \A i \in 1..e : Blocks(s)[i] = SubSeq(s, (i - 1) * BlockTokens + 1, i * BlockTokens)
    BY BlocksFacts
<1>5. /\ x \in Seq(Seq(S)) /\ Len(x) = d
      /\ \A i \in 1..d : x[i] = SubSeq(v, (i - 1) * BlockTokens + 1, i * BlockTokens)
    <2> HIDE DEF v
    <2>1. /\ x \in Seq(Seq(S)) /\ Len(x) = Len(v) \div BlockTokens
          /\ \A i \in 1..Len(v) \div BlockTokens : x[i] = SubSeq(v, (i - 1) * BlockTokens + 1, i * BlockTokens)
        BY <1>2, BlocksFacts
    <2>2. QED
        BY <1>2, <2>1
<1>6. d \in 0..Len(Blocks(s)) /\ y \in Seq(Seq(S)) /\ Len(y) = d /\ \A i \in 1..d : y[i] = Blocks(s)[i]
    <2> HIDE DEF d, e
    <2>1. d \in 0..Len(Blocks(s))
        BY <1>3, <1>4
    <2>2. QED
        BY <1>4, <2>1, PrefixFacts
<1>7. ASSUME NEW i \in 1..d PROVE x[i] = y[i]
    <2> DEFINE a == (i - 1) * BlockTokens  b == i * BlockTokens  k == BlockTokens
    <2>1. a \in Nat /\ k \in Nat /\ a + k <= m /\ b = a + k
        BY <1>1, DivFacts
    <2>2. i \in 1..e
        BY <1>3
    <2>3. x[i] = SubSeq(v, a + 1, b) /\ y[i] = SubSeq(s, a + 1, b)
        BY <1>4, <1>5, <1>6, <2>2
    <2> HIDE DEF a, b, k, x, y, d, e
    <2> DEFINE w == SubSeq(s, 0 + 1, 0 + m)
    <2>4. 0 + m <= Len(s) /\ 0 \in Nat
        BY <1>1
    <2>5. SubSeq(w, a + 1, a + k) = SubSeq(s, 0 + a + 1, 0 + a + k)
        BY <1>1, <2>1, <2>4, PartOfPart
    <2>6. w = v
        BY <1>1
    <2> HIDE DEF w, v
    <2>7. QED
        BY <2>1, <2>3, <2>5, <2>6
<1> HIDE DEF x, y
<1>8. x = y
    BY <1>5, <1>6, <1>7, SeqEqual
<1>9. QED
    BY <1>6, <1>8 DEF x, y, v

\* An array that holds s holds its prefixes.
LEMMA StoredPrefix ==
    ASSUME NEW q \in QsaRecords, NEW s \in Seq(Tokens), Stored(q, s), NEW m \in 0..Len(s)
    PROVE  Stored(q, SubSeq(s, 1, m))
<1> DEFINE v == SubSeq(s, 1, m)  d == m \div BlockTokens  e == Len(s) \div BlockTokens
           K == q.keys  P == q.pooled
<1>1. m \in Nat /\ Len(s) \in Nat /\ m <= Len(s) /\ v \in Seq(Tokens) /\ Len(v) = m
    BY PrefixFacts
<1>2. d \in Nat /\ e \in Nat /\ d <= e
    BY <1>1, DivFacts
<1>3. /\ Len(s) <= Len(K) /\ SubSeq(K, 1, Len(s)) = s /\ e <= Len(P) /\ SubSeq(P, 1, e) = Blocks(s)
      /\ K \in Seq(Tokens) /\ P \in Seq(Seq(Tokens)) /\ Len(K) \in Nat /\ Len(P) \in Nat
    BY DEF Stored, QsaRecords
<1>4. Blocks(v) = SubSeq(Blocks(s), 1, d)
    BY BlocksPrefix
<1> HIDE DEF d, e, K, P
<1>5. SubSeq(K, 1, m) = v
    <2>1. Len(s) \in 0..Len(K) /\ m \in 0..Len(s)
        BY <1>1, <1>3
    <2>2. SubSeq(SubSeq(K, 1, Len(s)), 1, m) = SubSeq(K, 1, m)
        BY <1>3, <2>1, PrefixFacts
    <2>3. QED
        BY <1>3, <2>2
<1>6. SubSeq(P, 1, d) = Blocks(v)
    <2>1. e \in 0..Len(P) /\ d \in 0..e
        BY <1>2, <1>3
    <2>2. SubSeq(SubSeq(P, 1, e), 1, d) = SubSeq(P, 1, d)
        BY <1>3, <2>1, PrefixFacts
    <2>3. QED
        BY <1>3, <1>4, <2>2
<1>7. m <= Len(K) /\ d <= Len(P)
    BY <1>1, <1>2, <1>3
<1> HIDE DEF v
<1>8. Stored(q, v)
    BY <1>1, <1>5, <1>6, <1>7 DEF Stored, d, K, P
<1>9. QED
    BY <1>8 DEF v

\* The front of a concatenation.
LEMMA FrontOf ==
    ASSUME NEW S, NEW u \in Seq(S), NEW w \in Seq(S)
    PROVE  u \o w \in Seq(S) /\ Len(u) <= Len(u \o w) /\ SubSeq(u \o w, 1, Len(u)) = u
<1> DEFINE x == u \o w
<1>1. /\ x \in Seq(S) /\ Len(x) = Len(u) + Len(w) /\ Len(u) \in Nat /\ Len(w) \in Nat
      /\ \A i \in 1..Len(u) + Len(w) : x[i] = IF i <= Len(u) THEN u[i] ELSE w[i - Len(u)]
    BY ConcatProperties
<1> HIDE DEF x
<1>2. Len(u) \in 0..Len(x) /\ Len(u) <= Len(x)
    BY <1>1
<1> DEFINE y == SubSeq(x, 1, Len(u))
<1>3. y \in Seq(S) /\ Len(y) = Len(u) /\ \A i \in 1..Len(u) : y[i] = x[i]
    BY <1>1, <1>2, PrefixFacts
<1> HIDE DEF y
<1>4. \A i \in 1..Len(u) : y[i] = u[i]
    BY <1>1, <1>3
<1>5. y = u
    BY <1>3, <1>4, SeqEqual
<1>6. QED
    BY <1>1, <1>2, <1>5 DEF x, y

\* Overwriting from p on leaves what lies before p.
LEMMA OverwriteFacts ==
    ASSUME NEW S, NEW s \in Seq(S), NEW t \in Seq(S), NEW p \in 0..Len(s)
    PROVE  LET n == p + Len(t) IN
           /\ Overwrite(s, p, t) \in Seq(S) /\ n <= Len(Overwrite(s, p, t))
           /\ SubSeq(Overwrite(s, p, t), 1, n) = SubSeq(s, 1, p) \o t
<1> DEFINE a == SubSeq(s, 1, p)  z == SubSeq(s, p + Len(t) + 1, Len(s))  u == a \o t
<1>1. a \in Seq(S) /\ Len(a) = p /\ p \in Nat /\ Len(s) \in Nat /\ Len(t) \in Nat
    BY PrefixFacts
<1>2. z \in Seq(S)
    <2>1. p + Len(t) + 1 \in Nat /\ p + Len(t) + 1 >= 1
        BY <1>1
    <2>2. \A i \in p + Len(t) + 1..Len(s) : s[i] \in S
        BY <1>1
    <2>3. QED
        BY <1>1, <2>1, <2>2, SubSeqProperties
<1> HIDE DEF a, z
<1>3. u \in Seq(S) /\ Len(u) = p + Len(t)
    BY <1>1, ConcatProperties
<1> HIDE DEF u
<1>4. u \o z \in Seq(S) /\ Len(u) <= Len(u \o z) /\ SubSeq(u \o z, 1, Len(u)) = u
    BY <1>2, <1>3, FrontOf
<1>5. Overwrite(s, p, t) = u \o z
    BY DEF Overwrite, u, a, z
<1>6. QED
    BY <1>3, <1>4, <1>5 DEF u, a

\* What a tile adds to the array.
LEMMA StoredStore ==
    ASSUME NEW q \in QsaRecords, NEW s \in Seq(Tokens), Stored(q, s), NEW t \in Seq(Tokens)
    PROVE  LET c == QsaStore(q, Len(s), t) IN
           /\ c \in QsaRecords /\ Stored(c, s \o t)
           /\ c.committed = q.committed /\ c.active = q.active /\ c.epoch = q.epoch
           /\ c.evaluated = q.evaluated
<1> DEFINE n == Len(s)  u == s \o t  end == n + Len(t)  b == n \div BlockTokens  d == end \div BlockTokens
           K == Overwrite(q.keys, n, t)
           f == SubSeq(Blocks(SubSeq(K, 1, end)), b + 1, d)
           P == Overwrite(q.pooled, b, f)
           c == [q EXCEPT !.keys = K, !.pooled = P]
<1>1. QsaStore(q, n, t) = c
    BY DEF QsaStore
<1>2. /\ q.keys \in Seq(Tokens) /\ q.pooled \in Seq(Seq(Tokens)) /\ n \in Nat /\ Len(t) \in Nat
      /\ n <= Len(q.keys) /\ SubSeq(q.keys, 1, n) = s
      /\ b <= Len(q.pooled) /\ SubSeq(q.pooled, 1, b) = Blocks(s)
      /\ Len(q.keys) \in Nat /\ Len(q.pooled) \in Nat
    BY DEF Stored, QsaRecords
<1>3. u \in Seq(Tokens) /\ Len(u) = end /\ n <= end /\ end \in Nat /\ SubSeq(u, 1, n) = s
    BY <1>2, ConcatProperties, FrontOf
<1>4. b \in Nat /\ d \in Nat /\ b <= d
    BY <1>2, <1>3, DivFacts
<1>5. K \in Seq(Tokens) /\ end <= Len(K) /\ SubSeq(K, 1, end) = u
    <2> DEFINE k == q.keys  m == n
    <2>1. m \in 0..Len(k) /\ k \in Seq(Tokens) /\ t \in Seq(Tokens)
        BY <1>2
    <2> HIDE DEF k, m
    <2>2. /\ Overwrite(k, m, t) \in Seq(Tokens) /\ m + Len(t) <= Len(Overwrite(k, m, t))
          /\ SubSeq(Overwrite(k, m, t), 1, m + Len(t)) = SubSeq(k, 1, m) \o t
        BY <2>1, OverwriteFacts
    <2>3. QED
        BY <1>2, <2>2 DEF k, m
<1> HIDE DEF K
<1>6. /\ Blocks(u) \in Seq(Seq(Tokens)) /\ Len(Blocks(u)) = d
      /\ Blocks(s) = SubSeq(Blocks(u), 1, b)
    <2> HIDE DEF u, n, end, b, d
    <2>1. n \in 0..Len(u)
        BY <1>2, <1>3
    <2>2. Blocks(u) \in Seq(Seq(Tokens)) /\ Len(Blocks(u)) = Len(u) \div BlockTokens
        BY <1>3, BlocksFacts
    <2>3. Blocks(SubSeq(u, 1, n)) = SubSeq(Blocks(u), 1, n \div BlockTokens)
        BY <1>3, <2>1, BlocksPrefix
    <2>4. QED
        BY <1>3, <2>2, <2>3 DEF b, d
<1>7. f = SubSeq(Blocks(u), b + 1, d)
    BY <1>5
<1> HIDE DEF f, u
<1>8. /\ f \in Seq(Seq(Tokens)) /\ Len(f) = d - b /\ SubSeq(Blocks(u), 1, b) \o f = Blocks(u)
    <2> DEFINE B == Blocks(u)  l == d - b
    <2>1. B \in Seq(Seq(Tokens)) /\ Len(B) = d /\ f = SubSeq(B, b + 1, d)
        BY <1>6, <1>7
    <2> HIDE DEF B, b, d
    <2>2. l \in Nat /\ b + l = d /\ b + l <= Len(B) /\ 0 \in Nat /\ 0 + 0 <= l /\ d \in 0..Len(B) /\ d = Len(B)
        BY <1>4, <2>1
    <2> HIDE DEF l
    <2>3. f = SubSeq(B, b + 1, b + l)
        BY <2>1, <2>2
    <2>4. f \in Seq(Seq(Tokens)) /\ Len(f) = l
        BY <1>4, <2>1, <2>2, <2>3, PartOfPart
    <2>5. SubSeq(B, 1, b) \o SubSeq(B, b + 1, b + l) = SubSeq(B, 1, b + l)
        BY <1>4, <2>1, <2>2, PrefixGrows
    <2>6. SubSeq(B, 1, d) = B
        BY <2>1, <2>2, PrefixFacts
    <2>7. QED
        BY <2>2, <2>3, <2>4, <2>5, <2>6 DEF B, l
<1>9. P \in Seq(Seq(Tokens)) /\ d <= Len(P) /\ SubSeq(P, 1, d) = Blocks(u)
    <2> HIDE DEF b, d
    <2>1. b \in 0..Len(q.pooled) /\ b + Len(f) = d
        BY <1>2, <1>4, <1>8
    <2>2. /\ P \in Seq(Seq(Tokens)) /\ b + Len(f) <= Len(P)
          /\ SubSeq(P, 1, b + Len(f)) = SubSeq(q.pooled, 1, b) \o f
        BY <1>2, <1>8, <2>1, OverwriteFacts
    <2>3. QED
        BY <1>2, <1>6, <1>8, <2>1, <2>2
<1> HIDE DEF P
<1>10. /\ c \in QsaRecords /\ c.keys = K /\ c.pooled = P
       /\ c.committed = q.committed /\ c.active = q.active /\ c.epoch = q.epoch
       /\ c.evaluated = q.evaluated
    BY <1>5, <1>9 DEF QsaRecords
<1> HIDE DEF c
<1>11. Stored(c, u)
    BY <1>3, <1>5, <1>9, <1>10 DEF Stored
<1>12. QED
    BY <1>1, <1>10, <1>11 DEF u

\* After the last tile the bank notes how much was evaluated.
LEMMA MarkFacts ==
    \A q \in QsaRecords : \A n \in Nat :
        /\ QsaMark(q, n) \in QsaRecords
        /\ QsaMark(q, n).keys = q.keys /\ QsaMark(q, n).pooled = q.pooled
        /\ QsaMark(q, n).committed = q.committed /\ QsaMark(q, n).active = q.active
        /\ QsaMark(q, n).epoch = q.epoch /\ QsaMark(q, n).evaluated = n
    BY DEF QsaMark, QsaRecords

\* The commit of n keys only moves the bank's end.
LEMMA KeptKeys ==
    ASSUME NEW q \in QsaRecords, NEW n \in Nat
    PROVE  /\ QsaCommit(q, n) \in QsaRecords
           /\ QsaCommit(q, n).keys = q.keys /\ QsaCommit(q, n).pooled = q.pooled
           /\ QsaCommit(q, n).committed = q.committed + n /\ QsaCommit(q, n).active = FALSE
<1>1. ASSUME NEW m \in Nat
      PROVE  LET c == [q EXCEPT !.committed = m, !.active = FALSE, !.epoch = 0, !.evaluated = 0] IN
             /\ c \in QsaRecords /\ c.keys = q.keys /\ c.pooled = q.pooled
             /\ c.committed = m /\ c.active = FALSE
    BY DEF QsaRecords
<1>2. q.committed + n \in Nat
    BY DEF QsaRecords
<1>3. QED
    BY <1>1, <1>2 DEF QsaCommit

\* The beginning and the end of a transaction leave both arrays as they are.
LEMMA QsaFacts ==
    ASSUME NEW q \in QsaRecords, NEW e \in Nat
    PROVE  /\ \A c \in {QsaBegin(q, e), QsaRollback(q), QsaReset(q)} :
                c \in QsaRecords /\ c.keys = q.keys /\ c.pooled = q.pooled
           /\ LET c == QsaBegin(q, e) IN
              c.committed = q.committed /\ c.active = TRUE /\ c.epoch = e /\ c.evaluated = 0
           /\ QsaRollback(q).committed = q.committed /\ QsaRollback(q).active = FALSE
           /\ QsaReset(q).committed = 0 /\ QsaReset(q).active = q.active
<1>1. LET c == QsaBegin(q, e) IN
      /\ c \in QsaRecords /\ c.keys = q.keys /\ c.pooled = q.pooled
      /\ c.committed = q.committed /\ c.active = TRUE /\ c.epoch = e /\ c.evaluated = 0
    BY DEF QsaBegin, QsaRecords
<1>2. LET c == QsaRollback(q) IN
      /\ c \in QsaRecords /\ c.keys = q.keys /\ c.pooled = q.pooled
      /\ c.committed = q.committed /\ c.active = FALSE
    BY DEF QsaRollback, QsaRecords
<1>3. LET c == QsaReset(q) IN
      /\ c \in QsaRecords /\ c.keys = q.keys /\ c.pooled = q.pooled
      /\ c.committed = 0 /\ c.active = q.active
    BY DEF QsaReset, QsaRecords
<1>4. QED
    BY <1>1, <1>2, <1>3

\* What is stored depends on the two arrays only, and the empty sequence always is.
LEMMA StoredFrame ==
    /\ \A q, c, s : Stored(q, s) /\ c.keys = q.keys /\ c.pooled = q.pooled => Stored(c, s)
    /\ \A q \in QsaRecords : Stored(q, <<>>)
<1>1. \A q, c, s : Stored(q, s) /\ c.keys = q.keys /\ c.pooled = q.pooled => Stored(c, s)
    BY DEF Stored
<1>2. ASSUME NEW q \in QsaRecords PROVE Stored(q, <<>>)
    <2> DEFINE e == <<>>
    <2>1. e \in Seq(Tokens) /\ Len(e) = 0 /\ 0 \div BlockTokens = 0
        BY BlockAssumption
    <2>2. Blocks(e) \in Seq(Seq(Tokens)) /\ Len(Blocks(e)) = 0
        BY <2>1, BlocksFacts
    <2>3. Blocks(e) = <<>>
        BY <2>2, EmptySeq
    <2>4. q.keys \in Seq(Tokens) /\ q.pooled \in Seq(Seq(Tokens)) /\ Len(q.keys) \in Nat /\ Len(q.pooled) \in Nat
        BY DEF QsaRecords
    <2>5. SubSeq(q.keys, 1, 0) = <<>> /\ SubSeq(q.pooled, 1, 0) = <<>>
        <3>1. 0 \in 0..Len(q.keys) /\ 0 \in 0..Len(q.pooled)
            BY <2>4
        <3>2. SubSeq(q.keys, 1, 0) \in Seq(Tokens) /\ Len(SubSeq(q.keys, 1, 0)) = 0
            BY <2>4, <3>1, PrefixFacts
        <3>3. SubSeq(q.pooled, 1, 0) \in Seq(Seq(Tokens)) /\ Len(SubSeq(q.pooled, 1, 0)) = 0
            BY <2>4, <3>1, PrefixFacts
        <3>4. QED
            BY <3>2, <3>3, EmptySeq
    <2>6. Blocks(e) = e /\ SubSeq(q.keys, 1, 0) = e /\ SubSeq(q.pooled, 1, 0) = e
        BY <2>3, <2>5
    <2> HIDE DEF e
    <2>7. Stored(q, e)
        BY <2>1, <2>4, <2>6 DEF Stored
    <2>8. QED
        BY <2>7 DEF e
<1>3. QED
    BY <1>1, <1>2

-----------------------------------------------------------------------------
(* StateInv, step by step.                                                 *)

\* The fields of the backend that a read is not one of.
LEMMA SameBe ==
    ASSUME be' = be \/ (be \in BeRecords /\ be' = ReadOver)
    PROVE  SameButRead(be', be)
    BY OverFacts DEF SameButRead

\* A step that touches no bank and, of the backend, only the read.
LEMMA StateFrame ==
    ASSUME StateInv, RowsInv', UNCHANGED <<session, txn, off, gdn, ple, qsa>>, SameButRead(be', be),
           \/ ~Good'
           \/ Good /\ (pc \in Executing <=> pc' \in Executing) /\ (pc \in Executing => tile' = tile)
    PROVE  StateInv'
<1>1. OpenInStep /\ KeysInStep
    BY DEF StateInv
<1>2. UNCHANGED <<TokensGiven, ChunkLen>>
    BY DEF TokensGiven, ChunkLen
<1>3. /\ be'.frontier = be.frontier /\ be'.prov = be.prov /\ be'.base = be.base
      /\ be'.expected = be.expected /\ be'.processed = be.processed /\ be'.ckpt = be.ckpt
      /\ be'.kind = be.kind /\ be'.active = be.active /\ be'.toks = be.toks
    BY DEF SameButRead
<1>4. Good' => Good /\ Done' = Done /\ (pc \in Executing <=> pc' \in Executing)
    BY DEF Done
<1>5. InTxn(gdn)' /\ InTxn(ple)' /\ InTxn(qsa)'
    BY <1>1, <1>3 DEF OpenInStep, InTxn
<1>6. OpenInStep'
    BY <1>1, <1>2, <1>3, <1>4, <1>5 DEF OpenInStep
<1>7. KeysInStep'
    BY <1>1, <1>2, <1>3, <1>4 DEF KeysInStep
<1>8. QED
    BY <1>6, <1>7 DEF StateInv

\* The reader moves, a token is tripped, a call is made or gives up.
LEMMA QuietState ==
    ASSUME StateInv, RowsInv',
           \/ Trip \/ NextChunk \/ TileTop \/ Reset \/ Drain \/ Rethrow \/ Reader \/ Take \/ TakeFinal
           \/ UNCHANGED cudaVars
    PROVE  StateInv'
<1>0. ReaderInv /\ be \in BeRecords
    BY DEF StateInv, RowsInv, ReaderInv, CallInStep
<1>1. UNCHANGED <<session, txn, off, gdn, ple, qsa, tile>>
    BY DEF Trip, NextChunk, TileTop, Reset, Drain, Rethrow, Reader, ReaderPick, ReaderRoom,
           ReaderRead, ReaderFinish, Take, TakeFinal, driverVars, bankVars, cudaVars
<1>2. SameButRead(be', be)
    <2>1. be' = be \/ be' = ReadOver
        BY DEF Trip, NextChunk, TileTop, Reset, Drain, Rethrow, Reader, ReaderPick, ReaderRoom,
               ReaderRead, ReaderFinish, Take, TakeFinal, cudaVars
    <2>2. QED
        BY <1>0, <2>1, SameBe
<1>3. CASE UNCHANGED <<pc, last>>
    BY <1>1, <1>2, <1>3, StateFrame DEF Good
<1>4. CASE NextChunk
    <2>1. pc = "idle" /\ pc' = "enter" /\ last' = last
        BY <1>4 DEF NextChunk, MayGoOn, driverVars
    <2>2. QED
        BY <1>1, <1>2, <2>1, Places, StateFrame DEF Good
<1>5. CASE TileTop \/ Take \/ TakeFinal
    <2>1. pc \in Executing /\ (pc' \in Executing \/ pc' \in Catching) /\ last' = last
        BY <1>5, Places DEF TileTop, Take, TakeFinal, Catch
    <2>2. QED
        BY <1>1, <1>2, <2>1, Places, StateFrame DEF Good
<1>6. CASE Reset \/ Rethrow
    <2>1. pc' = "reset" \/ last' # "ok"
        BY <1>6 DEF Reset, Rethrow, ReturnCancelled, ReturnFailed
    <2>2. ~Good'
        BY <2>1, Places DEF Good
    <2>3. QED
        BY <1>1, <1>2, <2>2, StateFrame
<1>7. CASE Trip \/ Drain \/ Reader \/ UNCHANGED cudaVars
    <2>1. UNCHANGED <<pc, last>>
        BY <1>7 DEF Trip, Drain, Reader, ReaderPick, ReaderRoom, ReaderRead, ReaderFinish,
                    driverVars, cudaVars
    <2>2. QED
        BY <1>3, <2>1
<1>8. QED
    BY <1>4, <1>5, <1>6, <1>7

\* The read-ahead is all that prefetch_transaction adds.
LEMMA PrefetchSame ==
    ASSUME ReaderInv, Prefetch
    PROVE  SameButRead(be', be)
<1> DEFINE rows == HashRows(be.hash, txn.toks)
           new == [on |-> TRUE, epoch |-> txn.epoch, base |-> 0, rows |-> rows]
<1>0. be \in BeRecords
    BY DEF ReaderInv, CallInStep
<1>1. be' = be \/ be' = [be EXCEPT !.read = new]
    BY DEF Prefetch
<1>2. be.hash \in Pairs /\ txn.toks \in Seq(Tokens) /\ txn.epoch \in Nat
    BY <1>0, Typing DEF BeRecords
<1>3. rows \in Seq(Rows)
    BY <1>2, HashTypes
<1>4. new \in ReadRecords
    BY <1>2, <1>3 DEF ReadRecords
<1> HIDE DEF new
<1>5. be' = [be EXCEPT !.read = new] => SameButRead(be', be)
    BY <1>0, <1>4, BeRead
<1>6. QED
    BY <1>1, <1>5 DEF SameButRead

\* prefetch_transaction touches no bank.
LEMMA PrefetchState ==
    ASSUME StateInv, RowsInv', Prefetch
    PROVE  StateInv'
<1>0. ReaderInv
    BY DEF StateInv, RowsInv
<1>1. pc = "prefetch" /\ pc' = "idle" /\ UNCHANGED <<session, txn, off, gdn, ple, qsa, tile>>
    BY DEF Prefetch, bankVars, Return, ReturnFailed, ReturnCancelled
<1>2. SameButRead(be', be)
    BY <1>0, PrefetchSame
<1>3. Good /\ pc \notin Executing /\ pc' \notin Executing
    BY <1>0, <1>1, Places DEF Good, ReaderInv, CallInStep
<1>4. QED
    BY <1>1, <1>2, <1>3, StateFrame

\* The executor begins a transaction; the backend learns of it with the first chunk.
LEMMA BeginState ==
    ASSUME StateInv, RowsInv', NEW kind, NEW toks, Begin(kind, toks)
    PROVE  StateInv'
<1>1. /\ pc = "idle" /\ txn = NoTxn /\ off' = 0 /\ UNCHANGED <<session, be, gdn, ple, qsa>>
    BY DEF Begin, bankVars
<1>2. be.prov = 0 /\ OpenInStep /\ KeysInStep
    BY <1>1 DEF StateInv, RowsInv, ReaderInv, CallInStep
<1>3. InTxn(gdn)' /\ InTxn(ple)' /\ InTxn(qsa)'
    BY <1>1, <1>2 DEF OpenInStep, InTxn
<1>4. OpenInStep'
    BY <1>1, <1>2, <1>3 DEF OpenInStep
<1>5. KeysInStep'
    BY <1>1, <1>2 DEF KeysInStep
<1>6. QED
    BY <1>4, <1>5 DEF StateInv

\* checkpoint_speculative_prefix copies the two recurrent banks and marks the row.
LEMMA CheckpointState ==
    ASSUME StateInv, RowsInv', Checkpoint
    PROVE  StateInv'
<1>0. OpenInStep /\ KeysInStep /\ BanksInStep /\ be \in BeRecords
    BY DEF StateInv, RowsInv, ReaderInv, CallInStep
<1>1. /\ pc = "idle" /\ be' = [be EXCEPT !.ckpt = off] /\ gdn' = BankCheckpoint(gdn)
      /\ ple' = BankCheckpoint(ple) /\ UNCHANGED <<session, txn, off, last, pc, tile, qsa>>
      /\ Good /\ off \in 1..Len(txn.toks) - 1
    BY Places DEF Checkpoint, MayGoOn, driverVars, Good
<1>2. /\ be'.frontier = be.frontier /\ be'.prov = be.prov /\ be'.base = be.base
      /\ be'.expected = be.expected /\ be'.processed = be.processed
      /\ be'.kind = be.kind /\ be'.active = be.active /\ be'.toks = be.toks
    BY <1>0, <1>1 DEF BeRecords
<1>3. /\ gdn'.valid /\ gdn'.active = gdn.active /\ gdn'.epoch = gdn.epoch
      /\ ple'.valid /\ ple'.active = ple.active /\ ple'.epoch = ple.epoch
    BY <1>0, <1>1, BankCheckpointFacts DEF BanksInStep
<1>4. be.prov # 0
    BY <1>0, <1>1 DEF OpenInStep
<1>5. InTxn(gdn)' /\ InTxn(ple)' /\ InTxn(qsa)'
    BY <1>0, <1>1, <1>2, <1>3 DEF OpenInStep, InTxn
<1>6. UNCHANGED <<TokensGiven, ChunkLen, Done, Good>>
    BY <1>1 DEF TokensGiven, ChunkLen, Done, Good
<1>7. OpenInStep'
    BY <1>0, <1>1, <1>2, <1>3, <1>4, <1>5, <1>6 DEF OpenInStep
<1>8. KeysInStep'
    BY <1>0, <1>1, <1>2, <1>6 DEF KeysInStep
<1>9. QED
    BY <1>7, <1>8 DEF StateInv

\* rollback closes all four; the array keeps what lies beyond its end.
LEMMA RollbackState ==
    ASSUME StateInv, RowsInv', Rollback
    PROVE  StateInv'
<1>0. OpenInStep /\ KeysInStep /\ BanksInStep /\ be \in BeRecords /\ txn.epoch \in Nat /\ ReaderInv
    BY Typing DEF StateInv, RowsInv, ReaderInv, CallInStep
<1>1. /\ be' = Closed(be, txn.epoch) /\ off' = 0 /\ session' = session
      /\ gdn' = IF be.prov # 0 /\ be.active THEN BankRollback(gdn) ELSE gdn
      /\ ple' = IF be.prov # 0 /\ be.active THEN BankRollback(ple) ELSE ple
      /\ qsa' = IF be.prov # 0 /\ be.active THEN QsaRollback(qsa) ELSE qsa
    BY DEF Rollback
<1>2. /\ be'.prov = 0 /\ be'.active = FALSE /\ be'.ckpt = 0 /\ be'.processed = 0 /\ be'.expected = 0
      /\ be'.kind = "invalid" /\ be'.toks = <<>> /\ be'.frontier = be.frontier
    BY <1>0, <1>1, ClosedFacts
<1>3. gdn'.active = FALSE /\ ple'.active = FALSE /\ qsa'.active = FALSE
    <2>1. CASE be.prov = 0
        BY <1>0, <1>1, <2>1 DEF OpenInStep, InTxn
    <2>2. CASE be.prov # 0
        <3>1. be.active
            BY <1>0, <2>2 DEF OpenInStep
        <3>2. gdn' = BankRollback(gdn) /\ ple' = BankRollback(ple) /\ qsa' = QsaRollback(qsa)
            BY <1>1, <2>2, <3>1
        <3>3. qsa'.active = FALSE
            BY <1>0, <3>2 DEF KeysInStep, QsaRollback, QsaRecords
        <3>4. gdn'.active = FALSE /\ ple'.active = FALSE
            BY <1>0, <3>2 DEF BanksInStep, BankRollback, Banks
        <3>5. QED
            BY <3>3, <3>4
    <2>3. QED
        BY <2>1, <2>2
<1>4. OpenInStep'
    BY <1>0, <1>1, <1>2, <1>3 DEF OpenInStep, InTxn
<1>5. qsa' \in QsaRecords /\ qsa'.keys = qsa.keys /\ qsa'.pooled = qsa.pooled /\ qsa'.committed = qsa.committed
    <2>1. qsa \in QsaRecords /\ 0 \in Nat
        BY <1>0 DEF KeysInStep
    <2>2. QED
        BY <1>1, <2>1, QsaFacts
<1>6. KeysInStep'
    BY <1>0, <1>1, <1>2, <1>5, StoredFrame DEF KeysInStep
<1>7. QED
    BY <1>4, <1>6 DEF StateInv

\* What a fresh backend and fresh banks are.
LEMMA FreshState ==
    /\ FreshBank.active = FALSE /\ FreshBank.at = 0
    /\ FreshBe.frontier = 0 /\ FreshBe.active = FALSE /\ FreshBe.prov = 0 /\ FreshBe.expected = 0
    /\ FreshBe.processed = 0 /\ FreshBe.ckpt = 0 /\ FreshBe.kind = "invalid" /\ FreshBe.toks = <<>>
    /\ FreshQsa \in QsaRecords /\ FreshQsa.committed = 0 /\ FreshQsa.active = FALSE
    /\ Len(<<>>) = 0
<1>1. <<>> \in Seq(Tokens) /\ <<>> \in Seq(Seq(Tokens)) /\ Len(<<>>) = 0
    OBVIOUS
<1>2. FreshQsa \in QsaRecords /\ FreshQsa.committed = 0 /\ FreshQsa.active = FALSE
    BY <1>1 DEF FreshQsa, QsaRecords
<1>3. QED
    BY <1>1, <1>2 DEF FreshBank, FreshBe

\* reset_session clears all but the array.
LEMMA FinishResetState ==
    ASSUME StateInv, RowsInv', FinishReset
    PROVE  StateInv'
<1>0. OpenInStep /\ KeysInStep /\ ReaderInv
    BY DEF StateInv, RowsInv
<1>1. /\ gdn' = FreshBank /\ ple' = FreshBank /\ qsa' = QsaReset(qsa) /\ be' = FreshBe
      /\ session' = <<>> /\ off' = off /\ pc = "reset"
    BY DEF FinishReset
<1>2. txn = NoTxn /\ be.prov = 0 /\ off = 0
    <2>1. txn = NoTxn /\ be.prov = 0
        BY <1>0, <1>1 DEF ReaderInv, CallInStep
    <2>2. off \in Nat /\ off <= Len(NoTxn.toks) /\ Len(NoTxn.toks) = 0
        BY <1>0, <2>1, Typing DEF NoTxn
    <2>3. QED
        BY <2>1, <2>2
<1>3. qsa' \in QsaRecords /\ qsa'.committed = 0 /\ qsa'.active = FALSE
    <2>1. qsa \in QsaRecords /\ 0 \in Nat /\ qsa.active = FALSE
        BY <1>0, <1>2 DEF KeysInStep, OpenInStep, InTxn
    <2>2. QED
        BY <1>1, <2>1, QsaFacts
<1>4. OpenInStep'
    BY <1>1, <1>2, <1>3, FreshState DEF OpenInStep, InTxn
<1>5. KeysInStep'
    BY <1>1, <1>3, FreshState, StoredFrame DEF KeysInStep
<1>6. QED
    BY <1>4, <1>5 DEF StateInv

\* The initial states.
LEMMA StateInvInit ==
    ASSUME CudaInit
    PROVE  StateInv
<1>1. /\ gdn = FreshBank /\ ple = FreshBank /\ qsa = FreshQsa /\ be = FreshBe /\ session = <<>> /\ off = 0
    BY DEF CudaInit
<1>2. OpenInStep
    BY <1>1, FreshState DEF OpenInStep, InTxn
<1>3. KeysInStep
    BY <1>1, FreshState, StoredFrame DEF KeysInStep
<1>4. QED
    BY <1>2, <1>3, RowsInvInit DEF StateInv

\* What the backend's record is once the transaction is open.
LEMMA OpenedState ==
    ASSUME StateInv, pc = "enter", Accepted
    PROVE  /\ EnterBe.frontier = Len(session) /\ EnterBe.active = TRUE /\ EnterBe.base = Len(session)
           /\ EnterBe.expected = Len(txn.toks) /\ EnterBe.kind = txn.kind
           /\ EnterBe.toks = SubSeq(txn.toks, 1, off) /\ EnterBe.processed = off
           /\ EnterBe.ckpt # 0 => be.prov # 0 /\ EnterBe.ckpt = be.ckpt
<1>0. OpenInStep /\ BanksInStep /\ ReaderInv /\ be \in BeRecords
    BY DEF StateInv, RowsInv, ReaderInv, CallInStep
<1>1. Good /\ pc \notin Executing
    BY <1>0, Places DEF Good, ReaderInv, CallInStep
<1>2. CASE be.prov = 0
    <2>1. off = 0 /\ SubSeq(txn.toks, 1, 0) = <<>>
        <3>1. off = 0
            BY <1>2 DEF Accepted, CanOpen
        <3>2. txn.toks \in Seq(Tokens) /\ 0 \in 0..Len(txn.toks)
            BY <1>0, Typing
        <3>3. SubSeq(txn.toks, 1, 0) \in Seq(Tokens) /\ Len(SubSeq(txn.toks, 1, 0)) = 0
            BY <3>2, PrefixFacts
        <3>4. QED
            BY <3>1, <3>3, EmptySeq
    <2>2. /\ EnterBe.frontier = be.frontier /\ EnterBe.active = TRUE /\ EnterBe.base = Len(session)
          /\ EnterBe.expected = Len(txn.toks) /\ EnterBe.kind = txn.kind /\ EnterBe.toks = <<>>
          /\ EnterBe.processed = 0 /\ EnterBe.ckpt = 0
        BY <1>0, <1>2 DEF EnterBe, Opened, BeRecords
    <2>3. QED
        BY <1>0, <2>1, <2>2 DEF OpenInStep
<1>3. CASE be.prov # 0
    <2>1. EnterBe = be
        BY <1>3 DEF EnterBe
    <2>2. be.processed = off
        BY <1>0, <1>1, <1>3 DEF BanksInStep
    <2>3. be.toks = SubSeq(txn.toks, 1, off + 0) /\ off + 0 = off
        BY <1>0, <1>1, <1>3, Typing DEF OpenInStep
    <2>4. QED
        BY <1>0, <1>3, <2>1, <2>2, <2>3 DEF OpenInStep
<1>4. QED
    BY <1>2, <1>3

\* The first half of execute opens the transaction on all four, or on none.
LEMMA EnterState ==
    ASSUME TilesFitChunks, StateInv, RowsInv', EnterExecute
    PROVE  StateInv'
<1>0. OpenInStep /\ KeysInStep /\ BanksInStep /\ ReaderInv /\ be \in BeRecords
    BY DEF StateInv, RowsInv, ReaderInv, CallInStep
<1>1. pc = "enter" /\ tile' = 0 /\ UNCHANGED <<session, txn, off>>
    BY EnterCases
<1>2. CASE UNCHANGED <<be, gdn, ple, qsa>> /\ last' # "ok"
    BY <1>1, <1>2, StateFrame DEF Good, SameButRead
<1>3. CASE /\ Accepted
           /\ gdn' = IF be.prov = 0 THEN BankBegin(gdn, txn.epoch) ELSE gdn
           /\ ple' = IF be.prov = 0 THEN BankBegin(ple, txn.epoch) ELSE ple
           /\ qsa' = IF be.prov = 0 THEN QsaBegin(qsa, txn.epoch) ELSE qsa
           /\ \/ be' = Hashed /\ last' # "ok"
              \/ be' \in {Taken, Submitted} /\ pc' = "tile" /\ last' = last
    <2>1. /\ be'.prov = txn.epoch /\ txn.epoch # 0 /\ txn.epoch \in Nat
          /\ be'.frontier = EnterBe.frontier /\ be'.base = EnterBe.base
          /\ be'.expected = EnterBe.expected /\ be'.processed = EnterBe.processed
          /\ be'.ckpt = EnterBe.ckpt /\ be'.kind = EnterBe.kind /\ be'.active = EnterBe.active
        BY <1>0, <1>1, <1>3, EnterFacts, Typing
    <2>2. /\ EnterBe.frontier = Len(session) /\ EnterBe.active = TRUE /\ EnterBe.base = Len(session)
          /\ EnterBe.expected = Len(txn.toks) /\ EnterBe.kind = txn.kind
          /\ EnterBe.toks = SubSeq(txn.toks, 1, off) /\ EnterBe.processed = off
          /\ EnterBe.ckpt # 0 => be.prov # 0 /\ EnterBe.ckpt = be.ckpt
        BY <1>1, <1>3, OpenedState
    <2>3. /\ gdn'.active = TRUE /\ gdn'.epoch = txn.epoch
          /\ ple'.active = TRUE /\ ple'.epoch = txn.epoch
          /\ qsa'.active = TRUE /\ qsa'.epoch = txn.epoch
          /\ qsa' \in QsaRecords /\ qsa'.keys = qsa.keys /\ qsa'.pooled = qsa.pooled
          /\ qsa'.committed = qsa.committed
        <3>1. CASE be.prov = 0
            <4>1. gdn' = BankBegin(gdn, txn.epoch) /\ ple' = BankBegin(ple, txn.epoch) /\ qsa' = QsaBegin(qsa, txn.epoch)
                BY <1>3, <3>1
            <4>2. gdn \in Banks(Tokens) /\ ple \in Banks(Rows)
                BY <1>0 DEF BanksInStep
            <4>3. gdn' \in Banks(Tokens) /\ gdn'.active /\ gdn'.epoch = txn.epoch
                BY <2>1, <4>1, <4>2, BankBeginFacts
            <4>4. ple' \in Banks(Rows) /\ ple'.active /\ ple'.epoch = txn.epoch
                BY <2>1, <4>1, <4>2, BankBeginFacts
            <4>5. gdn'.active = TRUE /\ ple'.active = TRUE
                BY <4>3, <4>4, BankTypes
            <4>6. qsa \in QsaRecords /\ 0 \in Nat
                BY <1>0 DEF KeysInStep
            <4>7. /\ qsa'.active = TRUE /\ qsa'.epoch = txn.epoch
                  /\ qsa' \in QsaRecords /\ qsa'.keys = qsa.keys /\ qsa'.pooled = qsa.pooled
                  /\ qsa'.committed = qsa.committed
                BY <2>1, <4>1, <4>6, QsaFacts
            <4>8. QED
                BY <4>3, <4>4, <4>5, <4>7
        <3>2. CASE be.prov # 0
            <4>1. be.prov = txn.epoch
                BY <1>0, <3>2 DEF ReaderInv, CallInStep
            <4>2. QED
                BY <1>0, <1>3, <3>2, <4>1 DEF OpenInStep, InTxn, KeysInStep
        <3>3. QED
            BY <3>1, <3>2
    <2>4. InTxn(gdn)' /\ InTxn(ple)' /\ InTxn(qsa)'
        BY <2>1, <2>3 DEF InTxn
    <2>5. /\ txn.toks \in Seq(Tokens) /\ off \in Nat /\ ChunkLen \in Nat /\ off + ChunkLen <= Len(txn.toks)
          /\ Len(txn.toks) \in Nat /\ off <= Len(txn.toks)
          /\ SubSeq(txn.toks, 1, off) \o Chunk = SubSeq(txn.toks, 1, off + ChunkLen)
          /\ Len(SubSeq(txn.toks, 1, off)) = off
          /\ Len(SubSeq(txn.toks, 1, off + ChunkLen)) = off + ChunkLen
        <3> DEFINE t == txn.toks  c == ChunkLen
        <3>1. /\ t \in Seq(Tokens) /\ off \in Nat /\ c \in Nat /\ off + c <= Len(t)
              /\ Len(t) \in Nat /\ off <= Len(t)
            BY <1>0, Typing
        <3>2. Chunk = SubSeq(t, off + 1, off + c)
            BY DEF Chunk
        <3> HIDE DEF t, c
        <3>3. SubSeq(t, 1, off) \o SubSeq(t, off + 1, off + c) = SubSeq(t, 1, off + c)
            BY <3>1, PrefixGrows
        <3>4. off \in 0..Len(t) /\ off + c \in 0..Len(t)
            BY <3>1
        <3>5. Len(SubSeq(t, 1, off)) = off
            BY <3>1, <3>4, PrefixFacts
        <3>6. Len(SubSeq(t, 1, off + c)) = off + c
            BY <3>1, <3>4, PrefixFacts
        <3>7. QED
            BY <3>1, <3>2, <3>3, <3>5, <3>6 DEF t, c
    <2>6. Stored(qsa', session')
        BY <1>0, <1>1, <2>3, StoredFrame DEF KeysInStep
    <2>7. CASE be' = Hashed /\ last' # "ok"
        <3>1. ~Good'
            BY <2>7 DEF Good
        <3>2. be'.toks = EnterBe.toks
            <4>1. EnterBe \in BeRecords
                BY <1>0, <1>1, <1>3, EnterFacts
            <4>2. QED
                BY <2>7, <4>1 DEF Hashed, BeRecords
        <3>3. be'.processed <= Len(be'.toks)
            BY <2>1, <2>2, <2>5, <3>2
        <3>4. OpenInStep'
            BY <1>1, <2>1, <2>2, <2>4, <3>1, <3>3 DEF OpenInStep
        <3>5. KeysInStep'
            BY <1>0, <1>1, <2>3, <2>6, <3>1 DEF KeysInStep
        <3>6. QED
            BY <3>4, <3>5 DEF StateInv
    <2>8. CASE be' \in {Taken, Submitted} /\ pc' = "tile" /\ last' = last
        <3>1. pc' \in Executing /\ ChunkLen' = ChunkLen
            BY <1>1, <2>8, Places DEF ChunkLen
        <3>2. be'.toks = EnterBe.toks \o Chunk
            BY <1>0, <1>1, <1>3, <2>8, EnterFacts
        <3>3. be'.toks = SubSeq(txn.toks, 1, off + ChunkLen) /\ be'.processed <= Len(be'.toks)
            <4>1. be'.toks = SubSeq(txn.toks, 1, off + ChunkLen)
                BY <2>2, <2>5, <3>2
            <4>2. Len(be'.toks) = off + ChunkLen
                BY <2>5, <4>1
            <4>3. be'.processed = off
                BY <2>1, <2>2
            <4>4. off <= off + ChunkLen
                BY <2>5
            <4>5. QED
                BY <4>1, <4>2, <4>3, <4>4
        <3>4. Good /\ pc \notin Executing
            BY <1>0, <1>1, Places DEF Good, ReaderInv, CallInStep
        <3>5. qsa'.evaluated = off /\ (be'.ckpt # 0 => gdn'.valid /\ ple'.valid)
            <4>1. CASE be.prov = 0
                <5>1. off = 0 /\ qsa' = QsaBegin(qsa, txn.epoch) /\ qsa \in QsaRecords /\ 0 \in Nat
                    BY <1>0, <1>3, <4>1 DEF Accepted, CanOpen, KeysInStep
                <5>2. qsa'.evaluated = 0
                    BY <2>1, <5>1, QsaFacts
                <5>3. QED
                    BY <2>1, <2>2, <4>1, <5>1, <5>2
            <4>2. CASE be.prov # 0
                <5>1. qsa' = qsa /\ gdn' = gdn /\ ple' = ple
                    BY <1>3, <4>2
                <5>2. QED
                    BY <1>0, <2>1, <2>2, <3>4, <4>2, <5>1 DEF OpenInStep
            <4>3. QED
                BY <4>1, <4>2
        <3>6. OpenInStep'
            BY <1>1, <2>1, <2>2, <2>4, <3>1, <3>3, <3>5 DEF OpenInStep
        <3>7. Done' = Len(session) + off
            <4>1. Done' = Len(session) + off + 0
                BY <1>1, <3>1 DEF Done
            <4>2. QED
                BY <1>0, <4>1, GivenFacts, Typing
        <3>8. Stored(qsa', SubSeq(TokensGiven', 1, Done'))
            <4>1. TokensGiven' = TokensGiven
                BY <1>1 DEF TokensGiven
            <4>2. CASE be.prov = 0
                <5>1. Done' = Len(session)
                    <6>1. off = 0 /\ Len(session) \in Nat
                        BY <1>0, <1>3, <4>2, GivenFacts DEF Accepted, CanOpen
                    <6>2. QED
                        BY <3>7, <6>1
                <5>2. SubSeq(TokensGiven', 1, Done') = session
                    BY <1>0, <4>1, <5>1, GivenFacts
                <5>3. QED
                    BY <1>1, <2>6, <5>2
            <4>3. CASE be.prov # 0
                <5>1. Done = Done'
                    BY <1>0, <3>4, <3>7, DoneFacts
                <5>2. qsa' = qsa
                    BY <1>3, <4>3
                <5>3. QED
                    BY <1>0, <3>4, <4>1, <4>3, <5>1, <5>2 DEF KeysInStep
            <4>4. QED
                BY <4>2, <4>3
        <3>9. KeysInStep'
            BY <1>0, <1>1, <2>3, <2>6, <3>8 DEF KeysInStep
        <3>10. QED
            BY <3>6, <3>9 DEF StateInv
    <2>9. QED
        BY <1>3, <2>7, <2>8
<1>4. QED
    BY <1>2, <1>3, EnterCases DEF ReturnCancelled, ReturnFailed

\* The tokens of a tile are those that come next.
LEMMA TileGiven ==
    ASSUME TilesFitChunks, ReaderInv, pc \in Executing
    PROVE  LET toks == SubSeq(Chunk, tile + 1, tile + TileLen) IN
           /\ toks \in Seq(Tokens) /\ toks = SubSeq(TokensGiven, Done + 1, Done + TileLen)
           /\ Done + TileLen <= Len(TokensGiven) /\ Done + TileLen \in Nat
           /\ SubSeq(TokensGiven, 1, Done) \o toks = SubSeq(TokensGiven, 1, Done + TileLen)
           /\ SubSeq(TokensGiven, 1, Done) \in Seq(Tokens) /\ Len(SubSeq(TokensGiven, 1, Done)) = Done
<1> DEFINE G == TokensGiven  D == Done  len == TileLen  a == Len(session) + off  c == ChunkLen
<1>1. /\ G \in Seq(Tokens) /\ D \in Nat /\ len \in Nat /\ D + len <= Len(G) /\ Len(G) \in Nat
      /\ D = Len(session) + off + tile /\ D <= Len(G)
    BY GivenFacts, DoneFacts
<1>2. a \in Nat /\ a + c <= Len(G) /\ Chunk = SubSeq(G, a + 1, a + c) /\ c \in Nat
    BY ChunkGiven, Typing
<1>3. tile \in Nat /\ tile + len <= c /\ D = a + tile
    <2>1. tile + TileLen <= ChunkLen
        BY TileFacts DEF ReaderInv, CallInStep
    <2>2. QED
        BY <1>1, <2>1, Typing
<1> HIDE DEF G, a, c, D, len
<1>4. /\ SubSeq(Chunk, tile + 1, tile + len) \in Seq(Tokens)
      /\ SubSeq(Chunk, tile + 1, tile + len) = SubSeq(G, a + tile + 1, a + tile + len)
    <2>1. /\ G \in Seq(Tokens) /\ a \in Nat /\ c \in Nat /\ a + c <= Len(G) /\ tile \in Nat /\ len \in Nat
          /\ tile + len <= c /\ Chunk = SubSeq(G, a + 1, a + c)
        BY <1>1, <1>2, <1>3
    <2>2. QED
        BY <2>1, PartOfPart
<1>5. SubSeq(G, 1, D) \o SubSeq(G, D + 1, D + len) = SubSeq(G, 1, D + len)
    BY <1>1, PrefixGrows
<1>6. D \in 0..Len(G)
    BY <1>1
<1>7. SubSeq(G, 1, D) \in Seq(Tokens) /\ Len(SubSeq(G, 1, D)) = D
    BY <1>1, <1>6, PrefixFacts
<1>8. D + len \in Nat /\ D + len <= Len(G)
    BY <1>1
<1>9. SubSeq(Chunk, tile + 1, tile + len) = SubSeq(G, D + 1, D + len)
    BY <1>3, <1>4
<1>10. QED
    BY <1>4, <1>5, <1>7, <1>8, <1>9 DEF G, D, len

\* The rows of the tile that waits to go through the kernels.
LEMMA StagedRows ==
    ASSUME TilesFitChunks, StateInv, pc = "run"
    PROVE  staged \in Seq(Rows) /\ staged = SubSeq(RowsGiven, Done + 1, Done + TileLen)
<1> DEFINE R == RowsGiven  D == Done  len == TileLen
<1>0. HashesAreOwn /\ ReaderInv
    BY DEF StateInv, RowsInv
<1>1. pc \in Executing
    BY Places
<1>2. R \in Seq(Rows) /\ D \in Nat /\ len \in Nat /\ D + len <= Len(R)
    BY <1>0, <1>1, GivenFacts, DoneFacts
<1>3. staged = SubSeq(R, D + 1, D + len)
    BY <1>0 DEF HashesAreOwn
<1> HIDE DEF R, D, len
<1>4. 0 \in Nat /\ 0 + 0 <= len
    BY <1>2
<1>5. staged \in Seq(Rows)
    BY <1>2, <1>3, <1>4, PartOfPart
<1>6. QED
    BY <1>3, <1>5 DEF R, D, len

\* The keys after the kernels of a tile.
LEMMA RunQsa ==
    ASSUME TilesFitChunks, StateInv, RunTile
    PROVE  /\ qsa' \in QsaRecords /\ qsa'.committed = qsa.committed
           /\ qsa'.active = qsa.active /\ qsa'.epoch = qsa.epoch
           /\ Stored(qsa', session) /\ Stored(qsa', SubSeq(TokensGiven, 1, Done + TileLen))
           /\ pc' = "tile" => qsa'.evaluated = qsa.evaluated
           /\ pc' = "idle" => qsa'.evaluated = off + ChunkLen
<1> DEFINE toks == SubSeq(Chunk, tile + 1, tile + TileLen)
           G == TokensGiven  D == Done  s == SubSeq(G, 1, D)
           q == QsaStore(qsa, be.base + off + tile, toks)  len == TileLen
<1>0. OpenInStep /\ KeysInStep /\ ReaderInv /\ pc = "run"
    BY DEF StateInv, RowsInv, RunTile
<1>1. pc \in Executing /\ be.prov # 0 /\ Good
    BY <1>0, RunFacts
<1>2. be.base = Len(session) /\ off \in Nat /\ ChunkLen \in Nat /\ off + ChunkLen \in Nat /\ tile \in Nat
    BY <1>0, <1>1, Typing DEF OpenInStep
<1>3. be.base + off + tile = D
    BY <1>0, <1>1, <1>2, DoneFacts
<1>4. /\ toks \in Seq(Tokens) /\ s \o toks = SubSeq(G, 1, D + len)
      /\ s \in Seq(Tokens) /\ Len(s) = D /\ D + len <= Len(G) /\ D + len \in Nat
    BY <1>0, <1>1, TileGiven
<1>5. qsa \in QsaRecords /\ Stored(qsa, s)
    BY <1>0, <1>1 DEF KeysInStep
<1>6. /\ q \in QsaRecords /\ Stored(q, SubSeq(G, 1, D + len))
      /\ q.committed = qsa.committed /\ q.active = qsa.active /\ q.epoch = qsa.epoch
      /\ q.evaluated = qsa.evaluated
    <2> HIDE DEF toks, s, D
    <2>1. LET c == QsaStore(qsa, Len(s), toks) IN
          /\ c \in QsaRecords /\ Stored(c, s \o toks)
          /\ c.committed = qsa.committed /\ c.active = qsa.active /\ c.epoch = qsa.epoch
          /\ c.evaluated = qsa.evaluated
        BY <1>4, <1>5, StoredStore
    <2>2. QED
        BY <1>3, <1>4, <2>1
<1>7. /\ qsa' = q \/ qsa' = QsaMark(q, off + ChunkLen)
      /\ pc' = "tile" => qsa' = q
      /\ pc' = "idle" => qsa' = QsaMark(q, off + ChunkLen)
    BY DEF RunTile, Catch, Return
<1> DEFINE k == QsaMark(q, off + ChunkLen)
<1>8. /\ k \in QsaRecords /\ k.keys = q.keys /\ k.pooled = q.pooled
      /\ k.committed = q.committed /\ k.active = q.active /\ k.epoch = q.epoch
      /\ k.evaluated = off + ChunkLen
    <2> HIDE DEF q
    <2>1. q \in QsaRecords /\ off + ChunkLen \in Nat /\ 0 \in Nat
        BY <1>2, <1>6
    <2>2. QED
        BY <2>1, MarkFacts
<1>9. Stored(k, SubSeq(G, 1, D + len))
    <2> HIDE DEF q, k, G, D, len
    <2>1. QED
        BY <1>6, <1>8, StoredFrame
<1> HIDE DEF q, k
<1>10. /\ qsa' \in QsaRecords /\ Stored(qsa', SubSeq(G, 1, D + len))
       /\ qsa'.committed = qsa.committed /\ qsa'.active = qsa.active /\ qsa'.epoch = qsa.epoch
    BY <1>6, <1>7, <1>8, <1>9 DEF k
<1>11. Stored(qsa', session)
    <2> DEFINE u == SubSeq(G, 1, D + len)  m == Len(session)
    <2>1. G \in Seq(Tokens) /\ m \in Nat /\ Len(G) \in Nat /\ SubSeq(G, 1, m) = session /\ len \in Nat /\ D >= m
        BY <1>0, <1>1, <1>2, GivenFacts, DoneFacts
    <2>2. D + len \in 0..Len(G) /\ m \in 0..D + len
        BY <1>4, <2>1, DoneFacts, <1>0
    <2> HIDE DEF m, G, D, len
    <2>3. u \in Seq(Tokens) /\ Len(u) = D + len /\ SubSeq(u, 1, m) = SubSeq(G, 1, m)
        BY <2>1, <2>2, PrefixFacts
    <2>4. Stored(qsa', u)
        BY <1>10
    <2> HIDE DEF u
    <2>5. m \in 0..Len(u)
        BY <2>2, <2>3
    <2>6. Stored(qsa', SubSeq(u, 1, m))
        BY <1>10, <2>3, <2>4, <2>5, StoredPrefix
    <2>7. QED
        BY <2>1, <2>3, <2>6
<1>12. QED
    BY <1>6, <1>7, <1>8, <1>10, <1>11 DEF k

\* A tile goes through the kernels: the array is stored up to the row after it.
LEMMA RunState ==
    ASSUME TilesFitChunks, StateInv, RowsInv', RunTile
    PROVE  StateInv'
<1> DEFINE toks == SubSeq(Chunk, tile + 1, tile + TileLen)
<1>0. OpenInStep /\ KeysInStep /\ BanksInStep /\ ReaderInv /\ be \in BeRecords
    BY DEF StateInv, RowsInv, ReaderInv, CallInStep
<1>1. /\ pc = "run" /\ gdn' = BankFold(gdn, toks) /\ ple' = BankFold(ple, staged)
      /\ UNCHANGED <<session, txn>>
    BY RunCases
<1>2. /\ pc \in Executing /\ be.prov # 0 /\ Good
    BY <1>0, <1>1, RunFacts
<1>3. toks \in Seq(Tokens)
    BY <1>0, <1>2, TileGiven
<1>4. staged \in Seq(Rows)
    BY <1>0, <1>1, <1>2, StagedRows
<1> HIDE DEF toks
<1>5. /\ gdn'.active = gdn.active /\ gdn'.epoch = gdn.epoch /\ gdn'.valid = gdn.valid
      /\ ple'.active = ple.active /\ ple'.epoch = ple.epoch /\ ple'.valid = ple.valid
    <2>1. gdn \in Banks(Tokens) /\ ple \in Banks(Rows)
        BY <1>0 DEF BanksInStep
    <2>2. gdn'.active = gdn.active /\ gdn'.epoch = gdn.epoch /\ gdn'.valid = gdn.valid
        BY <1>1, <1>3, <2>1, BankFoldFacts
    <2>3. ple'.active = ple.active /\ ple'.epoch = ple.epoch /\ ple'.valid = ple.valid
        BY <1>1, <1>4, <2>1, BankFoldFacts
    <2>4. QED
        BY <2>2, <2>3
<1>6. /\ qsa' \in QsaRecords /\ qsa'.committed = qsa.committed
      /\ qsa'.active = qsa.active /\ qsa'.epoch = qsa.epoch
      /\ Stored(qsa', session) /\ Stored(qsa', SubSeq(TokensGiven, 1, Done + TileLen))
      /\ pc' = "tile" => qsa'.evaluated = qsa.evaluated
      /\ pc' = "idle" => qsa'.evaluated = off + ChunkLen
    BY RunQsa
<1>7. TokensGiven' = TokensGiven
    BY <1>1 DEF TokensGiven
<1>8. ASSUME be'.prov = be.prov PROVE InTxn(gdn)' /\ InTxn(ple)' /\ InTxn(qsa)'
    BY <1>0, <1>5, <1>6, <1>8 DEF OpenInStep, InTxn
<1>9. /\ Done \in Nat /\ TileLen \in Nat /\ Done = Len(session) + off + tile
      /\ Len(session) \in Nat /\ off \in Nat /\ tile \in Nat /\ ChunkLen \in Nat
    BY <1>0, <1>2, DoneFacts, GivenFacts, Typing
<1>10. CASE pc' \in {"catch_device", "catch_cancelled"} /\ UNCHANGED <<be, off, tile, last, fail>>
    <2>1. ~Good'
        BY <1>10, Places DEF Good
    <2>2. OpenInStep'
        BY <1>0, <1>1, <1>8, <1>10, <2>1 DEF OpenInStep
    <2>3. KeysInStep'
        BY <1>0, <1>1, <1>6, <2>1 DEF KeysInStep
    <2>4. QED
        BY <2>2, <2>3 DEF StateInv
<1>11. CASE tile' = tile + TileLen /\ pc' = "tile" /\ UNCHANGED <<be, off, last, fail>>
    <2>1. pc' \in Executing /\ ChunkLen' = ChunkLen
        BY <1>1, <1>11, Places DEF ChunkLen
    <2>2. Done' = Done + TileLen
        <3>1. Done' = Len(session) + off + (tile + TileLen)
            BY <1>1, <1>11, <2>1 DEF Done
        <3>2. QED
            BY <1>9, <3>1
    <2>3. OpenInStep'
        BY <1>0, <1>1, <1>2, <1>5, <1>6, <1>8, <1>11, <2>1 DEF OpenInStep
    <2>4. KeysInStep'
        BY <1>0, <1>1, <1>6, <1>7, <2>2 DEF KeysInStep
    <2>5. QED
        BY <2>3, <2>4 DEF StateInv
<1>12. CASE /\ tile + TileLen = ChunkLen /\ be' = [be EXCEPT !.processed = be.processed + ChunkLen]
            /\ off' = off + ChunkLen /\ Return /\ tile' = tile
    <2>1. pc' = "idle" /\ pc' \notin Executing
        BY <1>12, Places DEF Return
    <2>2. /\ be'.processed = be.processed + ChunkLen /\ be'.prov = be.prov /\ be'.ckpt = be.ckpt
          /\ be'.frontier = be.frontier /\ be'.active = be.active /\ be'.base = be.base
          /\ be'.expected = be.expected /\ be'.kind = be.kind /\ be'.toks = be.toks
        BY <1>0, <1>12 DEF BeRecords
    <2>3. Done' = Done + TileLen
        <3>1. Done' = Len(session) + (off + ChunkLen) + 0
            BY <1>1, <1>12, <2>1 DEF Done
        <3>2. QED
            BY <1>9, <1>12, <3>1
    <2>4. be'.toks = SubSeq(txn.toks, 1, off + ChunkLen) /\ off' + 0 = off + ChunkLen
        <3>1. be.toks = SubSeq(txn.toks, 1, off + ChunkLen)
            BY <1>0, <1>2 DEF OpenInStep
        <3>2. off' + 0 = off + ChunkLen
            BY <1>9, <1>12
        <3>3. QED
            BY <2>2, <3>1, <3>2
    <2>5. be'.processed = off + ChunkLen /\ Len(be'.toks) = off + ChunkLen
        <3>1. be.processed = off
            BY <1>0, <1>2 DEF BanksInStep
        <3>2. txn.toks \in Seq(Tokens) /\ off + ChunkLen \in 0..Len(txn.toks)
            BY <1>0, <1>9, Typing
        <3>3. Len(SubSeq(txn.toks, 1, off + ChunkLen)) = off + ChunkLen
            BY <3>2, PrefixFacts
        <3>4. QED
            BY <2>2, <2>4, <3>1, <3>3
    <2>6. OpenInStep'
        <3>1. be'.processed <= Len(be'.toks)
            BY <1>9, <2>5
        <3>2. be'.toks = SubSeq(txn.toks', 1, off' + 0) /\ qsa'.evaluated = off'
            BY <1>1, <1>6, <1>12, <2>1, <2>4
        <3>3. be'.ckpt # 0 => gdn'.valid /\ ple'.valid
            BY <1>0, <1>2, <1>5, <2>2 DEF OpenInStep
        <3>4. QED
            BY <1>0, <1>1, <1>2, <1>8, <2>1, <2>2, <3>1, <3>2, <3>3 DEF OpenInStep
    <2>7. KeysInStep'
        BY <1>0, <1>1, <1>6, <1>7, <2>3 DEF KeysInStep
    <2>8. QED
        BY <2>6, <2>7 DEF StateInv
<1>13. QED
    BY <1>10, <1>11, <1>12, RunCases

\* A transaction is committed.
LEMMA CommitState ==
    ASSUME TilesFitChunks, StateInv, RowsInv', NEW n \in 1..ContextLimit, Commit(n)
    PROVE  StateInv'
<1> DEFINE G == TokensGiven  N == Len(session)
<1>0. OpenInStep /\ KeysInStep /\ BanksInStep /\ ReaderInv /\ be \in BeRecords
    BY DEF StateInv, RowsInv, ReaderInv, CallInStep
<1>1. MayGoOn /\ pc = "idle"
    BY DEF Commit, MayGoOn
<1>2. CASE ReturnFailed(IF CommitAccepted(n) THEN "commit_device" ELSE "commit") /\ UNCHANGED <<bankVars, be, session, txn, off>>
    <2>1. ~Good' /\ UNCHANGED <<gdn, ple, qsa>>
        BY <1>2 DEF ReturnFailed, Good, bankVars
    <2>2. SameButRead(be', be)
        BY <1>0, <1>2, SameBe
    <2>3. QED
        BY <1>2, <2>1, <2>2, StateFrame
<1>3. CASE /\ CommitAccepted(n)
           /\ gdn' = BankCommit(Restored(gdn, n)) /\ ple' = BankCommit(Restored(ple, n))
           /\ qsa' = QsaCommit(qsa, n)
           /\ be' = [Closed(be, be.prov) EXCEPT !.frontier = be.base + n, !.hash = be.hashes[n]]
           /\ session' = session \o SubSeq(txn.toks, 1, n)
           /\ txn' = NoTxn /\ off' = 0 /\ Return
    <2>2. /\ n \in 1..off /\ n \in 1..Len(txn.toks) /\ be.prov # 0 /\ Good
        BY <1>0, <1>1, <1>3, CommitFacts DEF Commit
    <2>3. pc \notin Executing
        BY <1>1, Places
    <2>4. /\ G \in Seq(Tokens) /\ N \in Nat /\ off \in Nat /\ n \in Nat /\ n <= off
          /\ off <= Len(txn.toks) /\ Len(txn.toks) \in Nat /\ Len(G) = N + Len(txn.toks)
          /\ n <= Len(txn.toks) /\ Done = N + off
        BY <1>0, <2>2, <2>3, GivenFacts, DoneFacts, Typing
    <2>5. session' = SubSeq(G, 1, N + n)
        <3>1. SubSeq(TokensGiven, 1, Len(session) + n) = session \o SubSeq(txn.toks, 1, n)
            BY <1>0, <2>4, GivenPrefix
        <3>2. QED
            BY <1>3, <3>1
    <2>6. Len(session') = N + n /\ Stored(qsa, session')
        <3>1. N + off \in 0..Len(G) /\ N + n \in 0..N + off /\ N + n \in 0..Len(G)
            BY <2>4
        <3>2. Stored(qsa, SubSeq(G, 1, N + off)) /\ qsa \in QsaRecords
            BY <1>0, <2>2, <2>4 DEF KeysInStep
        <3> DEFINE u == SubSeq(G, 1, N + off)  d == N + off  m == N + n
        <3> HIDE DEF G, N, d, m
        <3>3. G \in Seq(Tokens) /\ d \in 0..Len(G) /\ m \in 0..d /\ m \in 0..Len(G)
            BY <2>4, <3>1 DEF d, m
        <3>4. SubSeq(G, 1, d) \in Seq(Tokens) /\ Len(SubSeq(G, 1, d)) = d
              /\ SubSeq(SubSeq(G, 1, d), 1, m) = SubSeq(G, 1, m)
            BY <3>3, PrefixFacts
        <3>5. Len(SubSeq(G, 1, m)) = m
            BY <3>3, PrefixFacts
        <3>6. u = SubSeq(G, 1, d)
            BY DEF d
        <3> HIDE DEF u
        <3>7. u \in Seq(Tokens) /\ Stored(qsa, u) /\ m \in 0..Len(u)
            BY <3>2, <3>3, <3>4, <3>6 DEF d
        <3>8. Stored(qsa, SubSeq(u, 1, m))
            BY <3>2, <3>7, StoredPrefix
        <3>9. QED
            BY <2>5, <3>4, <3>5, <3>6, <3>8 DEF m
    <2>7. qsa' \in QsaRecords /\ qsa'.committed = qsa.committed + n /\ qsa'.active = FALSE
          /\ qsa'.keys = qsa.keys /\ qsa'.pooled = qsa.pooled
        <3>1. qsa \in QsaRecords /\ n \in Nat
            BY <1>0, <2>4 DEF KeysInStep
        <3>2. QED
            BY <1>3, <3>1, KeptKeys
    <2>8. gdn'.active = FALSE /\ ple'.active = FALSE
        <3>1. Restored(gdn, n) \in Banks(Tokens) /\ Restored(ple, n) \in Banks(Rows)
            BY <1>0, BankCheckpointFacts DEF BanksInStep, Restored
        <3>2. BankCommit(Restored(gdn, n)) \in Banks(Tokens) /\ ~BankCommit(Restored(gdn, n)).active
            BY <3>1, BankEndFacts
        <3>3. BankCommit(Restored(ple, n)) \in Banks(Rows) /\ ~BankCommit(Restored(ple, n)).active
            BY <3>1, BankEndFacts
        <3>4. gdn' \in Banks(Tokens) /\ ~gdn'.active /\ ple' \in Banks(Rows) /\ ~ple'.active
            BY <1>3, <3>2, <3>3
        <3>5. gdn'.active \in BOOLEAN /\ ple'.active \in BOOLEAN
            BY <3>4, BankTypes
        <3>6. QED
            BY <3>4, <3>5
    <2>9. /\ be'.prov = 0 /\ be'.active = FALSE /\ be'.expected = 0 /\ be'.processed = 0 /\ be'.ckpt = 0
          /\ be'.kind = "invalid" /\ be'.toks = <<>> /\ be'.frontier = N + n
        <3> DEFINE c == Closed(be, be.prov)
        <3>5. be \in BeRecords /\ be.prov \in Nat
            BY <1>0, Typing
        <3>1. /\ c \in BeRecords /\ c.prov = 0 /\ c.active = FALSE /\ c.expected = 0 /\ c.processed = 0
              /\ c.ckpt = 0 /\ c.kind = "invalid" /\ c.toks = <<>>
            BY <3>5, ClosedFacts
        <3> HIDE DEF c
        <3>2. be' = [c EXCEPT !.frontier = be.base + n, !.hash = be.hashes[n]]
            BY <1>3 DEF c
        <3>3. be.base = N
            BY <1>0, <2>2 DEF OpenInStep
        <3>6. QED
            BY <3>1, <3>2, <3>3 DEF BeRecords
    <2>10. qsa'.committed = Len(session')
        BY <1>0, <2>6, <2>7 DEF KeysInStep
    <2>11. OpenInStep'
        BY <1>3, <2>6, <2>7, <2>8, <2>9 DEF OpenInStep, InTxn
    <2>12. Stored(qsa', session')
        BY <2>6, <2>7, StoredFrame
    <2>13. KeysInStep'
        BY <2>7, <2>9, <2>10, <2>12 DEF KeysInStep
    <2>14. QED
        BY <2>11, <2>13 DEF StateInv
<1>4. QED
    BY <1>2, <1>3 DEF Commit

-----------------------------------------------------------------------------

\* Every step of the two threads, the executor and the client.
LEMMA StateInvStep ==
    ASSUME TilesFitChunks, StateInv, CudaNext
    PROVE  StateInv'
<1>0. RowsInv'
    BY RowsInvStep DEF StateInv
<1>1. CASE StageWorker
    BY <1>0, <1>1, PrefetchState, EnterState, RunState, FinishResetState, QuietState DEF StageWorker
<1>2. CASE Executor
    BY <1>0, <1>2, BeginState, CheckpointState, CommitState, RollbackState, QuietState DEF Executor
<1>3. QED
    BY <1>0, <1>1, <1>2, QuietState DEF CudaNext

\* Where tiles fit chunks, the backend and its three banks open and close a
\* transaction together, and the banks hold the session and what went through
\* the kernels since.
THEOREM StateInvariant ==
    ASSUME TilesFitChunks
    PROVE  CudaSpec => []StateInv
<1>1. StateInv /\ UNCHANGED cudaVars /\ RowsInv' => StateInv'
    BY QuietState
<1>2. QED
    BY <1>1, RowsInvariant, StateInvInit, StateInvStep, PTL DEF CudaSpec

\* Where tiles fit chunks: between transactions the three state banks and the PLE hash hold exactly the
\* committed tokens, however the last transaction ended: committed, rolled back
\* from wherever a cancellation or a fault left it, or reset.
THEOREM BanksHoldCommitted ==
    ASSUME TilesFitChunks
    PROVE  CudaSpec => []BanksHoldSession
<1>1. StateInv => BanksHoldSession
    <2>1. SUFFICES ASSUME StateInv, Between
                   PROVE  /\ CommittedCopy(gdn) = session
                          /\ CommittedCopy(ple) = HashRows(FreshHash, session)
                          /\ qsa.committed = Len(session) /\ be.frontier = Len(session)
                          /\ SubSeq(qsa.keys, 1, qsa.committed) = session
                          /\ SubSeq(qsa.pooled, 1, qsa.committed \div BlockTokens) = Blocks(session)
                          /\ be.hash = HashOf(session)
                          /\ ~(gdn.active \/ ple.active \/ qsa.active)
        BY DEF BanksHoldSession
    <2>2. OpenInStep /\ KeysInStep /\ BanksInStep /\ HashesAreOwn /\ be.prov = 0
        BY <2>1 DEF StateInv, RowsInv, ReaderInv, CallInStep, Between
    <2>3. ~(gdn.active \/ ple.active \/ qsa.active)
        BY <2>2 DEF OpenInStep, InTxn
    <2>4. qsa.committed = Len(session) /\ Stored(qsa, session) /\ be.frontier = Len(session)
        BY <2>2 DEF KeysInStep, OpenInStep
    <2>5. /\ SubSeq(qsa.keys, 1, qsa.committed) = session
          /\ SubSeq(qsa.pooled, 1, qsa.committed \div BlockTokens) = Blocks(session)
        BY <2>4 DEF Stored
    <2>6. QED
        BY <2>2, <2>3, <2>4, <2>5 DEF BanksInStep, HashesAreOwn
<1>2. QED
    BY <1>1, StateInvariant, PTL

-----------------------------------------------------------------------------
(* The reference backend.                                                  *)

\* What the reference sees of the tokens the backend was given.
Seen == SubSeq(be.toks, 1, be.processed)

\* The rows the reference holds are the session.
LEMMA SeenAs ==
    /\ StateInv => AsReference =
         [rows |-> session, epoch |-> be.epoch, prov |-> be.prov,
          base |-> IF be.prov = 0 THEN 0 ELSE be.base, expected |-> be.expected,
          kind |-> be.kind, ptoks |-> Seen, ckpt |-> be.ckpt]
    /\ StateInv' => AsReference' =
         [rows |-> session', epoch |-> be'.epoch, prov |-> be'.prov,
          base |-> IF be'.prov = 0 THEN 0 ELSE be'.base, expected |-> be'.expected,
          kind |-> be'.kind, ptoks |-> Seen', ckpt |-> be'.ckpt]
<1>1. StateInv => CommittedCopy(gdn) = session
    BY DEF StateInv, RowsInv, BanksInStep
<1>2. StateInv' => CommittedCopy(gdn') = session'
    BY DEF StateInv, RowsInv, BanksInStep
<1>3. QED
    BY <1>1, <1>2 DEF AsReference, Seen, CommittedCopy

\* What was executed of a transaction that goes on, and what the reference
\* sees of one that is not open.
LEMMA SeenFacts ==
    ASSUME StateInv
    PROVE  /\ Good /\ be.prov # 0 =>
                /\ Seen = SubSeq(txn.toks, 1, off) /\ Seen \in Seq(Tokens)
                /\ Len(Seen) = off /\ be.processed = off /\ off \in Nat
           /\ be.prov = 0 => Seen = <<>>
<1>0. OpenInStep /\ BanksInStep /\ ReaderInv
    BY DEF StateInv, RowsInv
<1>1. CASE be.prov = 0
    <2>1. be.toks = <<>> /\ be.processed = 0 /\ SubSeq(<<>>, 1, 0) = <<>>
        BY <1>0, <1>1 DEF OpenInStep
    <2>2. QED
        BY <1>1, <2>1 DEF Seen
<1>2. CASE Good /\ be.prov # 0
    <2> DEFINE t == txn.toks  m == off + (IF pc \in Executing THEN ChunkLen ELSE 0)
    <2>1. t \in Seq(Tokens) /\ m \in 0..Len(t) /\ off \in 0..m /\ off \in Nat /\ off \in 0..Len(t)
        BY <1>0, Typing
    <2>2. be.toks = SubSeq(t, 1, m) /\ be.processed = off
        BY <1>0, <1>2 DEF OpenInStep, BanksInStep
    <2> HIDE DEF t, m
    <2>3. SubSeq(SubSeq(t, 1, m), 1, off) = SubSeq(t, 1, off)
        BY <2>1, PrefixFacts
    <2>4. SubSeq(t, 1, off) \in Seq(Tokens) /\ Len(SubSeq(t, 1, off)) = off
        BY <2>1, PrefixFacts
    <2>5. Seen = SubSeq(t, 1, off)
        BY <2>2, <2>3 DEF Seen
    <2>6. QED
        BY <1>2, <2>1, <2>2, <2>4, <2>5 DEF t
<1>3. QED
    BY <1>1, <1>2

\* A step that the reference does not see.
LEMMA UnseenFrame ==
    ASSUME StateInv, StateInv', session' = session, SameButRead(be', be)
    PROVE  AsReference' = AsReference
    BY SeenAs DEF SameButRead, Seen

\* The reader, the executor's own steps, and the parts of execute that only
\* touch the read.
LEMMA UnseenSteps ==
    ASSUME StateInv, StateInv',
           \/ Trip \/ NextChunk \/ TileTop \/ Reset \/ Drain \/ Rethrow \/ Reader \/ Take \/ TakeFinal
           \/ Prefetch \/ (\E kind, toks : Begin(kind, toks))
           \/ UNCHANGED cudaVars
    PROVE  AsReference' = AsReference
<1>0. ReaderInv /\ be \in BeRecords
    BY DEF StateInv, RowsInv, ReaderInv, CallInStep
<1>1. session' = session
    BY DEF Trip, NextChunk, TileTop, Reset, Drain, Rethrow, Reader, ReaderPick, ReaderRoom,
           ReaderRead, ReaderFinish, Take, TakeFinal, Prefetch, Begin, driverVars, cudaVars
<1>2. CASE Prefetch
    <2>1. SameButRead(be', be)
        BY <1>0, <1>2, PrefetchSame
    <2>2. QED
        BY <1>1, <2>1, UnseenFrame
<1>3. CASE ~Prefetch
    <2>1. be' = be \/ be' = ReadOver
        BY <1>3 DEF Trip, NextChunk, TileTop, Reset, Drain, Rethrow, Reader, ReaderPick, ReaderRoom,
               ReaderRead, ReaderFinish, Take, TakeFinal, Begin, cudaVars
    <2>2. QED
        BY <1>0, <1>1, <2>1, SameBe, UnseenFrame
<1>4. QED
    BY <1>2, <1>3

\* The transaction opens, or a chunk is handed to one that is open.
LEMMA SeenEnter ==
    ASSUME StateInv, StateInv', EnterExecute
    PROVE  ReferenceStep \/ AsReference' = AsReference
<1>0. OpenInStep /\ KeysInStep /\ BanksInStep /\ ReaderInv /\ be \in BeRecords
    BY DEF StateInv, RowsInv, ReaderInv, CallInStep
<1>1. pc = "enter" /\ UNCHANGED <<session, txn, off>>
    BY EnterCases
<1>2. CASE be' = be
    BY <1>0, <1>1, <1>2, SameBe, UnseenFrame
<1>3. CASE Accepted /\ be' \in {Hashed, Taken, Submitted}
    <2>1. /\ be'.prov = txn.epoch /\ txn.epoch # 0 /\ txn.epoch \in Nat /\ be'.epoch = be.epoch
          /\ be'.base = EnterBe.base
          /\ be'.expected = EnterBe.expected /\ be'.processed = EnterBe.processed
          /\ be'.ckpt = EnterBe.ckpt /\ be'.kind = EnterBe.kind
        BY <1>0, <1>1, <1>3, EnterFacts, Typing
    <2>2. /\ EnterBe.base = Len(session)
          /\ EnterBe.expected = Len(txn.toks) /\ EnterBe.kind = txn.kind
          /\ EnterBe.toks = SubSeq(txn.toks, 1, off) /\ EnterBe.processed = off
        BY <1>1, <1>3, OpenedState
    <2>3. Seen' = SubSeq(txn.toks, 1, off)
        <3> DEFINE t == txn.toks  m == off + ChunkLen
        <3>1. t \in Seq(Tokens) /\ off \in 0..m /\ m \in 0..Len(t) /\ off \in 0..Len(t) /\ off \in 0..off
            BY <1>0, Typing
        <3>2. be'.processed = off
            BY <2>1, <2>2
        <3>3. be'.toks = SubSeq(t, 1, off) \/ be'.toks = SubSeq(t, 1, m)
            <4>1. CASE be' = Hashed
                <5>1. EnterBe \in BeRecords
                    BY <1>0, <1>1, <1>3, EnterFacts
                <5>2. be'.toks = EnterBe.toks
                    BY <4>1, <5>1 DEF Hashed, BeRecords
                <5>3. QED
                    BY <2>2, <5>2
            <4>2. CASE be' \in {Taken, Submitted}
                <5>1. be'.toks = EnterBe.toks \o Chunk
                    BY <1>0, <1>1, <1>3, <4>2, EnterFacts
                <5>2. Chunk = SubSeq(t, off + 1, m)
                    BY DEF Chunk
                <5>3. t \in Seq(Tokens) /\ off \in Nat /\ ChunkLen \in Nat /\ off + ChunkLen <= Len(t)
                    BY <1>0, Typing
                <5> HIDE DEF t
                <5>4. SubSeq(t, 1, off) \o SubSeq(t, off + 1, off + ChunkLen) = SubSeq(t, 1, off + ChunkLen)
                    BY <5>3, PrefixGrows
                <5>5. QED
                    BY <2>2, <5>1, <5>2, <5>4 DEF t
            <4>3. QED
                BY <1>3, <4>1, <4>2
        <3> HIDE DEF t, m
        <3>4. SubSeq(SubSeq(t, 1, off), 1, off) = SubSeq(t, 1, off)
              /\ SubSeq(SubSeq(t, 1, m), 1, off) = SubSeq(t, 1, off)
            BY <3>1, PrefixFacts
        <3>5. QED
            BY <3>2, <3>3, <3>4 DEF Seen, t
    <2>4. CASE be.prov = 0
        <3> DEFINE b == AsReference
                   t == [epoch |-> txn.epoch, base_target |-> Len(session),
                         evaluated |-> Len(txn.toks), kind |-> txn.kind]
        <3>1. off = 0 /\ txn.epoch > be.epoch
            BY <1>3, <2>4 DEF Accepted, CanOpen
        <3>2. b = [rows |-> session, epoch |-> be.epoch, prov |-> 0, base |-> 0, expected |-> be.expected,
                   kind |-> be.kind, ptoks |-> Seen, ckpt |-> be.ckpt]
            BY <2>4, SeenAs
        <3>3. be.ckpt = 0 /\ EnterBe.ckpt = 0
            BY <1>0, <2>4 DEF OpenInStep, EnterBe, Opened, BeRecords
        <3>4. Seen' = <<>>
            <4>1. SubSeq(txn.toks, 1, 0) = <<>>
                <5>1. txn.toks \in Seq(Tokens) /\ 0 \in 0..Len(txn.toks)
                    BY <1>0, Typing
                <5>2. SubSeq(txn.toks, 1, 0) \in Seq(Tokens) /\ Len(SubSeq(txn.toks, 1, 0)) = 0
                    BY <5>1, PrefixFacts
                <5>3. QED
                    BY <5>2, EmptySeq
            <4>2. QED
                BY <2>3, <3>1, <4>1
        <3>5. AsReference' = [rows |-> session, epoch |-> be.epoch, prov |-> txn.epoch,
                              base |-> Len(session), expected |-> Len(txn.toks),
                              kind |-> txn.kind, ptoks |-> <<>>, ckpt |-> 0]
            BY <1>1, <2>1, <2>2, <3>3, <3>4, SeenAs
        <3>6. Reference!ExecuteAccepted(b, t, off)
            BY <3>1, <3>2 DEF Reference!ExecuteAccepted
        <3>7. AsReference' = Reference!Executed(b, t, <<>>)
            BY <3>2, <3>3, <3>5 DEF Reference!Executed
        <3>8. QED
            BY <3>6, <3>7 DEF ReferenceStep
    <2>5. CASE be.prov # 0
        <3>1. EnterBe = be
            BY <2>5 DEF EnterBe
        <3>2. Good
            BY <1>0, <1>1, Places DEF Good, ReaderInv, CallInStep
        <3>3. Seen = SubSeq(txn.toks, 1, off) /\ be.prov = txn.epoch
            BY <1>0, <2>5, <3>2, SeenFacts DEF ReaderInv, CallInStep
        <3>4. QED
            BY <1>1, <2>1, <2>3, <3>1, <3>3, SeenAs
    <2>6. QED
        BY <2>4, <2>5
<1>4. QED
    BY <1>2, <1>3, EnterCases

\* A chunk is run: the reference sees it when execute returns.
LEMMA SeenRun ==
    ASSUME TilesFitChunks, StateInv, StateInv', RunTile
    PROVE  ReferenceStep \/ AsReference' = AsReference
<1>0. OpenInStep /\ BanksInStep /\ ReaderInv /\ be \in BeRecords
    BY DEF StateInv, RowsInv, ReaderInv, CallInStep
<1>1. pc = "run" /\ UNCHANGED <<session, txn>>
    BY RunCases
<1>2. pc \in Executing /\ be.prov # 0 /\ Good /\ be.prov = txn.epoch
    BY <1>0, <1>1, RunFacts
<1>3. CASE be' = be
    BY <1>0, <1>1, <1>3, SameBe, UnseenFrame
<1>4. CASE /\ be' = [be EXCEPT !.processed = be.processed + ChunkLen]
           /\ off' = off + ChunkLen /\ Return
    <2> DEFINE b == AsReference
               t == [epoch |-> txn.epoch, base_target |-> Len(session),
                     evaluated |-> Len(txn.toks), kind |-> txn.kind]
    <2>1. /\ be'.prov = be.prov /\ be'.ckpt = be.ckpt /\ be'.epoch = be.epoch
          /\ be'.base = be.base /\ be'.expected = be.expected /\ be'.kind = be.kind
        BY <1>0, <1>4 DEF BeRecords
    <2>2. Seen = SubSeq(txn.toks, 1, off) /\ Len(Seen) = off
        BY <1>2, SeenFacts
    <2>3. Seen' = SubSeq(txn.toks, 1, off + ChunkLen)
        <3>1. Good'
            BY <1>1, <1>4, Places DEF Good, Return
        <3>2. off + ChunkLen \in 0..Len(txn.toks) /\ be.processed = off /\ txn.toks \in Seq(Tokens)
            BY <1>0, <1>2, Typing, SeenFacts
        <3>3. be'.processed = off + ChunkLen
            BY <1>0, <1>4, <3>2 DEF BeRecords
        <3>4. be'.toks = SubSeq(txn.toks, 1, off + ChunkLen)
            <4>1. be.toks = SubSeq(txn.toks, 1, off + ChunkLen)
                BY <1>0, <1>2 DEF OpenInStep
            <4>2. QED
                BY <1>0, <1>4, <4>1 DEF BeRecords
        <3> DEFINE m == off + ChunkLen  s == txn.toks
        <3>5. s \in Seq(Tokens) /\ m \in 0..Len(s) /\ m \in 0..m
            BY <3>2
        <3> HIDE DEF m, s
        <3>6. SubSeq(SubSeq(s, 1, m), 1, m) = SubSeq(s, 1, m)
            BY <3>5, PrefixFacts
        <3>7. QED
            BY <3>3, <3>4, <3>6 DEF Seen, m, s
    <2>4. Seen' = Seen \o Chunk
        <3>1. txn.toks \in Seq(Tokens) /\ off \in Nat /\ ChunkLen \in Nat /\ off + ChunkLen <= Len(txn.toks)
            BY <1>0, Typing
        <3> DEFINE s == txn.toks  c == ChunkLen
        <3>2. Chunk = SubSeq(s, off + 1, off + c)
            BY DEF Chunk
        <3>3. s \in Seq(Tokens) /\ c \in Nat /\ off \in Nat /\ off + c <= Len(s)
            BY <3>1
        <3> HIDE DEF s, c
        <3>4. SubSeq(s, 1, off) \o SubSeq(s, off + 1, off + c) = SubSeq(s, 1, off + c)
            BY <3>3, PrefixGrows
        <3>5. QED
            BY <2>2, <2>3, <3>2, <3>4 DEF s, c
    <2>5. /\ be.base = Len(session) /\ be.expected = Len(txn.toks) /\ be.kind = txn.kind
        BY <1>0, <1>2 DEF OpenInStep
    <2>6. b = [rows |-> session, epoch |-> be.epoch, prov |-> txn.epoch, base |-> Len(session),
               expected |-> Len(txn.toks), kind |-> txn.kind, ptoks |-> Seen, ckpt |-> be.ckpt]
        BY <1>2, <2>5, SeenAs
    <2>7. AsReference' =
              [rows |-> session, epoch |-> be.epoch, prov |-> txn.epoch, base |-> Len(session),
               expected |-> Len(txn.toks), kind |-> txn.kind, ptoks |-> Seen \o Chunk, ckpt |-> be.ckpt]
        BY <1>1, <1>2, <2>1, <2>4, <2>5, SeenAs
    <2>8. Reference!ExecuteAccepted(b, t, off)
        BY <1>2, <2>2, <2>6 DEF Reference!ExecuteAccepted
    <2>9. AsReference' = Reference!Executed(b, t, Chunk)
        BY <1>2, <2>6, <2>7 DEF Reference!Executed
    <2>10. QED
        BY <2>8, <2>9 DEF ReferenceStep
<1>5. QED
    BY <1>3, <1>4, RunCases

\* A checkpoint is the reference's.
LEMMA SeenCheckpoint ==
    ASSUME StateInv, StateInv', Checkpoint
    PROVE  ReferenceStep
<1>0. OpenInStep /\ BanksInStep /\ ReaderInv /\ be \in BeRecords
    BY DEF StateInv, RowsInv, ReaderInv, CallInStep
<1>1. /\ pc = "idle" /\ be' = [be EXCEPT !.ckpt = off] /\ txn # NoTxn
      /\ UNCHANGED <<session, txn, off>> /\ txn.kind = "speculative"
      /\ Good /\ off \in 1..Len(txn.toks) - 1
    BY Places DEF Checkpoint, MayGoOn, driverVars, Good
<1>2. /\ be'.prov = be.prov /\ be'.base = be.base /\ be'.epoch = be.epoch /\ be'.ckpt = off
      /\ be'.expected = be.expected /\ be'.processed = be.processed
      /\ be'.kind = be.kind /\ be'.toks = be.toks
    BY <1>0, <1>1 DEF BeRecords
<1>3. be.prov # 0 /\ be.prov = txn.epoch
    BY <1>0, <1>1 DEF OpenInStep, BanksInStep, ReaderInv, CallInStep, HashesInStep
<1>4. Len(Seen) = off /\ be.kind = "speculative" /\ off > 0 /\ Seen' = Seen
    BY <1>0, <1>1, <1>2, <1>3, SeenFacts DEF OpenInStep, Seen
<1>5. AsReference = [rows |-> session, epoch |-> be.epoch, prov |-> be.prov,
          base |-> IF be.prov = 0 THEN 0 ELSE be.base, expected |-> be.expected,
          kind |-> be.kind, ptoks |-> Seen, ckpt |-> be.ckpt]
    BY SeenAs
<1>6. AsReference' = [rows |-> session, epoch |-> be.epoch, prov |-> be.prov,
          base |-> IF be.prov = 0 THEN 0 ELSE be.base, expected |-> be.expected,
          kind |-> be.kind, ptoks |-> Seen, ckpt |-> off]
    BY <1>1, <1>2, <1>4, SeenAs
<1>7. Reference!CheckpointAccepted(AsReference, txn.epoch, off)
    BY <1>3, <1>4, <1>5 DEF Reference!CheckpointAccepted
<1>8. AsReference' = Reference!Checkpointed(AsReference, off)
    BY <1>5, <1>6 DEF Reference!Checkpointed
<1>9. QED
    BY <1>7, <1>8 DEF ReferenceStep

\* A rollback is the reference's.
LEMMA SeenRollback ==
    ASSUME StateInv, StateInv', Rollback
    PROVE  ReferenceStep
<1>0. ReaderInv /\ be \in BeRecords /\ txn.epoch \in Nat /\ be.epoch \in Nat
    BY Typing DEF StateInv, RowsInv, ReaderInv, CallInStep
<1>1. be' = Closed(be, txn.epoch) /\ session' = session /\ txn # NoTxn
    BY DEF Rollback
<1>2. /\ be'.prov = 0 /\ be'.epoch = txn.epoch /\ be'.ckpt = 0 /\ be'.expected = 0
      /\ be'.kind = "invalid"
    BY <1>0, <1>1, ClosedFacts
<1>3. Seen' = <<>>
    <2>1. be'.toks = <<>> /\ be'.processed = 0
        BY <1>0, <1>1, ClosedFacts
    <2>2. QED
        BY <2>1 DEF Seen
<1>4. AsReference.prov = be.prov /\ AsReference.epoch = be.epoch /\ AsReference.rows = session
    BY SeenAs
<1>5. AsReference' = Reference!RolledBack(AsReference, txn.epoch)
    BY <1>1, <1>2, <1>3, <1>4, SeenAs DEF Reference!RolledBack, Reference!AtRest
<1>6. Reference!RollbackAccepted(AsReference, txn.epoch)
    <2>1. txn.epoch = be.epoch + 1 /\ (be.prov # 0 => be.prov = txn.epoch)
        BY <1>0, <1>1 DEF ReaderInv, CallInStep
    <2>2. QED
        BY <1>0, <1>4, <2>1 DEF Reference!RollbackAccepted
<1>7. QED
    BY <1>5, <1>6 DEF ReferenceStep

\* A reset is the reference's.
LEMMA SeenReset ==
    ASSUME StateInv, StateInv', FinishReset
    PROVE  ReferenceStep
<1>1. be' = FreshBe /\ session' = <<>> /\ pc = "reset"
    BY DEF FinishReset
<1>2. be.prov = 0
    BY <1>1 DEF StateInv, RowsInv, ReaderInv, CallInStep
<1>3. Seen' = <<>>
    BY <1>1 DEF Seen, FreshBe
<1>4. AsReference' = Reference!FreshBackend
    BY <1>1, <1>3, SeenAs DEF FreshBe, Reference!FreshBackend, Reference!AtRest
<1>5. AsReference.prov = 0
    BY <1>2, SeenAs
<1>6. QED
    BY <1>4, <1>5 DEF ReferenceStep, Reference!ResetAccepted

\* A commit is the reference's, or fails before it changed anything.
LEMMA SeenCommit ==
    ASSUME StateInv, StateInv', NEW n \in 1..ContextLimit, Commit(n)
    PROVE  ReferenceStep \/ AsReference' = AsReference
<1>0. OpenInStep /\ BanksInStep /\ ReaderInv /\ be \in BeRecords
    BY DEF StateInv, RowsInv, ReaderInv, CallInStep
<1>1. MayGoOn /\ pc = "idle"
    BY DEF Commit, MayGoOn
<1>2. CASE UNCHANGED <<be, session>>
    BY <1>0, <1>2, SameBe, UnseenFrame
<1>3. CASE /\ CommitAccepted(n)
           /\ be' = [Closed(be, be.prov) EXCEPT !.frontier = be.base + n, !.hash = be.hashes[n]]
           /\ session' = session \o SubSeq(txn.toks, 1, n)
    <2> DEFINE b == AsReference
    <2>1. /\ n \in 1..off /\ n \in 1..Len(txn.toks) /\ be.prov # 0 /\ be.prov = txn.epoch /\ Good
        BY <1>0, <1>1, <1>3, CommitFacts DEF Commit
    <2>2. /\ Seen = SubSeq(txn.toks, 1, off) /\ Len(Seen) = off /\ be.processed = off /\ off \in Nat
          /\ be.expected = Len(txn.toks) /\ be.kind = txn.kind
        BY <1>0, <2>1, SeenFacts DEF OpenInStep
    <2>3. SubSeq(Seen, 1, n) = SubSeq(txn.toks, 1, n)
        <3> DEFINE t == txn.toks
        <3>1. t \in Seq(Tokens) /\ off \in 0..Len(t) /\ n \in 0..off
            BY <1>0, <2>1, Typing
        <3> HIDE DEF t
        <3>2. SubSeq(SubSeq(t, 1, off), 1, n) = SubSeq(t, 1, n)
            BY <3>1, PrefixFacts
        <3>3. QED
            BY <2>2, <3>2 DEF t
    <2>4. b = [rows |-> session, epoch |-> be.epoch, prov |-> be.prov, base |-> be.base,
               expected |-> be.expected, kind |-> be.kind, ptoks |-> Seen, ckpt |-> be.ckpt]
        BY <2>1, SeenAs
    <2>5. /\ be'.prov = 0 /\ be'.expected = 0 /\ be'.processed = 0 /\ be'.ckpt = 0
          /\ be'.kind = "invalid" /\ be'.toks = <<>> /\ be'.epoch = be.prov
        <3> DEFINE c == Closed(be, be.prov)
        <3>4. be \in BeRecords /\ be.prov \in Nat
            BY <1>0, Typing
        <3>1. /\ c \in BeRecords /\ c.prov = 0 /\ c.expected = 0 /\ c.processed = 0
              /\ c.ckpt = 0 /\ c.kind = "invalid" /\ c.toks = <<>> /\ c.epoch = be.prov
            BY <3>4, ClosedFacts
        <3> HIDE DEF c
        <3>2. be' = [c EXCEPT !.frontier = be.base + n, !.hash = be.hashes[n]]
            BY <1>3 DEF c
        <3>5. QED
            BY <3>1, <3>2 DEF BeRecords
    <2>6. Seen' = <<>>
        BY <2>5 DEF Seen
    <2>7. AsReference' = [rows |-> session \o SubSeq(Seen, 1, n), epoch |-> be.prov, prov |-> 0, base |-> 0,
                          expected |-> 0, kind |-> "invalid", ptoks |-> <<>>, ckpt |-> 0]
        BY <1>3, <2>3, <2>5, <2>6, SeenAs
    <2>8. AsReference' = Reference!Committed(b, n)
        BY <2>4, <2>7 DEF Reference!Committed, Reference!AtRest
    <2>9. Reference!CommitAccepted(b, 0, txn.epoch, n)
        <3>1. \/ n = be.processed /\ (be.processed = be.expected \/ be.kind = "speculative")
              \/ be.kind = "speculative" /\ be.processed = n + 1 /\ be.ckpt = n
            BY <1>3 DEF CommitAccepted
        <3>2. n \in 1..Len(Seen)
            BY <2>1, <2>2
        <3>3. \/ Len(Seen) = be.expected
              \/ be.kind = "speculative" /\ Len(Seen) = n
              \/ be.kind = "speculative" /\ Len(Seen) = n + 1 /\ be.ckpt = n
            BY <2>2, <3>1
        <3>4. QED
            BY <2>1, <2>4, <3>2, <3>3 DEF Reference!CommitAccepted
    <2>10. QED
        BY <2>1, <2>8, <2>9 DEF ReferenceStep
<1>4. QED
    BY <1>2, <1>3 DEF Commit

-----------------------------------------------------------------------------

\* Every step is one call of the reference, or invisible to it.
LEMMA ReferenceSteps ==
    ASSUME TilesFitChunks, StateInv, StateInv', CudaNext \/ UNCHANGED cudaVars
    PROVE  ReferenceStep \/ AsReference' = AsReference
<1>1. CASE StageWorker
    BY <1>1, SeenEnter, SeenRun, SeenReset, UnseenSteps DEF StageWorker
<1>2. CASE Executor
    BY <1>2, SeenCheckpoint, SeenCommit, SeenRollback, UnseenSteps DEF Executor
<1>3. QED
    BY <1>1, <1>2, UnseenSteps DEF CudaNext

\* Where tiles fit chunks, the CUDA stage 0 is a StageBackend as the executor's
\* model assumes it: every step is a call of the reference that the reference
\* accepts, or invisible.
THEOREM CudaStageIsABackend ==
    ASSUME TilesFitChunks
    PROVE  CudaSpec => ImplementsStageBackend
<1>1. CudaInit => AsReference = Reference!FreshBackend
    <2>1. SUFFICES ASSUME CudaInit PROVE AsReference = Reference!FreshBackend
        OBVIOUS
    <2>2. StateInv /\ be = FreshBe /\ session = <<>>
        BY <2>1, StateInvInit DEF CudaInit
    <2>3. Seen = <<>>
        BY <2>2 DEF Seen, FreshBe
    <2>4. QED
        BY <2>2, <2>3, SeenAs DEF FreshBe, Reference!FreshBackend, Reference!AtRest
<1>2. StateInv /\ StateInv' /\ [CudaNext]_cudaVars => [ReferenceStep]_AsReference
    BY ReferenceSteps
<1>3. QED
    BY <1>1, <1>2, StateInvariant, PTL DEF CudaSpec, ImplementsStageBackend

-----------------------------------------------------------------------------
(* Without faults.                                                         *)

\* What the executor asks for next is what the backend expects.
LEMMA EnterAccepted ==
    ASSUME StateInv, pc = "enter"
    PROVE  Accepted
<1>0. OpenInStep /\ KeysInStep /\ BanksInStep /\ ReaderInv
    BY DEF StateInv, RowsInv
<1>1. Good /\ txn # NoTxn /\ txn.epoch \in Nat /\ be.epoch \in Nat
    BY <1>0, Places, Typing DEF Good, ReaderInv, CallInStep
<1>2. CASE be.prov = 0
    <2>1. off = 0 /\ Len(session) = be.frontier /\ qsa.committed = be.frontier
        BY <1>0, <1>1, <1>2 DEF OpenInStep, KeysInStep
    <2>2. ~gdn.active /\ ~ple.active /\ ~qsa.active
        BY <1>0, <1>2 DEF OpenInStep, InTxn
    <2>3. txn.epoch > be.epoch
        BY <1>0, <1>1 DEF ReaderInv, CallInStep
    <2>4. QED
        BY <1>2, <2>1, <2>2, <2>3 DEF Accepted, CanOpen
<1>3. CASE be.prov # 0
    <2>1. be.prov = txn.epoch /\ off = be.processed
        BY <1>0, <1>1, <1>3 DEF ReaderInv, CallInStep, BanksInStep
    <2>2. QED
        BY <1>0, <1>3, <2>1 DEF Accepted, NextRange, OpenInStep
<1>4. QED
    BY <1>2, <1>3

\* What the executor asks to commit is what the backend and the banks accept.
LEMMA CommitIsAccepted ==
    ASSUME StateInv, MayGoOn, NEW n \in Nat, n >= 1,
           \/ n = off /\ off = Len(txn.toks)
           \/ txn.kind = "speculative" /\ n > 0 /\ n = off - 1 /\ n = be.ckpt
    PROVE  CommitAccepted(n)
<1>0. OpenInStep /\ KeysInStep /\ BanksInStep /\ ReaderInv
    BY DEF StateInv, RowsInv
<1>1. Good /\ off \in Nat /\ pc \notin Executing
    BY <1>0, Places, Typing DEF Good, MayGoOn
<1>2. be.prov # 0
    BY <1>0, <1>1 DEF OpenInStep
<1>3. be.prov = txn.epoch /\ be.processed = off
    BY <1>0, <1>1, <1>2 DEF ReaderInv, CallInStep, BanksInStep
<1>4. /\ be.active /\ be.expected = Len(txn.toks) /\ be.kind = txn.kind /\ qsa.evaluated = off
      /\ be.ckpt # 0 => gdn.valid /\ ple.valid
    BY <1>0, <1>1, <1>2 DEF OpenInStep
<1>5. BankHolds(gdn, be.prov) /\ BankHolds(ple, be.prov) /\ QsaHolds(qsa, be.prov)
    BY <1>0, <1>2 DEF OpenInStep, InTxn, BankHolds, QsaHolds
<1>6. n \in 1..qsa.evaluated
    BY <1>1, <1>4
<1>7. n < be.processed => gdn.valid /\ ple.valid
    BY <1>1, <1>3, <1>4
<1>8. \/ n = be.processed /\ (be.processed = be.expected \/ be.kind = "speculative")
      \/ be.kind = "speculative" /\ be.processed = n + 1 /\ be.ckpt = n
    BY <1>1, <1>3, <1>4
<1>9. QED
    BY <1>3, <1>4, <1>5, <1>6, <1>7, <1>8 DEF CommitAccepted, QsaCanCommit

\* A step that leaves the reader alone, and the row the stage takes next.
LEMMA WholeFrame ==
    ASSUME ReadsWhole, UNCHANGED <<rd, job, rpc>>,
           Reading' => Reading /\ be'.read = be.read /\ NextRow' = NextRow
    PROVE  ReadsWhole'
    BY DEF ReadsWhole

\* A read that ends, or begins, has no result yet.
LEMMA WholeNew ==
    ASSUME ReadsWhole, UNCHANGED <<job, rpc>>, ~rd'.error, rpc = "finish" => rd'.cancel,
           ~Reading' \/ ~rd'.result
    PROVE  ReadsWhole'
    BY DEF ReadsWhole

\* Rows are never sought past those of the next tile.
LEMMA NextRowFrame ==
    ASSUME UNCHANGED <<txn, off, tile>>, be'.read = be.read,
           pc' \in Executing <=> pc \in Executing,
           pc' \in {"takefinal", "run"} <=> pc \in {"takefinal", "run"}
    PROVE  NextRow' = NextRow
    BY DEF NextRow, TileLen, ChunkLen

-----------------------------------------------------------------------------

\* The reader's thread.
LEMMA ReaderWhole ==
    ASSUME ~Faults, StateInv, ReadsWhole, Reader
    PROVE  ReadsWhole'
<1>0. ReaderInv /\ rd \in ReaderRecords
    BY DEF StateInv, RowsInv, ReaderInv, ReaderInStep
<1>1. UNCHANGED <<Reading, NextRow, pc, be>>
    BY DEF Reader, ReaderPick, ReaderRoom, ReaderRead, ReaderFinish, driverVars,
           Reading, Live, NextRow, TileLen, ChunkLen
<1>2. CASE ReaderPick
    <2>1. rd.request /\ rd' = [rd EXCEPT !.rows = <<>>, !.request = FALSE, !.working = TRUE]
          /\ job' = [rows |-> rd.rows, first |-> 0, error |-> FALSE] /\ rpc' = "room"
        BY <1>2 DEF ReaderPick
    <2>2. rd'.error = rd.error /\ rd'.result = rd.result /\ ~rd.result
        BY <1>0, <2>1 DEF ReaderRecords, ReaderInv, ReaderInStep
    <2>3. QED
        BY <2>1, <2>2 DEF ReadsWhole
<1>3. CASE ReaderRoom
    BY <1>1, <1>3 DEF ReaderRoom, ReadsWhole
<1>4. CASE ReaderRead
    <2> DEFINE end == IF job.first + TileTokens < Len(job.rows)
                      THEN job.first + TileTokens ELSE Len(job.rows)
               k == [first |-> job.first, rows |-> SubSeq(job.rows, job.first + 1, end)]
    <2>1. /\ rpc = "read" /\ rpc' = "room" /\ job' = [job EXCEPT !.first = job.first + TileTokens]
          /\ rd' = [rd EXCEPT !.tiles = Append(rd.tiles, k)]
        BY <1>4 DEF ReaderRead
    <2> HIDE DEF k
    <2>2. rd'.error = rd.error /\ rd'.result = rd.result /\ ~rd.result
        BY <1>0, <2>1 DEF ReaderRecords, ReaderInv, ReaderInStep
    <2>3. job'.error = job.error
        BY <1>0, <2>1 DEF ReaderInv, ReaderInStep
    <2>4. QED
        BY <2>1, <2>2, <2>3 DEF ReadsWhole
<1>5. CASE ReaderFinish
    <2>1. /\ rpc = "finish" \/ (rpc = "room" /\ job.first >= Len(job.rows))
          /\ rd' = [rd EXCEPT !.working = FALSE, !.result = TRUE, !.error = job.error]
          /\ rpc' = "wait" /\ job' = NoJob
        BY <1>5 DEF ReaderFinish
    <2>2. rd'.error = job.error /\ rd'.tiles = rd.tiles /\ ~NoJob.error
        BY <1>0, <2>1 DEF ReaderRecords, NoJob
    <2>3. ASSUME Reading
          PROVE  TilesToEnd(rd.tiles, be.read.rows, NextRow)
        <3>1. rpc = "room"
            <4>1. rpc = "finish" => pc \in Catching
                BY <1>0 DEF ReadsWhole, ReaderInv, ReaderInStep
            <4>2. QED
                BY <2>1, <2>3, <4>1 DEF Reading
        <3>2. TilesInStep(rd, job, rpc, be.read.rows, NextRow)
            BY <1>0, <2>3 DEF ReaderInv
        <3>3. job.rows = be.read.rows /\ job.first >= Len(be.read.rows)
            BY <2>1, <3>1, <3>2 DEF TilesInStep
        <3>4. IF rd.tiles = <<>> THEN job.first = NextRow \/ NextRow >= Len(be.read.rows)
              ELSE job.first = rd.tiles[Len(rd.tiles)].first + TileTokens
            BY <3>1, <3>2 DEF TilesInStep
        <3>5. QED
            BY <3>3, <3>4 DEF TilesToEnd
    <2>4. QED
        BY <1>1, <2>1, <2>2, <2>3 DEF ReadsWhole
<1>6. QED
    BY <1>2, <1>3, <1>4, <1>5 DEF Reader

\* A tile is taken, and there always is one.
LEMMA TakeWhole ==
    ASSUME TilesFitChunks, StateInv, ReadsWhole, Take
    PROVE  ReadsWhole' /\ pc' \in {"takefinal", "run"} /\ fail' = fail
<1> DEFINE rows == be.read.rows  L == Len(rows)  N == FirstRow
<1>0. ReaderInv /\ rd \in ReaderRecords
    BY DEF StateInv, RowsInv, ReaderInv, ReaderInStep
<1>1. /\ pc = "take" /\ UNCHANGED <<txn, off, tile, rpc, job, fail>>
    BY <1>0, TakeCases
<1>2. /\ Live /\ Reading /\ NextRow = N /\ N \in Nat
      /\ TilesInStep(rd, job, rpc, rows, N)
      /\ TileLen \in Nat /\ TileLen >= 1
      /\ TileLen = IF TileTokens < L - N THEN TileTokens ELSE L - N
    BY <1>0, <1>1, TakeFacts
<1>3. L \in Nat /\ rows \in Seq(Rows)
    BY <1>0, Typing
<1>4. TileTokens \in Nat /\ TileTokens >= 1
    BY CudaAssumption
<1>5. ~(rd.tiles = <<>> /\ rd.result)
    <2>1. N < L
        BY <1>2, <1>3, <1>4
    <2>2. QED
        BY <1>2, <1>3, <2>1 DEF ReadsWhole, TilesToEnd
<1>6. /\ rd.tiles # <<>> /\ rd' = [rd EXCEPT !.tiles = Tail(rd.tiles)] /\ be' = be
      /\ pc' = IF N + TileLen = rd.total THEN "takefinal" ELSE "run"
    BY <1>0, <1>5, TakeCases
<1>7. pc' \in {"takefinal", "run"} /\ pc' \in Executing /\ pc \in Executing /\ pc' \notin Catching
    BY <1>1, <1>6, Places
<1>8. NextRow' = N + TileLen
    <2>1. TileLen' = TileLen
        BY <1>1 DEF TileLen, ChunkLen
    <2>2. NextRow' = off - be.read.base + tile + TileLen
        BY <1>1, <1>6, <1>7, <2>1 DEF NextRow
    <2>3. N = off + tile - be.read.base /\ off \in Nat /\ tile \in Nat /\ be.read.base \in Nat
        BY <1>0, Typing DEF FirstRow
    <2>4. QED
        BY <1>2, <2>2, <2>3
<1>9. rd'.error = rd.error /\ rd'.result = rd.result /\ rd'.cancel = rd.cancel /\ rd'.tiles = Tail(rd.tiles)
    BY <1>0, <1>6 DEF ReaderRecords
<1>10. ASSUME rd.result
       PROVE  TilesToEnd(Tail(rd.tiles), rows, N + TileLen)
    <2> DEFINE t == rd.tiles
    <2>1. t[Len(t)].first + TileTokens >= L
        BY <1>2, <1>6, <1>10 DEF ReadsWhole, TilesToEnd
    <2>2. t \in Seq(TileRecords) /\ Len(t) \in Nat /\ t # <<>> /\ 1 \in 1..Len(t)
        BY <1>0, <1>6, EmptySeq DEF ReaderRecords
    <2>3. t[1].first = N
        BY <1>2, <2>2 DEF TilesInStep
    <2> HIDE DEF t
    <2>7. /\ Tail(t) \in Seq(TileRecords) /\ Len(Tail(t)) = Len(t) - 1
          /\ \A i \in 1..Len(Tail(t)) : Tail(t)[i] = t[i + 1]
        BY <2>2, HeadTailProperties
    <2>4. CASE Tail(t) = <<>>
        <3>0. Len(Tail(t)) = 0
            BY <2>4, <2>7, EmptySeq
        <3> DEFINE n == Len(t)
        <3>4. n - 1 = 0 /\ n \in Nat
            BY <2>2, <2>7, <3>0
        <3> HIDE DEF n
        <3>5. n = 1
            BY <3>4
        <3>1. Len(t) = 1
            BY <3>5 DEF n
        <3>2. N + TileTokens >= L
            BY <2>1, <2>3, <3>1
        <3>3. N + TileLen >= L
            BY <1>2, <1>3, <1>4, <3>2
        <3>6. QED
            BY <2>4, <3>3 DEF TilesToEnd, t
    <2>5. CASE Tail(t) # <<>>
        <3>1. Len(Tail(t)) # 0 /\ Len(Tail(t)) \in Nat
            BY <2>5, <2>7, EmptySeq
        <3>2. Tail(t)[Len(Tail(t))] = t[Len(t)]
            BY <2>2, <2>7, <3>1
        <3>3. QED
            BY <2>1, <2>5, <3>2 DEF TilesToEnd, t
    <2>6. QED
        BY <2>4, <2>5
<1>11. ReadsWhole'
    BY <1>1, <1>6, <1>8, <1>9, <1>10 DEF ReadsWhole
<1>12. QED
    BY <1>1, <1>7, <1>11

\* Two pairs of working banks are all that decoding meets.
LEMMA GraphsKept ==
    ASSUME ~Faults, GraphsInStep, gdn.at \in {0, 1}, NEW g \in GraphsAfter
    PROVE  g \in [keys : SUBSET {<<0, 0>>, <<1, 1>>}, failed : {FALSE}]
<1> DEFINE a == <<0, 0>>  b == <<1, 1>>  K == graphs.keys
<1>1. GraphKey \in {a, b}
    BY DEF GraphsInStep, GraphKey
<1>2. graphs \in [keys : SUBSET {a, b}, failed : {FALSE}] /\ K \subseteq {a, b}
    BY DEF GraphsInStep
<1>3. CASE g = graphs
    BY <1>2, <1>3
<1>4. CASE /\ GraphKey \notin K
           /\ g = IF Cardinality(K) >= 2 THEN [graphs EXCEPT !.failed = TRUE]
                  ELSE [graphs EXCEPT !.keys = graphs.keys \cup {GraphKey}]
    <2>1. \E x \in {a, b} : K \subseteq {x}
        BY <1>1, <1>2, <1>4
    <2>2. Cardinality(K) \in Nat /\ Cardinality(K) <= 1
        <3>1. PICK x \in {a, b} : K \subseteq {x}
            BY <2>1
        <3>2. IsFiniteSet({x}) /\ Cardinality({x}) = 1
            BY FS_Singleton
        <3>3. Cardinality(K) <= Cardinality({x}) /\ IsFiniteSet(K)
            BY <3>1, <3>2, FS_Subset
        <3>4. QED
            BY <3>2, <3>3, FS_CardinalityType
    <2>3. g = [graphs EXCEPT !.keys = graphs.keys \cup {GraphKey}]
        BY <1>4, <2>2
    <2> HIDE DEF a, b
    <2>4. g \in [keys : SUBSET {a, b}, failed : {FALSE}]
        BY <1>1, <1>2, <2>3
    <2>5. QED
        BY <2>4 DEF a, b
<1>5. QED
    BY <1>3, <1>4 DEF GraphsAfter

\* The stage's thread: whole reads and whole tiles, except where it is cancelled.
LEMMA WorkerHealthy ==
    ASSUME TilesFitChunks, ~Faults, StateInv, StateInv', Healthy, StageWorker
    PROVE  Healthy'
<1>0. ReaderInv /\ rd \in ReaderRecords /\ BanksInStep /\ be \in BeRecords
    BY DEF StateInv, RowsInv, ReaderInv, ReaderInStep, CallInStep
<1>1. NoCallFailed /\ ReadsWhole /\ GraphsInStep /\ pc # "catch_extent"
    BY <1>0 DEF Healthy, ReaderInv, ReaderInStep
<1>2. CASE Prefetch
    <2>1. pc = "prefetch" /\ pc' = "idle" /\ UNCHANGED <<gdn, ple, graphs, rpc, job>>
        BY <1>2 DEF Prefetch, Return, ReturnFailed, ReturnCancelled, bankVars, readerVars
    <2>2. \/ fail' \in {fail, "read_ahead"} /\ UNCHANGED <<be, rd, txn, off, tile>>
          \/ fail' = fail /\ ~ReaderBusy /\ rd' = ReaderSubmitted(HashRows(be.hash, txn.toks))
        BY <1>0, <1>2 DEF Prefetch, Return, ReturnFailed, ReturnCancelled, ReaderInv, ReaderInStep
    <2>3. NoCallFailed' /\ GraphsInStep'
        BY <1>1, <2>1, <2>2 DEF NoCallFailed, GraphsInStep
    <2>4. CASE UNCHANGED <<be, rd, txn, off, tile>>
        <3>1. Reading' = Reading /\ NextRow' = NextRow
            BY <2>1, <2>4, Places, NextRowFrame DEF Reading, Live
        <3>2. QED
            BY <1>1, <2>1, <2>3, <2>4, <3>1, WholeFrame DEF Healthy
    <2>5. CASE ~ReaderBusy /\ rd' = ReaderSubmitted(HashRows(be.hash, txn.toks))
        <3>1. ~rd'.error /\ ~rd'.result /\ rpc = "wait"
            BY <1>0, <2>5 DEF ReaderSubmitted, ReaderBusy, ReaderRecords, ReaderInv, ReaderInStep
        <3>2. QED
            BY <1>1, <2>1, <2>3, <3>1, WholeNew DEF Healthy
    <2>6. QED
        BY <2>2, <2>4, <2>5
<1>3. CASE EnterExecute
    <2>1. pc = "enter" /\ tile' = 0 /\ UNCHANGED <<txn, off, graphs, rpc, job>>
        BY <1>3, EnterCases
    <2>2. Accepted
        BY <2>1, EnterAccepted
    <2>3. EnterBe.read = be.read
        BY <1>0, <2>1, <2>2, EnterFacts
    <2>4. be.read.on <=> ReaderBusy
        BY <1>0 DEF ReaderInv, ReaderInStep
    <2>5. /\ gdn'.at = gdn.at /\ ple'.at = ple.at
        <3>1. gdn' \in {gdn, BankBegin(gdn, txn.epoch)} /\ ple' \in {ple, BankBegin(ple, txn.epoch)}
            <4>1. CASE be.prov = 0
                BY <1>3, <4>1, EnterCases
            <4>2. CASE be.prov # 0
                BY <1>3, <4>2, EnterCases
            <4>3. QED
                BY <4>1, <4>2
        <3>2. gdn \in Banks(Tokens) /\ ple \in Banks(Rows) /\ txn.epoch \in Nat
            BY <1>0, Typing DEF BanksInStep
        <3>3. BankBegin(gdn, txn.epoch).at = gdn.at /\ BankBegin(ple, txn.epoch).at = ple.at
            BY <3>2, BankBeginFacts
        <3>4. QED
            BY <3>1, <3>3
    <2>6. \/ /\ pc' = "idle" /\ fail' \in {fail, "read_ahead"} /\ rd' = rd
             /\ be' = be \/ be' = Hashed
          \/ pc' = "tile" /\ fail' = fail /\ rd' = rd /\ be' = Taken
          \/ pc' = "tile" /\ fail' = fail /\ rd' = ReaderSubmitted(EnterRows) /\ ~ReaderBusy
        BY <1>3, <2>2, <2>3, <2>4, EnterCases DEF ReturnCancelled, ReturnFailed
    <2>7. NoCallFailed' /\ GraphsInStep'
        BY <1>1, <2>1, <2>5, <2>6 DEF NoCallFailed, GraphsInStep
    <2>8. CASE rd' = ReaderSubmitted(EnterRows) /\ ~ReaderBusy
        <3>1. ~rd'.error /\ ~rd'.result /\ rpc = "wait"
            BY <1>0, <2>8 DEF ReaderSubmitted, ReaderBusy, ReaderRecords, ReaderInv, ReaderInStep
        <3>2. QED
            BY <1>1, <2>1, <2>7, <3>1, WholeNew DEF Healthy
    <2>9. CASE rd' = rd /\ pc' \in {"idle", "tile"} /\ be' \in {be, Hashed, Taken}
        <3>1. be'.read = be.read
            BY <1>0, <2>1, <2>2, <2>9, EnterFacts
        <3>2. pc \notin Executing /\ pc \notin Catching /\ pc' \notin Catching
              /\ pc \notin {"takefinal", "run"} /\ pc' \notin {"takefinal", "run"}
            BY <2>1, <2>9, Places
        <3>3. Reading' = Reading
            BY <2>1, <3>1, <3>2 DEF Reading, Live
        <3>4. off - be.read.base + 0 + 0 = NextRow
            BY <3>2 DEF NextRow
        <3>5. NextRow' = off - be.read.base + 0 + 0
            BY <2>1, <2>9, <3>1, <3>2 DEF NextRow
        <3>6. QED
            BY <1>1, <2>1, <2>7, <2>9, <3>1, <3>3, <3>4, <3>5, WholeFrame DEF Healthy
    <2>10. QED
        BY <2>6, <2>8, <2>9
<1>4. CASE TileTop
    <2>1. /\ pc = "tile" /\ pc' \in {"catch_cancelled", "take"} /\ fail' = fail
          /\ UNCHANGED <<be, rd, rpc, job, gdn, ple, graphs, txn, off, tile>>
        BY <1>4 DEF TileTop, Catch, bankVars, readerVars
    <2>2. Reading' => Reading /\ NextRow' = NextRow
        BY <2>1, Places, NextRowFrame DEF Reading, Live
    <2>3. QED
        BY <1>1, <2>1, <2>2, WholeFrame DEF Healthy, NoCallFailed, GraphsInStep
<1>5. CASE Take
    <2>1. UNCHANGED <<gdn, ple, graphs>>
        BY <1>0, <1>5, TakeCases
    <2>2. ReadsWhole' /\ pc' \in {"takefinal", "run"} /\ fail' = fail
        BY <1>1, <1>5, TakeWhole
    <2>3. QED
        BY <1>1, <2>1, <2>2 DEF Healthy, NoCallFailed, GraphsInStep
<1>6. CASE TakeFinal
    <2>1. /\ rd' = [rd EXCEPT !.result = FALSE, !.error = FALSE] /\ rd.result
          /\ UNCHANGED <<rpc, job, gdn, ple, graphs>> /\ ~rd.error
          /\ fail' = fail /\ pc' = "run"
        BY <1>1, <1>6 DEF TakeFinal, ReadsWhole, bankVars, readerVars
    <2>2. ~rd'.error /\ ~rd'.result /\ rd'.cancel = rd.cancel
        BY <1>0, <2>1 DEF ReaderRecords
    <2>3. rpc = "finish" => rd'.cancel
        BY <1>1, <2>2 DEF ReadsWhole
    <2>4. QED
        BY <1>1, <2>1, <2>2, <2>3, WholeNew DEF Healthy, NoCallFailed, GraphsInStep
<1>7. CASE RunTile
    <2>1. /\ pc = "run" /\ graphs' \in GraphsAfter /\ UNCHANGED <<txn, rd, rpc, job>>
        BY <1>7, RunCases DEF RunTile
    <2>2. gdn'.at = gdn.at /\ ple'.at = ple.at /\ gdn.at \in {0, 1}
        <3>1. SubSeq(Chunk, tile + 1, tile + TileLen) \in Seq(Tokens) /\ staged \in Seq(Rows)
            BY <1>0, <2>1, TileGiven, StagedRows, Places
        <3>2. gdn \in Banks(Tokens) /\ ple \in Banks(Rows)
            BY <1>0 DEF BanksInStep
        <3> DEFINE s == SubSeq(Chunk, tile + 1, tile + TileLen)
        <3>3. gdn' = BankFold(gdn, s) /\ ple' = BankFold(ple, staged)
            BY <1>7, RunCases
        <3>4. s \in Seq(Tokens)
            BY <3>1
        <3> HIDE DEF s
        <3>5. gdn'.at = gdn.at
            BY <3>2, <3>3, <3>4, BankFoldFacts
        <3>6. ple'.at = ple.at
            BY <3>1, <3>2, <3>3, BankFoldFacts
        <3>7. QED
            BY <3>2, <3>5, <3>6, BankTypes
    <2>3. GraphsInStep'
        BY <1>1, <2>1, <2>2, GraphsKept DEF GraphsInStep
    <2>4. /\ pc' # "catch_device"
          /\ \/ pc' = "catch_cancelled" /\ fail' = fail
             \/ pc' = "tile" /\ tile + TileLen # ChunkLen /\ tile' = tile + TileLen /\ UNCHANGED <<be, off, fail>>
             \/ /\ pc' = "idle" /\ tile + TileLen = ChunkLen /\ off' = off + ChunkLen /\ fail' = fail
                /\ be' = [be EXCEPT !.processed = be.processed + ChunkLen]
        BY <1>7 DEF RunTile, Catch, Return
    <2>5. NoCallFailed'
        BY <1>1, <2>4 DEF NoCallFailed
    <2>6. Reading' => Reading /\ be'.read = be.read /\ NextRow' = NextRow
        <3>1. NextRow = off - be.read.base + tile + TileLen
            BY <1>0, <2>1, RunFacts
        <3>2. /\ off \in Nat /\ tile \in Nat /\ TileLen \in Nat /\ be.read.base \in Nat
            BY <1>0, <2>1, RunFacts, Typing
        <3>3. pc \notin Catching
            BY <2>1, Places
        <3>4. CASE pc' = "catch_cancelled"
            BY <3>4, Places DEF Reading
        <3>5. CASE pc' = "tile" /\ tile' = tile + TileLen /\ UNCHANGED <<be, off>>
            <4>1. pc' \in Executing /\ pc' \notin {"takefinal", "run"}
                BY <3>5, Places
            <4>2. NextRow' = off - be.read.base + (tile + TileLen) + 0
                BY <3>5, <4>1 DEF NextRow
            <4>3. QED
                BY <2>1, <3>1, <3>2, <3>3, <3>5, <4>2 DEF Reading, Live
        <3>6. CASE /\ pc' = "idle" /\ tile + TileLen = ChunkLen /\ off' = off + ChunkLen
                   /\ be' = [be EXCEPT !.processed = be.processed + ChunkLen]
            <4>1. be'.read = be.read
                BY <1>0, <3>6 DEF BeRecords
            <4>2. pc' \notin Executing /\ pc' \notin {"takefinal", "run"}
                BY <3>6, Places
            <4>3. NextRow' = off' - be.read.base + 0 + 0
                BY <4>1, <4>2 DEF NextRow
            <4>4. QED
                BY <2>1, <3>1, <3>2, <3>3, <3>6, <4>1, <4>3 DEF Reading, Live
        <3>7. QED
            BY <2>4, <3>4, <3>5, <3>6
    <2>7. QED
        BY <1>1, <2>1, <2>3, <2>5, <2>6, WholeFrame DEF Healthy
<1>8. CASE Drain
    <2>1. /\ pc \in Catching /\ rd' = [rd EXCEPT !.cancel = TRUE]
          /\ UNCHANGED <<fail, pc, gdn, ple, graphs, rpc, job, be>>
        BY <1>8 DEF Drain, driverVars, bankVars, readerVars
    <2>2. rd'.error = rd.error /\ rd'.cancel /\ ~Reading'
        BY <1>0, <2>1 DEF ReaderRecords, Reading
    <2>3. QED
        BY <1>1, <2>1, <2>2, WholeNew DEF Healthy, NoCallFailed, GraphsInStep, ReadsWhole
<1>9. CASE Rethrow \/ FinishReset
    <2>1. Drained /\ rd' = ReaderDrained /\ UNCHANGED <<rpc, job, graphs>> /\ pc' = "idle"
        BY <1>9 DEF Rethrow, FinishReset, ReturnCancelled, ReturnFailed, Return, readerVars
    <2>2. fail' = fail
        BY <1>1, <1>9, Places DEF Rethrow, FinishReset, ReturnCancelled, ReturnFailed, Return, NoCallFailed
    <2>3. ~rd'.result /\ ~rd'.error /\ rpc = "wait"
        <3>1. ~rd'.result /\ rpc = "wait"
            BY <1>0, <2>1, DrainedFacts
        <3>2. ~rd'.error
            BY <1>1, <2>1 DEF ReaderDrained, FreshReader, ReadsWhole
        <3>3. QED
            BY <3>1, <3>2
    <2>4. ReadsWhole'
        BY <1>1, <2>1, <2>3, WholeNew
    <2>5. GraphsInStep'
        BY <1>1, <1>9, <2>1 DEF Rethrow, FinishReset, GraphsInStep, bankVars, FreshBank
    <2>6. QED
        BY <1>1, <2>1, <2>2, <2>4, <2>5 DEF Healthy, NoCallFailed
<1>10. QED
    BY <1>2, <1>3, <1>4, <1>5, <1>6, <1>7, <1>8, <1>9 DEF StageWorker

\* The executor's calls: none is refused, and the two banks flip together.
LEMMA ExecutorHealthy ==
    ASSUME ~Faults, StateInv, StateInv', Healthy, Executor
    PROVE  Healthy'
<1>0. ReaderInv /\ rd \in ReaderRecords /\ BanksInStep /\ be \in BeRecords /\ ReaderInv'
    BY DEF StateInv, RowsInv, ReaderInv, ReaderInStep, CallInStep
<1>1. NoCallFailed /\ ReadsWhole /\ GraphsInStep
    BY DEF Healthy
<1>2. UNCHANGED <<rd, rpc, job, graphs>>
    BY DEF Executor, Begin, NextChunk, Checkpoint, Commit, Rollback, Reset, readerVars
<1>3. CASE \E kind, toks : Begin(kind, toks)
    <2>1. /\ txn = NoTxn /\ txn'.epoch = be.epoch + 1 /\ UNCHANGED <<fail, be, gdn, ple>>
          /\ pc' \in {"prefetch", "enter"}
        BY <1>3 DEF Begin, bankVars
    <2>2. ~Reading'
        <3>1. be.read.on => be.read.epoch \in 1..be.epoch
            BY <1>0, <2>1 DEF ReaderInv, ReadInStep
        <3>2. be.epoch \in Nat /\ be.read.epoch \in Nat
            BY <1>0, Typing
        <3>3. QED
            BY <2>1, <3>1, <3>2 DEF Reading, Live
    <2>3. ReadsWhole'
        BY <1>1, <1>2, <2>2, WholeFrame
    <2>4. QED
        BY <1>1, <1>2, <2>1, <2>3 DEF Healthy, NoCallFailed, GraphsInStep
<1>4. CASE NextChunk
    <2>1. pc = "idle" /\ pc' = "enter" /\ UNCHANGED <<fail, txn, off, tile, be, gdn, ple>>
        BY <1>4 DEF NextChunk, MayGoOn, driverVars, bankVars
    <2>2. Reading' = Reading /\ NextRow' = NextRow
        BY <2>1, Places, NextRowFrame DEF Reading, Live
    <2>3. QED
        BY <1>1, <1>2, <2>1, <2>2, WholeFrame DEF Healthy, NoCallFailed, GraphsInStep
<1>5. CASE Checkpoint
    <2>1. /\ be' = [be EXCEPT !.ckpt = off] /\ UNCHANGED <<fail, txn, off, tile, pc>>
          /\ gdn' = BankCheckpoint(gdn) /\ ple' = BankCheckpoint(ple)
        BY <1>5 DEF Checkpoint, driverVars
    <2>2. be'.read = be.read
        BY <1>0, <2>1 DEF BeRecords
    <2>3. gdn'.at = gdn.at /\ ple'.at = ple.at
        BY <1>0, <2>1, BankCheckpointFacts DEF BanksInStep
    <2>4. Reading' = Reading /\ NextRow' = NextRow
        BY <2>1, <2>2, NextRowFrame DEF Reading, Live
    <2>5. QED
        BY <1>1, <1>2, <2>1, <2>2, <2>3, <2>4, WholeFrame DEF Healthy, NoCallFailed, GraphsInStep
<1>6. ASSUME NEW n \in 1..ContextLimit, Commit(n)
      PROVE  Healthy'
    <2>0. MayGoOn /\ n \in Nat /\ n >= 1
        BY <1>6, CudaAssumption DEF Commit
    <2>1. CommitAccepted(n)
        BY <1>6, <2>0, CommitIsAccepted DEF Commit
    <2>2. /\ gdn' = BankCommit(Restored(gdn, n)) /\ ple' = BankCommit(Restored(ple, n))
          /\ be' = [Closed(be, be.prov) EXCEPT !.frontier = be.base + n, !.hash = be.hashes[n]]
          /\ txn' = NoTxn /\ pc' = "idle" /\ fail' = fail
        BY <1>6, <2>1 DEF Commit, Return
    <2>3. be'.read = be.read
        <3> DEFINE c == Closed(be, be.prov)
        <3>1. c \in BeRecords /\ c.read = be.read
            BY <1>0, ClosedFacts, Typing
        <3> HIDE DEF c
        <3>2. be' = [c EXCEPT !.frontier = be.base + n, !.hash = be.hashes[n]]
            BY <2>2 DEF c
        <3>3. QED
            BY <3>1, <3>2 DEF BeRecords
    <2>4. ~Reading'
        BY <1>0, <2>2, <2>3, EndedRead
    <2>5. gdn'.at = ple'.at
        <3>1. /\ Restored(gdn, n) \in Banks(Tokens) /\ Restored(gdn, n).at = gdn.at
              /\ Restored(ple, n) \in Banks(Rows) /\ Restored(ple, n).at = ple.at
            BY <1>0, BankCheckpointFacts DEF BanksInStep, Restored
        <3>2. BankCommit(Restored(gdn, n)).at = 1 - Restored(gdn, n).at
            BY <3>1, BankEndFacts
        <3>3. BankCommit(Restored(ple, n)).at = 1 - Restored(ple, n).at
            BY <3>1, BankEndFacts
        <3>4. QED
            BY <1>1, <2>2, <3>1, <3>2, <3>3 DEF GraphsInStep
    <2>6. ReadsWhole'
        BY <1>1, <1>2, <2>4, WholeFrame
    <2>7. QED
        BY <1>1, <1>2, <2>2, <2>5, <2>6 DEF Healthy, NoCallFailed, GraphsInStep
<1>7. CASE Rollback
    <2>1. /\ be' = Closed(be, txn.epoch) /\ txn' = NoTxn /\ UNCHANGED <<fail, pc>>
          /\ gdn' = gdn \/ gdn' = BankRollback(gdn)
          /\ ple' = ple \/ ple' = BankRollback(ple)
        BY <1>7 DEF Rollback
    <2>2. be'.read = be.read
        BY <1>0, <2>1, ClosedFacts, Typing
    <2>3. ~Reading'
        BY <1>0, <2>1, <2>2, EndedRead
    <2>4. gdn'.at = gdn.at /\ ple'.at = ple.at
        <3>1. gdn \in Banks(Tokens) /\ ple \in Banks(Rows)
            BY <1>0 DEF BanksInStep
        <3>2. BankRollback(gdn).at = gdn.at /\ BankRollback(ple).at = ple.at
            BY <3>1, BankEndFacts
        <3>3. QED
            BY <2>1, <3>2
    <2>5. ReadsWhole'
        BY <1>1, <1>2, <2>3, WholeFrame
    <2>6. QED
        BY <1>1, <1>2, <2>1, <2>4, <2>5 DEF Healthy, NoCallFailed, GraphsInStep
<1>8. CASE Reset
    <2>1. pc' = "reset" /\ UNCHANGED <<fail, gdn, ple>>
        BY <1>8 DEF Reset, driverVars, bankVars
    <2>2. ~Reading'
        BY <2>1, Places DEF Reading
    <2>3. ReadsWhole'
        BY <1>1, <1>2, <2>2, WholeFrame
    <2>4. QED
        BY <1>1, <1>2, <2>1, <2>3 DEF Healthy, NoCallFailed, GraphsInStep
<1>9. QED
    BY <1>3, <1>4, <1>5, <1>6, <1>7, <1>8 DEF Executor

-----------------------------------------------------------------------------

\* Every step, when nothing is at fault.
LEMMA HealthStep ==
    ASSUME TilesFitChunks, ~Faults, StateInv, StateInv', Healthy, CudaNext \/ UNCHANGED cudaVars
    PROVE  Healthy'
<1>1. CASE Reader
    <2>1. UNCHANGED <<fail, pc, gdn, ple, graphs>>
        BY <1>1 DEF Reader, ReaderPick, ReaderRoom, ReaderRead, ReaderFinish, driverVars, bankVars
    <2>2. QED
        BY <1>1, <2>1, ReaderWhole DEF Healthy, NoCallFailed, GraphsInStep
<1>2. CASE Trip \/ UNCHANGED cudaVars
    <2>1. UNCHANGED <<fail, pc, gdn, ple, graphs, rd, rpc, job, be, txn, off, tile>>
        BY <1>2 DEF Trip, driverVars, bankVars, readerVars, cudaVars
    <2>2. Reading' = Reading /\ NextRow' = NextRow
        BY <2>1, NextRowFrame DEF Reading, Live
    <2>3. QED
        BY <2>1, <2>2, WholeFrame DEF Healthy, NoCallFailed, GraphsInStep
<1>3. QED
    BY <1>1, <1>2, WorkerHealthy, ExecutorHealthy DEF CudaNext

\* HealthInv: without a fault, and where tiles fit chunks, whatever the executor asks for is accepted, no read
\* fails, and the two recurrent banks flip together.
THEOREM HealthInvariant ==
    ASSUME TilesFitChunks
    PROVE  CudaSpec => []HealthInv
<1>1. CudaInit => HealthInv
    <2>1. SUFFICES ASSUME CudaInit PROVE HealthInv
        OBVIOUS
    <2>2. StateInv
        BY <2>1, StateInvInit
    <2>3. Healthy
        BY <2>1, Places DEF CudaInit, Healthy, NoCallFailed, ReadsWhole, GraphsInStep,
            FreshReader, NoJob, FreshBe, NoRead, Reading, Live
    <2>4. QED
        BY <2>2, <2>3 DEF HealthInv
<1>2. HealthInv /\ StateInv' /\ [CudaNext]_cudaVars => HealthInv'
    BY HealthStep DEF HealthInv
<1>3. QED
    BY <1>1, <1>2, StateInvariant, PTL DEF CudaSpec

\* Where tiles fit chunks, and without a device or storage fault, a call fails for
\* one reason only, a read-ahead left by a cancelled append, and graph decoding is
\* never switched off.  (Where they do not fit, every append of several chunks
\* fails, see ReadAheadServesChunks.)
THEOREM OnlyReadAheadFails ==
    ASSUME TilesFitChunks
    PROVE  CudaSpec => []FailsOnlyByReadAhead
<1>1. HealthInv => FailsOnlyByReadAhead
    BY DEF HealthInv, Healthy, NoCallFailed, GraphsInStep, FailsOnlyByReadAhead
<1>2. QED
    BY <1>1, HealthInvariant, PTL
=============================================================================
