------------------------- MODULE BoundaryRingProofs -------------------------
(***************************************************************************)
(* Proofs about BoundaryRing, for every number of slots and every bound.   *)
(* A step of stage 0's stream is the delicate one: it may complete an      *)
(* operation of a boundary whose slot was freed and leased again, and must *)
(* leave every slot that somebody holds as its holder expects it.          *)
(***************************************************************************)
EXTENDS BoundaryRing, SequenceTheorems, TLAPS

\* The first element of a sequence, and the rest.
LEMMA HeadTailFacts ==
    ASSUME NEW S, NEW st \in Seq(S), st # <<>>
    PROVE  /\ Head(st) = st[1] /\ Head(st) \in S /\ Tail(st) \in Seq(S)
           /\ Len(st) \in Nat \ {0} /\ Len(Tail(st)) = Len(st) - 1
           /\ \A i \in 1..Len(Tail(st)) :
                Tail(st)[i] = st[i + 1] /\ i + 1 \in 1..Len(st)
    BY HeadTailProperties, EmptySeq

\* The seven operations copy_from_device's boundary puts on stage 0's stream have
\* the ranks 0 to 6, each its own.
LEMMA RankFacts ==
    /\ \A op \in StreamOps : Rank(op) \in 0..6 /\ (op # "rows" => Rank(op) \in 1..6)
    /\ \A op1, op2 \in StreamOps : Rank(op1) = Rank(op2) => op1 = op2
    /\ Rank("rows") = 0 /\ Rank("sum") = 1 /\ Rank("sumCopy") = 2
    /\ Rank("sumReady") = 3 /\ Rank("copy1") = 4 /\ Rank("copy2") = 5 /\ Rank("ready") = 6
<1>1. /\ Rank("rows") = 0 /\ Rank("sum") = 1 /\ Rank("sumCopy") = 2
      /\ Rank("sumReady") = 3 /\ Rank("copy1") = 4 /\ Rank("copy2") = 5
      /\ Rank("ready") = 6
    BY DEF Rank
<1>2. QED
    BY <1>1 DEF StreamOps

\* An operation's place tells its boundary and its rank.
LEMMA PlaceFacts ==
    ASSUME NEW x \in StreamRecords, NEW b \in Nat, NEW r \in 0..6
    PROVE  /\ Place(x) \in Nat
           /\ Place(x) = 7 * b + r <=> x.b = b /\ Rank(x.op) = r
           /\ Place(x) > 7 * b + r <=> x.b > b \/ (x.b = b /\ Rank(x.op) > r)
<1>1. x.b \in Nat /\ x.op \in StreamOps
    BY DEF StreamRecords
<1>2. Rank(x.op) \in 0..6
    BY <1>1, RankFacts
<1>3. \A m \in Nat, n \in 0..6 :
        /\ 7 * m + n \in Nat
        /\ 7 * m + n = 7 * b + r <=> m = b /\ n = r
        /\ 7 * m + n > 7 * b + r <=> m > b \/ (m = b /\ n > r)
    OBVIOUS
<1>4. QED
    BY <1>1, <1>2, <1>3 DEF Place

\* The places of a stream's operations are numbers.
LEMMA PlacesAreNat ==
    ASSUME NEW st \in Seq(StreamRecords), NEW i \in 1..Len(st)
    PROVE  st[i] \in StreamRecords /\ Place(st[i]) \in Nat
<1>1. st[i] \in StreamRecords
    BY ElementOfSeq
<1>2. QED
    BY <1>1, PlaceFacts, 0 \in Nat, 0 \in 0..6

\* The buffers of a slot after operation x of stage 0's stream, with `rows' in the
\* workspace.
Written(buf, x, rows) ==
    CASE x.op = "sum" -> [buf EXCEPT !.sumDevice = Whole(rows)]
      [] x.op = "sumCopy" -> [buf EXCEPT !.sum = buf.sumDevice]
      [] x.op = "copy1" -> [buf EXCEPT !.host[1] = rows]
      [] x.op = "copy2" -> [buf EXCEPT !.host[2] = rows]
      [] OTHER -> buf

\* Executing the oldest operation of a stream in order keeps what a holder of slot
\* s is owed: an operation of its own boundary leaves its result in the slot, one of
\* an older boundary that still writes to the slot is overwritten later, one of a
\* later boundary does not touch it.
LEMMA HoldingTail ==
    ASSUME NEW st \in Seq(StreamRecords), st # <<>>, NEW rows \in Nat, InOrder(st, rows),
           NEW s, NEW b \in Nat, NEW p \in 0..6, NEW buf \in SlotRecords,
           Holding(buf, st, s, b, p), NEW after,
           after = IF Head(st).op # "rows" /\ Head(st).arg = s
                   THEN Written(buf, Head(st), rows) ELSE buf
    PROVE  Holding(after, Tail(st), s, b, p)
<1> DEFINE x == Head(st)  t == Tail(st)
<1>a. /\ t \in Seq(StreamRecords) /\ Len(t) = Len(st) - 1 /\ Len(st) \in Nat \ {0}
      /\ \A i \in 1..Len(t) : t[i] = st[i + 1]
      /\ x = st[1] /\ x \in StreamRecords
    BY HeadTailProperties, EmptySeq
<1>b. \A i \in 1..Len(st) : st[i] \in StreamRecords
    BY ElementOfSeq
<1> HIDE DEF x, t
<1>c. ASSUME NEW r \in 0..6, Behind(t, b, r)
      PROVE  Behind(st, b, r) \/ Place(x) <= 7 * b + r
    <2>1. ASSUME NEW i \in 1..Len(st), i # 1 PROVE Place(st[i]) > 7 * b + r
        <3>1. i - 1 \in 1..Len(t) /\ st[i] = t[i - 1]
            BY <1>a, <2>1
        <3>2. QED
            BY <1>c, <3>1 DEF Behind
    <2>2. Place(x) \in Nat
        BY <1>a, PlaceFacts
    <2>3. QED
        BY <1>a, <2>1, <2>2 DEF Behind
<1>d. ASSUME NEW r \in 1..p, Behind(t, b, r), ~Behind(st, b, r)
      PROVE  x.b = b /\ Rank(x.op) = r /\ x.op # "rows" /\ x.arg = s /\ rows = b
    <2>1. PICK i \in 1..Len(st) : Place(st[i]) = 7 * b + r
        BY <1>d DEF Holding
    <2>2. i = 1
        <3>1. CASE i # 1
            <4>1. i - 1 \in 1..Len(t) /\ st[i] = t[i - 1]
                BY <1>a, <3>1
            <4>2. QED
                BY <1>d, <2>1, <4>1 DEF Behind
        <3>2. QED
            BY <3>1
    <2>3. x.b = b /\ Rank(x.op) = r
        <3>1. Place(x) = 7 * b + r /\ r \in 0..6
            BY <1>a, <2>1, <2>2
        <3>2. QED
            BY <1>a, <3>1, PlaceFacts
    <2>4. x.op # "rows"
        BY <2>3, RankFacts
    <2>5. x.arg = s
        BY <1>a, <2>3, <2>4 DEF Holding
    <2>6. x.b = rows
        BY <1>a, <2>4 DEF InOrder
    <2>7. QED
        BY <2>3, <2>4, <2>5, <2>6
<1>e. ASSUME x.op # "rows", x.arg = s, NEW r \in 0..6, Behind(st, b, r)
      PROVE  x.b = b /\ Rank(x.op) > r
    <2>1. Place(x) > 7 * b + r
        BY <1>a, <1>e DEF Behind
    <2>2. x.b > b \/ (x.b = b /\ Rank(x.op) > r)
        BY <1>a, <2>1, PlaceFacts
    <2>3. ~(x.b > b)
        BY <1>a, <1>e DEF Holding
    <2>4. QED
        BY <2>2, <2>3
<1>f. /\ after.leased = buf.leased
      /\ after.sumDevice = IF x.op = "sum" /\ x.arg = s THEN Whole(rows) ELSE buf.sumDevice
      /\ after.sum = IF x.op = "sumCopy" /\ x.arg = s THEN buf.sumDevice ELSE buf.sum
      /\ after.host[1] = IF x.op = "copy1" /\ x.arg = s THEN rows ELSE buf.host[1]
      /\ after.host[2] = IF x.op = "copy2" /\ x.arg = s THEN rows ELSE buf.host[2]
    <2>1. after = IF x.op # "rows" /\ x.arg = s THEN Written(buf, x, rows) ELSE buf
        BY DEF x
    <2>2. QED
        BY <2>1, SMTT(30) DEF Written, SlotRecords
<1>1. after.leased
    BY <1>f DEF Holding
<1>2. \A i \in 1..Len(t) : t[i].op # "rows" =>
        /\ t[i].b = b => t[i].arg = s
        /\ t[i].b > b => t[i].arg # s
    BY <1>a DEF Holding
<1>3. ASSUME NEW r \in 1..p
      PROVE  Behind(t, b, r) \/ \E i \in 1..Len(t) : Place(t[i]) = 7 * b + r
    <2>1. CASE Behind(st, b, r)
        BY <1>a, <2>1 DEF Behind
    <2>2. CASE ~Behind(st, b, r)
        <3>1. PICK i \in 1..Len(st) : Place(st[i]) = 7 * b + r
            BY <2>2 DEF Holding
        <3>2. CASE i = 1
            <4>1. ASSUME NEW j \in 1..Len(t) PROVE Place(t[j]) > 7 * b + r
                <5>1. j + 1 \in 1..Len(st) /\ 1 \in 1..Len(st) /\ 1 < j + 1
                    BY <1>a
                <5>2. Place(st[1]) < Place(st[j + 1])
                    BY <5>1 DEF InOrder
                <5>3. QED
                    BY <1>a, <3>1, <3>2, <5>2
            <4>2. QED
                BY <4>1 DEF Behind
        <3>3. CASE i # 1
            <4>1. i - 1 \in 1..Len(t) /\ st[i] = t[i - 1]
                BY <1>a, <3>3
            <4>2. QED
                BY <3>1, <4>1
        <3>4. QED
            BY <3>2, <3>3
    <2>3. QED
        BY <2>1, <2>2
<1>4. ASSUME p >= 1, Behind(t, b, 1) PROVE after.sumDevice = Whole(b)
    <2>1. CASE Behind(st, b, 1)
        <3>1. ~(x.op = "sum" /\ x.arg = s)
            BY <1>e, <2>1, RankFacts
        <3>2. QED
            BY <1>f, <1>4, <2>1, <3>1 DEF Holding
    <2>2. CASE ~Behind(st, b, 1)
        <3>1. x.op = "sum" /\ x.arg = s /\ rows = b
            <4>1. Rank(x.op) = 1 /\ x.arg = s /\ rows = b
                BY <1>d, <1>4, <2>2
            <4>2. QED
                BY <1>a, <4>1, RankFacts DEF StreamRecords, StreamOps
        <3>2. QED
            BY <1>f, <3>1
    <2>3. QED
        BY <2>1, <2>2
<1>5. ASSUME p >= 2, Behind(t, b, 2) PROVE after.sum = Whole(b)
    <2>1. CASE Behind(st, b, 2)
        <3>1. ~(x.op = "sumCopy" /\ x.arg = s)
            BY <1>e, <2>1, RankFacts
        <3>2. QED
            BY <1>f, <1>5, <2>1, <3>1 DEF Holding
    <2>2. CASE ~Behind(st, b, 2)
        <3>1. x.op = "sumCopy" /\ x.arg = s /\ Place(x) = 7 * b + 2
            <4>1. Rank(x.op) = 2 /\ x.arg = s /\ x.b = b
                BY <1>d, <1>5, <2>2
            <4>2. QED
                BY <1>a, <4>1, RankFacts DEF StreamRecords, StreamOps, Place
        <3>2. Behind(st, b, 1)
            <4>1. ASSUME NEW i \in 1..Len(st) PROVE Place(st[i]) > 7 * b + 1
                <5>1. CASE i = 1
                    BY <1>a, <3>1, <5>1
                <5>2. CASE i # 1
                    <6>1. 1 \in 1..Len(st) /\ 1 < i
                        BY <1>a, <5>2
                    <6>2. Place(st[1]) < Place(st[i]) /\ Place(st[i]) \in Nat
                        BY <1>b, <6>1, PlaceFacts DEF InOrder
                    <6>3. QED
                        BY <1>a, <3>1, <6>2
                <5>3. QED
                    BY <5>1, <5>2
            <4>2. QED
                BY <4>1 DEF Behind
        <3>3. QED
            BY <1>f, <1>5, <3>1, <3>2 DEF Holding
    <2>3. QED
        BY <2>1, <2>2
<1>6. ASSUME p >= 4, Behind(t, b, 4) PROVE after.host[1] = b
    <2>1. CASE Behind(st, b, 4)
        <3>1. ~(x.op = "copy1" /\ x.arg = s)
            BY <1>e, <2>1, RankFacts
        <3>2. QED
            BY <1>f, <1>6, <2>1, <3>1 DEF Holding
    <2>2. CASE ~Behind(st, b, 4)
        <3>1. x.op = "copy1" /\ x.arg = s /\ rows = b
            <4>1. Rank(x.op) = 4 /\ x.arg = s /\ rows = b
                BY <1>d, <1>6, <2>2
            <4>2. QED
                BY <1>a, <4>1, RankFacts DEF StreamRecords, StreamOps
        <3>2. QED
            BY <1>f, <3>1
    <2>3. QED
        BY <2>1, <2>2
<1>7. ASSUME p >= 5, Behind(t, b, 5) PROVE after.host[2] = b
    <2>1. CASE Behind(st, b, 5)
        <3>1. ~(x.op = "copy2" /\ x.arg = s)
            BY <1>e, <2>1, RankFacts
        <3>2. QED
            BY <1>f, <1>7, <2>1, <3>1 DEF Holding
    <2>2. CASE ~Behind(st, b, 5)
        <3>1. x.op = "copy2" /\ x.arg = s /\ rows = b
            <4>1. Rank(x.op) = 5 /\ x.arg = s /\ rows = b
                BY <1>d, <1>7, <2>2
            <4>2. QED
                BY <1>a, <4>1, RankFacts DEF StreamRecords, StreamOps
        <3>2. QED
            BY <1>f, <3>1
    <2>3. QED
        BY <2>1, <2>2
<1>8. QED
    BY <1>1, <1>2, <1>3, <1>4, <1>5, <1>6, <1>7 DEF Holding, t

\* The elements of a sequence with one more at its end.
LEMMA AppendFacts ==
    ASSUME NEW st \in Seq(StreamRecords), NEW x \in StreamRecords
    PROVE  /\ Append(st, x) \in Seq(StreamRecords) /\ Append(st, x) # <<>>
           /\ Len(st) \in Nat /\ Len(Append(st, x)) = Len(st) + 1
           /\ \A i \in 1..Len(st) : Append(st, x)[i] = st[i]
           /\ Append(st, x)[Len(st) + 1] = x
           /\ \A i \in 1..Len(Append(st, x)) : i \in 1..Len(st) \/ i = Len(st) + 1
    BY AppendProperties, LenProperties

\* Issuing an operation of a later boundary, for another slot, keeps it too.
LEMMA HoldingAppend ==
    ASSUME NEW st \in Seq(StreamRecords), NEW x \in StreamRecords,
           NEW s, NEW b \in Nat, NEW p \in 0..6, NEW buf,
           Holding(buf, st, s, b, p), x.b > b, x.op = "rows" \/ x.arg # s
    PROVE  Holding(buf, Append(st, x), s, b, p)
<1> DEFINE t == Append(st, x)
<1>a. /\ Len(st) \in Nat /\ Len(t) = Len(st) + 1
      /\ \A i \in 1..Len(st) : t[i] = st[i] /\ i \in 1..Len(t)
      /\ t[Len(st) + 1] = x
      /\ \A i \in 1..Len(t) : i \in 1..Len(st) \/ i = Len(st) + 1
    BY AppendFacts
<1> HIDE DEF t
<1>b. \A r \in 0..6 : Place(x) > 7 * b + r
    BY PlaceFacts
<1>c. \A r \in 0..6 : Behind(t, b, r) <=> Behind(st, b, r)
    BY <1>a, <1>b DEF Behind
<1>1. \A i \in 1..Len(t) : t[i].op # "rows" =>
        /\ t[i].b = b => t[i].arg = s
        /\ t[i].b > b => t[i].arg # s
    <2>1. x.b # b
        BY DEF StreamRecords
    <2>2. QED
        BY <1>a, <2>1 DEF Holding
<1>2. ASSUME NEW r \in 1..p
      PROVE  Behind(t, b, r) \/ \E i \in 1..Len(t) : Place(t[i]) = 7 * b + r
    <2>1. CASE Behind(st, b, r)
        BY <1>c, <2>1
    <2>2. CASE ~Behind(st, b, r)
        <3>1. PICK i \in 1..Len(st) : Place(st[i]) = 7 * b + r
            BY <2>2 DEF Holding
        <3>2. QED
            BY <1>a, <3>1
    <2>3. QED
        BY <2>1, <2>2
<1>3. QED
    BY <1>1, <1>2, <1>c, SMTT(30) DEF Holding, t

\* Issuing the next operation of the holder's own boundary: one more of them is in
\* the stream.
LEMMA HoldingIssue ==
    ASSUME NEW st \in Seq(StreamRecords), NEW x \in StreamRecords,
           NEW s, NEW b \in Nat, NEW p \in 0..5, NEW buf,
           Holding(buf, st, s, b, p), x.b = b, x.arg = s, Rank(x.op) = p + 1
    PROVE  Holding(buf, Append(st, x), s, b, p + 1)
<1> DEFINE t == Append(st, x)
<1>a. /\ Len(st) \in Nat /\ Len(t) = Len(st) + 1
      /\ \A i \in 1..Len(st) : t[i] = st[i] /\ i \in 1..Len(t)
      /\ t[Len(st) + 1] = x /\ Len(st) + 1 \in 1..Len(t)
      /\ \A i \in 1..Len(t) : i \in 1..Len(st) \/ i = Len(st) + 1
    BY AppendFacts
<1> HIDE DEF t
<1>b. Place(x) = 7 * b + (p + 1)
    BY DEF Place
<1>c. /\ \A r \in 0..p : Behind(t, b, r) <=> Behind(st, b, r)
      /\ ~Behind(t, b, p + 1)
    BY <1>a, <1>b, SMTT(30) DEF Behind
<1>1. \A i \in 1..Len(t) : t[i].op # "rows" =>
        /\ t[i].b = b => t[i].arg = s
        /\ t[i].b > b => t[i].arg # s
    BY <1>a DEF Holding
<1>2. ASSUME NEW r \in 1..(p + 1)
      PROVE  Behind(t, b, r) \/ \E i \in 1..Len(t) : Place(t[i]) = 7 * b + r
    <2>1. CASE r = p + 1
        BY <1>a, <1>b, <2>1
    <2>2. CASE r # p + 1
        <3>1. r \in 1..p
            BY <2>2
        <3>2. QED
            BY <1>a, <1>c, <3>1 DEF Holding
    <2>3. QED
        BY <2>1, <2>2
<1>3. QED
    <2>1. ASSUME NEW r \in 1..6, p + 1 >= r, Behind(t, b, r)
          PROVE  p >= r /\ Behind(st, b, r)
        <3>1. r # p + 1
            BY <1>c, <2>1
        <3>2. r \in 0..p
            BY <2>1, <3>1
        <3>3. QED
            BY <1>c, <2>1, <3>2
    <2>2. /\ p + 1 >= 1 /\ Behind(t, b, 1) => buf.sumDevice = Whole(b)
          /\ p + 1 >= 2 /\ Behind(t, b, 2) => buf.sum = Whole(b)
          /\ p + 1 >= 4 /\ Behind(t, b, 4) => buf.host[1] = b
          /\ p + 1 >= 5 /\ Behind(t, b, 5) => buf.host[2] = b
        BY <2>1 DEF Holding
    <2>3. buf.leased
        BY DEF Holding
    <2>4. QED
        BY <1>1, <1>2, <2>2, <2>3 DEF Holding, t

\* A slot leased when everything in the stream belongs to older boundaries is held
\* for the new one, with nothing issued: copies of a failed call may still be on
\* their way to it.
LEMMA HoldingNew ==
    ASSUME NEW st \in Seq(StreamRecords), NEW s, NEW b \in Nat, NEW buf, buf.leased,
           \A i \in 1..Len(st) : Place(st[i]) <= 7 * b
    PROVE  Holding(buf, st, s, b, 0)
<1>1. ASSUME NEW i \in 1..Len(st), st[i].op # "rows" PROVE st[i].b < b
    <2>1. st[i] \in StreamRecords
        BY ElementOfSeq
    <2>2. st[i].b \in Nat /\ Rank(st[i].op) \in 1..6
        BY <1>1, <2>1, RankFacts DEF StreamRecords
    <2>3. QED
        BY <2>2 DEF Place
<1>2. ASSUME NEW i \in 1..Len(st) PROVE st[i].b \in Nat
    <2>1. st[i] \in StreamRecords
        BY ElementOfSeq
    <2>2. QED
        BY <2>1 DEF StreamRecords
<1>3. QED
    BY <1>1, <1>2 DEF Holding

\* A stream in order stays in order when its oldest operation is executed.
LEMMA InOrderTail ==
    ASSUME NEW st \in Seq(StreamRecords), st # <<>>, NEW rows \in Nat, InOrder(st, rows)
    PROVE  InOrder(Tail(st), IF Head(st).op = "rows" THEN Head(st).arg ELSE rows)
<1> DEFINE x == Head(st)  t == Tail(st)
<1>a. /\ t \in Seq(StreamRecords) /\ Len(t) = Len(st) - 1 /\ Len(st) \in Nat \ {0}
      /\ \A i \in 1..Len(t) : t[i] = st[i + 1] /\ i + 1 \in 1..Len(st)
      /\ x = st[1] /\ x \in StreamRecords
    BY HeadTailProperties, EmptySeq
<1> HIDE DEF x, t
<1>1. ASSUME NEW i \in 1..Len(t), NEW j \in 1..Len(t), i < j
      PROVE  Place(t[i]) < Place(t[j])
    <2>1. i + 1 \in 1..Len(st) /\ j + 1 \in 1..Len(st) /\ i + 1 < j + 1
        BY <1>a, <1>1
    <2>2. Place(st[i + 1]) < Place(st[j + 1])
        BY <2>1 DEF InOrder
    <2>3. QED
        BY <1>a, <2>2
<1>2. ASSUME NEW i \in 1..Len(t)
      PROVE  /\ t[i].op = "rows" => t[i].arg = t[i].b
             /\ t[i].op # "rows" =>
                  t[i].b = IF i = 1 THEN IF x.op = "rows" THEN x.arg ELSE rows
                           ELSE t[i - 1].b
    <2>1. /\ t[i].op = "rows" => t[i].arg = t[i].b
          /\ t[i].op # "rows" => t[i].b = st[i].b
        BY <1>a, SMTT(30) DEF InOrder
    <2>2. CASE i = 1
        <3>1. st[1].b = IF x.op = "rows" THEN x.arg ELSE rows
            BY <1>a DEF InOrder
        <3>2. QED
            BY <2>1, <2>2, <3>1
    <2>3. CASE i # 1
        <3>1. st[i] = t[i - 1]
            BY <1>a, <2>3
        <3>2. QED
            BY <2>1, <2>3, <3>1
    <2>4. QED
        BY <2>2, <2>3
<1>3. QED
    BY <1>1, <1>2 DEF InOrder, x, t

\* A stream in order stays in order when copy_from_device issues an operation of the
\* boundary the last one in it belongs to, or the rows of the next.
LEMMA InOrderAppend ==
    ASSUME NEW st \in Seq(StreamRecords), NEW rows \in Nat, InOrder(st, rows),
           NEW x \in StreamRecords, \A i \in 1..Len(st) : Place(st[i]) < Place(x),
           x.op = "rows" => x.arg = x.b,
           x.op # "rows" => x.b = IF st = <<>> THEN rows ELSE st[Len(st)].b
    PROVE  InOrder(Append(st, x), rows)
<1> DEFINE t == Append(st, x)
<1>a. /\ Len(st) \in Nat /\ Len(t) = Len(st) + 1
      /\ \A i \in 1..Len(st) : t[i] = st[i]
      /\ t[Len(st) + 1] = x
      /\ \A i \in 1..Len(t) : i \in 1..Len(st) \/ i = Len(st) + 1
      /\ st = <<>> <=> Len(st) = 0
    BY AppendFacts, EmptySeq
<1> HIDE DEF t
<1>1. \A i, j \in 1..Len(t) : i < j => Place(t[i]) < Place(t[j])
    BY <1>a DEF InOrder
<1>2. ASSUME NEW i \in 1..Len(t)
      PROVE  /\ t[i].op = "rows" => t[i].arg = t[i].b
             /\ t[i].op # "rows" => t[i].b = IF i = 1 THEN rows ELSE t[i - 1].b
    <2>1. CASE i \in 1..Len(st)
        <3>1. i # 1 => t[i - 1] = st[i - 1]
            BY <1>a, <2>1
        <3>2. QED
            BY <1>a, <2>1, <3>1 DEF InOrder
    <2>2. CASE i = Len(st) + 1
        <3>1. i # 1 => t[i - 1] = st[Len(st)]
            BY <1>a, <2>2
        <3>2. QED
            BY <1>a, <2>2, <3>1
    <2>3. QED
        BY <1>a, <2>1, <2>2
<1>3. QED
    BY <1>1, <1>2 DEF InOrder, t

\* How many operations copy_from_device has issued at each of its steps.
LEMMA ProgressFacts ==
    /\ \A pc \in ProducerPcs : Progress(pc) \in 0..6
    /\ Progress("scan") = 0 /\ Progress("wait") = 0 /\ Progress("sum") = 0
    /\ Progress("idle") = 6 /\ Progress("sync") = 6
    /\ \A i \in 1..6 : Progress(Issued[i]) = i - 1 /\ Rank(Issued[i]) = i
          /\ Issued[i] \in StreamOps \ {"rows"}
    /\ Issued[1] = "sum" /\ Issued \in Seq(StreamOps) /\ Len(Issued) = 6
    /\ \A i \in 1..5 : Progress(Issued[i + 1]) = i
<1>1. /\ Progress("scan") = 0 /\ Progress("wait") = 0 /\ Progress("sum") = 0
      /\ Progress("sumCopy") = 1 /\ Progress("sumReady") = 2 /\ Progress("copy1") = 3
      /\ Progress("copy2") = 4 /\ Progress("ready") = 5
      /\ Progress("idle") = 6 /\ Progress("sync") = 6
    BY DEF Progress
<1>2. /\ Issued[1] = "sum" /\ Issued[2] = "sumCopy" /\ Issued[3] = "sumReady"
      /\ Issued[4] = "copy1" /\ Issued[5] = "copy2" /\ Issued[6] = "ready"
      /\ Issued \in Seq(StreamOps) /\ Len(Issued) = 6
    BY DEF Issued, StreamOps
<1>3. \A i \in 1..6 : i = 1 \/ i = 2 \/ i = 3 \/ i = 4 \/ i = 5 \/ i = 6
    OBVIOUS
<1>4. \A i \in 1..6 : Progress(Issued[i]) = i - 1 /\ Rank(Issued[i]) = i
          /\ Issued[i] \in StreamOps \ {"rows"}
    BY <1>1, <1>2, <1>3, RankFacts DEF StreamOps
<1>5. \A i \in 1..5 : i + 1 \in 1..6 /\ (i + 1) - 1 = i
    OBVIOUS
<1>6. \A pc \in ProducerPcs : Progress(pc) \in 0..6
    BY <1>1 DEF ProducerPcs, StreamOps
<1>7. QED
    BY <1>1, <1>2, <1>4, <1>5, <1>6

\* When a boundary's r-th operation has left the stream, so have those before it.
LEMMA BehindDown ==
    ASSUME NEW st \in Seq(StreamRecords), NEW b \in Nat, NEW r \in 0..6, NEW q \in 0..r,
           Behind(st, b, r)
    PROVE  Behind(st, b, q)
<1>1. ASSUME NEW i \in 1..Len(st) PROVE Place(st[i]) > 7 * b + q
    <2>1. st[i] \in StreamRecords
        BY ElementOfSeq
    <2>2. Place(st[i]) \in Nat
        BY <2>1, PlaceFacts
    <2>3. Place(st[i]) > 7 * b + r
        BY DEF Behind
    <2>4. QED
        BY <2>2, <2>3
<1>2. QED
    BY <1>1 DEF Behind

\* What cudaEventSynchronize tells the holder of a slot: its boundary's operations up
\* to the event have been executed, whatever older records of the same event there
\* were.
LEMMA EventPassed ==
    ASSUME NEW st \in Seq(StreamRecords), NEW s, NEW b \in Nat, NEW p \in 0..6, NEW buf,
           Holding(buf, st, s, b, p), NEW event \in StreamOps \ {"rows"},
           Rank(event) <= p, Passed(st, event, s)
    PROVE  Behind(st, b, Rank(event))
<1>1. Rank(event) \in 1..p /\ Rank(event) \in 0..6
    BY RankFacts
<1>2. ASSUME NEW i \in 1..Len(st), Place(st[i]) = 7 * b + Rank(event)
      PROVE  FALSE
    <2>1. st[i] \in StreamRecords
        BY ElementOfSeq
    <2>2. st[i].b = b /\ Rank(st[i].op) = Rank(event)
        BY <1>1, <1>2, <2>1, PlaceFacts
    <2>3. st[i].op = event
        BY <2>1, <2>2, RankFacts DEF StreamRecords
    <2>4. st[i].arg = s
        BY <2>2, <2>3 DEF Holding
    <2>5. QED
        BY <2>3, <2>4 DEF Passed
<1>3. QED
    BY <1>1, <1>2 DEF Holding

\* Every step of the streams, of copy_from_device, of stage 1's execute and of the
\* leases' destructors preserves RingInv; one case per action.
LEMMA RingInvInductive == RingInv /\ [RingNext]_ringVars => RingInv'
<1> SUFFICES ASSUME RingInv, [RingNext]_ringVars PROVE RingInv'
    OBVIOUS
<1>a. /\ RingTypeOK /\ StreamInOrder /\ SlotsAreHeld /\ SlotsAreApart
      /\ StageOneReadsItsOwn /\ BoundaryIsOwn
    BY DEF RingInv
<1>b. /\ slots \in [SlotIds -> SlotRecords] /\ pstream \in Seq(StreamRecords)
      /\ source \in Nat /\ leases \in Seq(LeaseRecords)
      /\ cstream \in Seq([op : {"copy1", "copy2", "layers"}, arg : SlotIds])
      /\ target \in [1..2 -> Nat] /\ seen \in [1..2 -> Nat]
      /\ answer \in [want : Nat, got : [1..2 -> Nat], mismatch : BOOLEAN]
    BY <1>a DEF RingTypeOK
<1>c. /\ producer.pc \in ProducerPcs /\ producer.slot \in SlotIds /\ producer.b \in Nat
      /\ producer = [pc |-> producer.pc, slot |-> producer.slot, b |-> producer.b]
      /\ Progress(producer.pc) \in 0..6
    BY <1>a, ProgressFacts DEF RingTypeOK
<1>d. /\ consumer.pc \in ConsumerPcs /\ consumer.lease \in LeaseRecords
      /\ consumer.lease.slot \in SlotIds /\ consumer.lease.b \in Nat
      /\ consumer = [pc |-> consumer.pc, lease |-> consumer.lease]
    BY <1>a DEF RingTypeOK, LeaseRecords
<1>e. \A i \in 1..Len(leases) : leases[i] \in LeaseRecords
          /\ leases[i].slot \in SlotIds /\ leases[i].b \in Nat
    <2>1. \A i \in 1..Len(leases) : leases[i] \in LeaseRecords
        BY <1>b, ElementOfSeq
    <2>2. QED
        BY <2>1 DEF LeaseRecords
<1>1. CASE ProducerStreamStep
    <2> DEFINE x == Head(pstream)
    <2>a. /\ pstream # <<>> /\ pstream' = Tail(pstream)
          /\ source' = IF x.op = "rows" THEN x.arg ELSE source
          /\ UNCHANGED <<producer, leases, consumer, cstream, target, seen, answer>>
        BY <1>1 DEF ProducerStreamStep, stage1Vars
    <2>b. /\ x = pstream[1] /\ x \in StreamRecords /\ x.op \in StreamOps /\ x.arg \in Nat
          /\ Tail(pstream) \in Seq(StreamRecords) /\ Len(pstream) \in Nat \ {0}
          /\ Len(Tail(pstream)) = Len(pstream) - 1
          /\ \A i \in 1..Len(Tail(pstream)) :
                Tail(pstream)[i] = pstream[i + 1] /\ i + 1 \in 1..Len(pstream)
        <3>1. x \in StreamRecords
            BY <1>b, <2>a, HeadTailFacts
        <3>2. QED
            BY <1>b, <2>a, <3>1, HeadTailFacts DEF StreamRecords
    <2>c. /\ slots' \in [SlotIds -> SlotRecords]
          /\ \A s \in SlotIds :
                slots'[s] = IF x.op # "rows" /\ x.arg = s THEN Written(slots[s], x, source)
                            ELSE slots[s]
        <3>1. slots' = CASE x.op = "sum" -> [slots EXCEPT ![x.arg].sumDevice = Whole(source)]
                      [] x.op = "sumCopy" -> [slots EXCEPT ![x.arg].sum = slots[x.arg].sumDevice]
                      [] x.op = "copy1" -> [slots EXCEPT ![x.arg].host[1] = source]
                      [] x.op = "copy2" -> [slots EXCEPT ![x.arg].host[2] = source]
                      [] OTHER -> slots
            BY <1>1 DEF ProducerStreamStep
        <3> HIDE DEF x
        <3>2. Whole(source) \in [1..2 -> Nat]
            BY <1>b DEF Whole
        <3>3. CASE x.op = "sum"
            BY <1>b, <3>1, <3>2, <3>3 DEF Written, SlotRecords
        <3>4. CASE x.op = "sumCopy"
            BY <1>b, <3>1, <3>4, Zenon DEF Written, SlotRecords
        <3>5. CASE x.op = "copy1"
            BY <1>b, <3>1, <3>5, Zenon DEF Written, SlotRecords
        <3>6. CASE x.op = "copy2"
            BY <1>b, <3>1, <3>6, Zenon DEF Written, SlotRecords
        <3>7. CASE x.op \notin {"sum", "sumCopy", "copy1", "copy2"}
            BY <1>b, <3>1, <3>7 DEF Written
        <3>8. QED
            BY <3>3, <3>4, <3>5, <3>6, <3>7
    <2>d. \A s \in SlotIds, b \in Nat, p \in 0..6 :
             Holding(slots[s], pstream, s, b, p) => Holding(slots'[s], pstream', s, b, p)
        <3> SUFFICES ASSUME NEW s \in SlotIds, NEW b \in Nat, NEW p \in 0..6,
                            Holding(slots[s], pstream, s, b, p)
                     PROVE  Holding(slots'[s], Tail(pstream), s, b, p)
            BY <2>a
        <3>1. slots[s] \in SlotRecords /\ InOrder(pstream, source)
            BY <1>a, <1>b DEF StreamInOrder
        <3>2. QED
            BY <1>b, <2>a, <2>c, <3>1, HoldingTail
    <2>e. \A b \in Nat, r \in 0..6 : Behind(pstream, b, r) => Behind(pstream', b, r)
        BY <2>a, <2>b DEF Behind
    <2>1. RingTypeOK'
        BY <1>a, <2>a, <2>b, <2>c DEF RingTypeOK
    <2>2. StreamInOrder'
        <3>1. InOrder(pstream', source')
            BY <1>a, <1>b, <2>a, InOrderTail DEF StreamInOrder
        <3>2. \A i \in 1..Len(pstream') :
                Place(pstream'[i]) <= 7 * producer'.b + Progress(producer'.pc)
            BY <1>a, <2>a, <2>b DEF StreamInOrder
        <3>3. ASSUME producer.pc # "idle"
              PROVE  producer.b = IF pstream' = <<>> THEN source' ELSE pstream'[Len(pstream')].b
            <4>1. producer.b = pstream[Len(pstream)].b
                BY <1>a, <2>a, <3>3 DEF StreamInOrder
            <4>2. CASE Len(pstream) = 1
                <5>1. pstream' = <<>>
                    BY <2>a, <2>b, <4>2, EmptySeq
                <5>2. x.b = source'
                    BY <1>a, <2>a, <2>b DEF StreamInOrder, InOrder
                <5>3. QED
                    BY <2>b, <4>1, <4>2, <5>1, <5>2
            <4>3. CASE Len(pstream) # 1
                <5>1. pstream' # <<>> /\ pstream'[Len(pstream')] = pstream[Len(pstream)]
                    BY <2>a, <2>b, <4>3, EmptySeq
                <5>2. QED
                    BY <4>1, <5>1
            <4>4. QED
                BY <4>2, <4>3
        <3>4. QED
            BY <2>a, <3>1, <3>2, <3>3 DEF StreamInOrder
    <2>3. SlotsAreHeld'
        <3>1. Filling => Holding(slots'[producer.slot], pstream', producer.slot,
                                 producer.b, Progress(producer.pc))
            BY <1>a, <1>c, <2>d DEF SlotsAreHeld
        <3>2. ASSUME NEW l \in LeaseRecords, LeaseHolds(l, slots, pstream, producer)
              PROVE  LeaseHolds(l, slots', pstream', producer)
            <4>1. l.slot \in SlotIds /\ l.b \in Nat /\ 6 \in 0..6
                BY DEF LeaseRecords
            <4>2. QED
                BY <2>d, <3>2, <4>1 DEF LeaseHolds
        <3>3. consumer.pc # "idle" => LeaseHolds(consumer.lease, slots', pstream', producer)
            BY <1>a, <1>d, <3>2 DEF SlotsAreHeld
        <3>4. \A i \in 1..Len(leases) : LeaseHolds(leases[i], slots', pstream', producer)
            BY <1>a, <1>e, <3>2 DEF SlotsAreHeld
        <3>5. QED
            BY <2>a, <3>1, <3>3, <3>4 DEF SlotsAreHeld, Filling
    <2>4. SlotsAreApart' /\ BoundaryIsOwn'
        BY <1>a, <2>a DEF SlotsAreApart, BoundaryIsOwn, Filling
    <2>5. StageOneReadsItsOwn'
        BY <1>a, <1>d, <2>a, <2>e DEF StageOneReadsItsOwn
    <2>6. QED
        BY <2>1, <2>2, <2>3, <2>4, <2>5 DEF RingInv
<1>2. CASE ConsumerStreamStep
    <2> DEFINE x == Head(cstream)
    <2>a. /\ cstream # <<>> /\ cstream' = Tail(cstream)
          /\ target' = CASE x.op = "copy1" -> [target EXCEPT ![1] = slots[x.arg].host[1]]
                         [] x.op = "copy2" -> [target EXCEPT ![2] = slots[x.arg].host[2]]
                         [] OTHER -> target
          /\ seen' = IF x.op = "layers" THEN target ELSE seen
          /\ UNCHANGED <<slots, producer, pstream, source, leases, consumer, answer>>
        BY <1>2 DEF ConsumerStreamStep, stage0Vars
    <2>b. /\ x = cstream[1] /\ x.op \in {"copy1", "copy2", "layers"} /\ x.arg \in SlotIds
          /\ Tail(cstream) \in Seq([op : {"copy1", "copy2", "layers"}, arg : SlotIds])
          /\ Len(cstream) \in Nat \ {0} /\ Len(Tail(cstream)) = Len(cstream) - 1
          /\ \A i \in 1..Len(Tail(cstream)) : Tail(cstream)[i] = cstream[i + 1]
        <3>1. x \in [op : {"copy1", "copy2", "layers"}, arg : SlotIds]
            BY <1>b, <2>a, HeadTailFacts
        <3>2. QED
            BY <1>b, <2>a, <3>1, HeadTailFacts
    <2>c. \A s \in SlotIds : slots[s].host \in [1..2 -> Nat]
        BY <1>b DEF SlotRecords
    <2>1. RingTypeOK'
        <3>1. target' \in [1..2 -> Nat] /\ seen' \in [1..2 -> Nat]
            BY <1>b, <2>a, <2>b, <2>c, SMTT(30)
        <3>2. cstream' \in Seq([op : {"copy1", "copy2", "layers"}, arg : SlotIds])
            BY <2>a, <2>b
        <3>3. QED
            BY <1>a, <2>a, <3>1, <3>2 DEF RingTypeOK
    <2>2. (StreamInOrder /\ SlotsAreHeld /\ SlotsAreApart /\ BoundaryIsOwn)'
        BY <1>a, <2>a DEF StreamInOrder, SlotsAreHeld, SlotsAreApart, BoundaryIsOwn, Filling
    <2>3. StageOneReadsItsOwn'
        <3> DEFINE s == consumer.lease.slot  b == consumer.lease.b
        <3>1. consumer.pc \in {"copy1", "layers", "sync"} => Behind(pstream, b, 6)
            BY <1>a DEF StageOneReadsItsOwn
        <3>2. consumer.pc \in {"copy1", "layers", "sync"} =>
                  slots[s].host[1] = b /\ slots[s].host[2] = b
            <4>1. consumer.pc # "idle" => Holding(slots[s], pstream, s, b, 6)
                BY <1>a DEF SlotsAreHeld, LeaseHolds
            <4>2. Behind(pstream, b, 6) => Behind(pstream, b, 4) /\ Behind(pstream, b, 5)
                BY <1>b, <1>d, BehindDown
            <4>3. QED
                BY <3>1, <4>1, <4>2 DEF Holding
        <3>3. x.op = "copy1" /\ x.arg = s /\ consumer.pc \in {"layers", "sync"} =>
                 target'[1] = b
            BY <1>b, <2>a, <3>2
        <3>4. x.op = "copy2" /\ x.arg = s /\ consumer.pc \in {"layers", "sync"} =>
                 target'[1] = target[1] /\ target'[2] = b
            BY <1>b, <2>a, <3>2
        <3>5. target' \in [1..2 -> Nat] /\ Whole(b) \in [1..2 -> Nat]
              /\ Whole(b)[1] = b /\ Whole(b)[2] = b
            BY <1>d, <2>1 DEF Whole, RingTypeOK
        <3>6. target'[1] = b /\ target'[2] = b => target' = Whole(b)
            BY <3>5
        <3> DEFINE n == Len(cstream)  n2 == Len(cstream')
                   at(k, op) == cstream[k].op = op /\ cstream[k].arg = s
                   at2(k, op) == cstream'[k].op = op /\ cstream'[k].arg = s
        <3>a. /\ n \in Nat \ {0} /\ n2 = n - 1 /\ x = cstream[1]
              /\ \A i \in 1..n2 : cstream'[i] = cstream[i + 1]
            BY <2>a, <2>b
        <3>7. ASSUME consumer.pc = "layers"
              PROVE  \/ n2 >= 2 /\ at2(n2 - 1, "copy1") /\ at2(n2, "copy2")
                     \/ n2 = 1 /\ at2(n2, "copy2") /\ target'[1] = b
                     \/ n2 = 0 /\ target' = Whole(b)
            <4>1. \/ n >= 2 /\ at(n - 1, "copy1") /\ at(n, "copy2")
                  \/ n = 1 /\ at(n, "copy2") /\ target[1] = b
                BY <1>a, <3>7, <3>a DEF StageOneReadsItsOwn
            <4>2. CASE n >= 3
                <5>1. cstream'[n2] = cstream[n] /\ cstream'[n2 - 1] = cstream[n - 1]
                    BY <3>a, <4>2
                <5>2. QED
                    BY <3>a, <4>1, <4>2, <5>1
            <4>3. CASE n = 2
                BY <3>3, <3>7, <3>a, <4>1, <4>3
            <4>4. CASE n = 1
                BY <3>4, <3>6, <3>7, <3>a, <4>1, <4>4
            <4>5. QED
                BY <3>a, <4>2, <4>3, <4>4
        <3>8. ASSUME consumer.pc = "sync"
              PROVE  \/ /\ n2 >= 3 /\ at2(n2 - 2, "copy1") /\ at2(n2 - 1, "copy2")
                        /\ cstream'[n2].op = "layers"
                     \/ /\ n2 = 2 /\ at2(n2 - 1, "copy2") /\ cstream'[n2].op = "layers"
                        /\ target'[1] = b
                     \/ n2 = 1 /\ cstream'[n2].op = "layers" /\ target' = Whole(b)
                     \/ n2 = 0 /\ seen' = Whole(b)
            <4>1. \/ /\ n >= 3 /\ at(n - 2, "copy1") /\ at(n - 1, "copy2")
                     /\ cstream[n].op = "layers"
                  \/ /\ n = 2 /\ at(n - 1, "copy2") /\ cstream[n].op = "layers"
                     /\ target[1] = b
                  \/ n = 1 /\ cstream[n].op = "layers" /\ target = Whole(b)
                BY <1>a, <3>8, <3>a DEF StageOneReadsItsOwn
            <4>2. CASE n >= 4
                <5>1. /\ cstream'[n2] = cstream[n] /\ cstream'[n2 - 1] = cstream[n - 1]
                      /\ cstream'[n2 - 2] = cstream[n - 2]
                    BY <3>a, <4>2, SMTT(30)
                <5>2. at(n - 2, "copy1") /\ at(n - 1, "copy2") /\ cstream[n].op = "layers"
                    BY <4>1, <4>2
                <5>3. QED
                    BY <3>a, <4>2, <5>1, <5>2
            <4>3. CASE n = 3
                BY <3>3, <3>8, <3>a, <4>1, <4>3
            <4>4. CASE n = 2
                BY <3>4, <3>6, <3>8, <3>a, <4>1, <4>4
            <4>5. CASE n = 1
                BY <2>a, <3>a, <4>1, <4>5
            <4>6. QED
                BY <3>a, <4>2, <4>3, <4>4, <4>5
        <3>9. QED
            BY <2>a, <3>1, <3>7, <3>8 DEF StageOneReadsItsOwn
    <2>4. QED
        BY <2>1, <2>2, <2>3 DEF RingInv
<1>3. CASE StartBoundary
    <2> DEFINE x == [op |-> "rows", arg |-> producer.b + 1, b |-> producer.b + 1]
    <2>a. /\ producer.pc = "idle" /\ pstream' = Append(pstream, x)
          /\ producer' = [pc |-> "scan", slot |-> producer.slot, b |-> producer.b + 1]
          /\ UNCHANGED <<slots, source, leases, consumer, cstream, target, seen, answer>>
        BY <1>3, <1>c DEF StartBoundary, stage1Vars
    <2>b. /\ x \in StreamRecords /\ x.op = "rows" /\ x.arg = x.b /\ x.b = producer.b + 1
          /\ Place(x) = 7 * (producer.b + 1)
        BY <1>c, RankFacts DEF StreamRecords, StreamOps, Place
    <2> HIDE DEF x
    <2>c. /\ pstream' \in Seq(StreamRecords) /\ pstream' # <<>>
          /\ Len(pstream) \in Nat /\ Len(pstream') = Len(pstream) + 1
          /\ \A i \in 1..Len(pstream) : pstream'[i] = pstream[i]
          /\ pstream'[Len(pstream) + 1] = x
          /\ \A i \in 1..Len(pstream') : i \in 1..Len(pstream) \/ i = Len(pstream) + 1
        BY <1>b, <2>a, <2>b, AppendFacts, SMTT(30)
    <2>d. \A i \in 1..Len(pstream) : Place(pstream[i]) <= 7 * producer.b + 6
                                      /\ Place(pstream[i]) \in Nat
        <3>1. \A i \in 1..Len(pstream) : Place(pstream[i]) \in Nat
            BY <1>b, PlacesAreNat
        <3>2. QED
            BY <1>a, <2>a, <3>1, ProgressFacts DEF StreamInOrder
    <2>e. \A l \in LeaseRecords : LeaseHolds(l, slots, pstream, producer) =>
                                  LeaseHolds(l, slots', pstream', producer')
        <3> SUFFICES ASSUME NEW l \in LeaseRecords, LeaseHolds(l, slots, pstream, producer)
                     PROVE  LeaseHolds(l, slots', pstream', producer')
            OBVIOUS
        <3>1. l.b \in Nat /\ l.b <= producer.b /\ x.b > l.b
            BY <1>c, <2>b DEF LeaseRecords, LeaseHolds
        <3>2. Holding(slots'[l.slot], pstream', l.slot, l.b, 6)
            <4>1. Holding(slots[l.slot], pstream, l.slot, l.b, 6)
                BY DEF LeaseHolds
            <4>2. Holding(slots[l.slot], Append(pstream, x), l.slot, l.b, 6)
                BY <1>b, <2>b, <3>1, <4>1, HoldingAppend, 6 \in 0..6
            <4>3. QED
                BY <2>a, <4>2
        <3>3. QED
            BY <1>c, <2>a, <3>1, <3>2 DEF LeaseHolds
    <2>1. RingTypeOK'
        BY <1>a, <1>c, <2>a, <2>c, SMTT(30) DEF RingTypeOK, ProducerPcs
    <2>2. StreamInOrder'
        <3>1. InOrder(pstream', source')
            <4>1. \A i \in 1..Len(pstream) : Place(pstream[i]) < Place(x)
                BY <1>c, <2>b, <2>d
            <4>2. QED
                BY <1>a, <1>b, <2>a, <2>b, <4>1, InOrderAppend DEF StreamInOrder
        <3>2. \A i \in 1..Len(pstream') :
                Place(pstream'[i]) <= 7 * producer'.b + Progress(producer'.pc)
            BY <1>c, <2>a, <2>b, <2>c, <2>d, ProgressFacts
        <3>3. QED
            BY <2>a, <2>b, <2>c, <3>1, <3>2 DEF StreamInOrder
    <2>3. SlotsAreHeld'
        BY <1>a, <1>d, <1>e, <2>a, <2>e DEF SlotsAreHeld, Filling
    <2>4. SlotsAreApart' /\ BoundaryIsOwn'
        BY <1>a, <2>a DEF SlotsAreApart, BoundaryIsOwn, Filling
    <2>5. StageOneReadsItsOwn'
        <3>1. consumer.pc # "idle" => consumer.lease.b <= producer.b
            BY <1>a DEF SlotsAreHeld, LeaseHolds
        <3>2. consumer.pc \in {"copy1", "layers", "sync"} =>
                 Behind(pstream', consumer.lease.b, 6)
            <4>1. consumer.pc # "idle" => Place(x) > 7 * consumer.lease.b + 6
                BY <1>c, <1>d, <2>b, <3>1
            <4>2. QED
                BY <1>a, <2>c, <4>1 DEF StageOneReadsItsOwn, Behind
        <3>3. QED
            BY <1>a, <2>a, <3>2 DEF StageOneReadsItsOwn
    <2>6. QED
        BY <2>1, <2>2, <2>3, <2>4, <2>5 DEF RingInv
<1>4. CASE AcquireSlot
    <2>1. CASE Unleased = {}
        <3>a. /\ producer.pc = "scan" /\ producer' = [producer EXCEPT !.pc = "wait"]
              /\ UNCHANGED <<slots, pstream, source, leases, consumer, cstream, target,
                             seen, answer>>
            BY <1>4, <2>1 DEF AcquireSlot, stage1Vars
        <3>b. /\ producer' \in [pc : ProducerPcs, slot : SlotIds, b : Nat]
              /\ producer'.pc = "wait" /\ producer'.b = producer.b
            BY <1>c, <3>a DEF ProducerPcs
        <3>1. RingTypeOK'
            BY <1>a, <3>a, <3>b DEF RingTypeOK
        <3>2. StreamInOrder'
            BY <1>a, <3>a, <3>b, ProgressFacts DEF StreamInOrder
        <3>3. SlotsAreHeld'
            BY <1>a, <3>a, <3>b DEF SlotsAreHeld, LeaseHolds, Filling
        <3>4. (SlotsAreApart /\ StageOneReadsItsOwn /\ BoundaryIsOwn)'
            BY <1>a, <3>a, <3>b DEF SlotsAreApart, StageOneReadsItsOwn, BoundaryIsOwn, Filling
        <3>5. QED
            BY <3>1, <3>2, <3>3, <3>4 DEF RingInv
    <2>2. CASE Unleased # {}
        <3>a. PICK s \in Unleased :
                /\ slots' = [slots EXCEPT ![s].leased = TRUE]
                /\ producer' = [producer EXCEPT !.pc = Issued[1], !.slot = s]
            BY <1>4, <2>2 DEF AcquireSlot
        <3>b. /\ producer.pc = "scan"
              /\ UNCHANGED <<pstream, source, leases, consumer, cstream, target,
                             seen, answer>>
            BY <1>4, <2>2 DEF AcquireSlot, stage1Vars
        <3>c. s \in SlotIds /\ ~slots[s].leased
            BY DEF Unleased
        <3>d. /\ producer' \in [pc : ProducerPcs, slot : SlotIds, b : Nat]
              /\ producer'.pc = "sum" /\ producer'.b = producer.b /\ producer'.slot = s
            BY <1>c, <3>a, <3>c, ProgressFacts DEF ProducerPcs, StreamOps
        <3>e. /\ slots' \in [SlotIds -> SlotRecords] /\ slots'[s].leased
              /\ \A k \in SlotIds : k # s => slots'[k] = slots[k]
            BY <1>b, <3>a, <3>c DEF SlotRecords
        <3>f. /\ consumer.pc # "idle" => slots[consumer.lease.slot].leased
              /\ \A i \in 1..Len(leases) : slots[leases[i].slot].leased
            BY <1>a DEF SlotsAreHeld, LeaseHolds, Holding
        <3>1. RingTypeOK'
            BY <1>a, <3>b, <3>d, <3>e DEF RingTypeOK
        <3>2. StreamInOrder'
            BY <1>a, <3>b, <3>d, ProgressFacts DEF StreamInOrder
        <3>3. SlotsAreHeld'
            <4>1. Holding(slots'[s], pstream, s, producer.b, 0)
                <5>1. \A i \in 1..Len(pstream) : Place(pstream[i]) <= 7 * producer.b
                    <6>1. \A i \in 1..Len(pstream) : Place(pstream[i]) <= 7 * producer.b + 0
                        BY <1>a, <3>b, ProgressFacts DEF StreamInOrder
                    <6>2. QED
                        BY <1>c, <6>1
                <5>2. QED
                    BY <1>b, <1>c, <3>e, <5>1, HoldingNew
            <4>2. \A l \in LeaseRecords :
                    LeaseHolds(l, slots, pstream, producer) =>
                    LeaseHolds(l, slots', pstream', producer')
                <5> SUFFICES ASSUME NEW l \in LeaseRecords,
                                    LeaseHolds(l, slots, pstream, producer)
                             PROVE  LeaseHolds(l, slots', pstream', producer')
                    OBVIOUS
                <5>1. l.slot \in SlotIds /\ slots[l.slot].leased
                    BY DEF LeaseRecords, LeaseHolds, Holding
                <5>2. slots'[l.slot] = slots[l.slot]
                    BY <3>c, <3>e, <5>1
                <5>3. QED
                    BY <3>b, <3>d, <5>2 DEF LeaseHolds
            <4>3. QED
                BY <1>a, <1>d, <1>e, <3>b, <3>d, <4>1, <4>2, ProgressFacts
                DEF SlotsAreHeld, Filling
        <3>4. SlotsAreApart'
            BY <1>a, <3>b, <3>c, <3>d, <3>f DEF SlotsAreApart, Filling
        <3>5. (StageOneReadsItsOwn /\ BoundaryIsOwn)'
            BY <1>a, <3>b DEF StageOneReadsItsOwn, BoundaryIsOwn
        <3>6. QED
            BY <3>1, <3>2, <3>3, <3>4, <3>5 DEF RingInv
    <2>3. QED
        BY <2>1, <2>2
<1>5. CASE IssueOp
    <2>a. PICK k \in 1..6 :
            /\ producer.pc = Issued[k]
            /\ pstream' = Append(pstream, [op |-> Issued[k], arg |-> producer.slot,
                                           b |-> producer.b])
            /\ producer' = [producer EXCEPT !.pc = IF k = 6 THEN "sync" ELSE Issued[k + 1]]
            /\ UNCHANGED <<slots, source, leases, consumer, cstream, target, seen, answer>>
        BY <1>5, ProgressFacts DEF IssueOp, stage1Vars
    <2> DEFINE x == [op |-> Issued[k], arg |-> producer.slot, b |-> producer.b]
    <2>b. /\ x \in StreamRecords /\ x.op # "rows" /\ x.arg = producer.slot
          /\ x.b = producer.b /\ Rank(x.op) = k /\ Place(x) = 7 * producer.b + k
        BY <1>c, ProgressFacts, RankFacts DEF StreamRecords, Place, SlotIds
    <2> HIDE DEF x
    <2>c. /\ pstream' = Append(pstream, x)
          /\ pstream' \in Seq(StreamRecords) /\ pstream' # <<>>
          /\ Len(pstream) \in Nat /\ Len(pstream') = Len(pstream) + 1
          /\ \A i \in 1..Len(pstream) : pstream'[i] = pstream[i]
          /\ pstream'[Len(pstream) + 1] = x
          /\ \A i \in 1..Len(pstream') : i \in 1..Len(pstream) \/ i = Len(pstream) + 1
        <3>1. pstream' = Append(pstream, x)
            BY <2>a DEF x
        <3>2. QED
            BY <1>b, <2>b, <3>1, AppendFacts, SMTT(30)
    <2>d. /\ producer' \in [pc : ProducerPcs, slot : SlotIds, b : Nat]
          /\ producer'.b = producer.b /\ producer'.slot = producer.slot
          /\ producer'.pc \notin {"idle", "scan", "wait"} /\ Filling
          /\ Progress(producer.pc) = k - 1 /\ Progress(producer'.pc) = k
        <3>1. /\ Issued[k] \in StreamOps \ {"rows"} /\ Progress(producer.pc) = k - 1
            BY <2>a, ProgressFacts
        <3>2. CASE k = 6
            BY <1>c, <2>a, <3>1, <3>2, ProgressFacts DEF ProducerPcs, StreamOps, Filling
        <3>3. CASE k # 6
            <4>1. k + 1 \in 1..6 /\ k \in 1..5
                BY <3>3
            <4>2. /\ Issued[k + 1] \in StreamOps \ {"rows"}
                  /\ Progress(Issued[k + 1]) = k
                BY <4>1, ProgressFacts
            <4>3. producer' = [producer EXCEPT !.pc = Issued[k + 1]]
                BY <2>a, <3>3
            <4>4. QED
                BY <1>c, <2>a, <3>1, <4>2, <4>3 DEF ProducerPcs, StreamOps, Filling
        <3>4. QED
            BY <3>2, <3>3
    <2>e. \A i \in 1..Len(pstream) : Place(pstream[i]) < Place(x)
                                      /\ Place(pstream[i]) \in Nat
        <3>1. \A i \in 1..Len(pstream) : Place(pstream[i]) \in Nat
            BY <1>b, PlacesAreNat
        <3>2. \A i \in 1..Len(pstream) : Place(pstream[i]) <= 7 * producer.b + (k - 1)
            BY <1>a, <2>d DEF StreamInOrder
        <3>3. QED
            BY <1>c, <2>b, <3>1, <3>2
    <2>f. \A l \in LeaseRecords :
            LeaseHolds(l, slots, pstream, producer) /\ l.slot # producer.slot =>
            LeaseHolds(l, slots', pstream', producer')
        <3> SUFFICES ASSUME NEW l \in LeaseRecords, LeaseHolds(l, slots, pstream, producer),
                            l.slot # producer.slot
                     PROVE  LeaseHolds(l, slots', pstream', producer')
            OBVIOUS
        <3>1. l.b \in Nat /\ l.b < producer.b
            BY <2>d DEF LeaseRecords, LeaseHolds, Filling
        <3>2. Holding(slots[l.slot], pstream, l.slot, l.b, 6)
            BY DEF LeaseHolds
        <3>3. x.b > l.b /\ x.arg # l.slot
            BY <1>c, <2>b, <3>1
        <3>4. Holding(slots[l.slot], Append(pstream, x), l.slot, l.b, 6)
            BY <1>b, <2>b, <3>1, <3>2, <3>3, HoldingAppend, 6 \in 0..6
        <3>5. QED
            BY <2>a, <2>c, <2>d, <3>1, <3>4 DEF LeaseHolds
    <2>1. RingTypeOK'
        BY <1>a, <2>a, <2>c, <2>d DEF RingTypeOK
    <2>2. StreamInOrder'
        <3>1. InOrder(pstream', source')
            <4>1. x.b = IF pstream = <<>> THEN source ELSE pstream[Len(pstream)].b
                BY <1>a, <2>b, <2>d DEF StreamInOrder, Filling
            <4>2. QED
                BY <1>a, <1>b, <2>a, <2>b, <2>c, <2>e, <4>1, InOrderAppend DEF StreamInOrder
        <3>2. \A i \in 1..Len(pstream') :
                Place(pstream'[i]) <= 7 * producer'.b + Progress(producer'.pc)
            BY <1>c, <2>b, <2>c, <2>d, <2>e, SMTT(30)
        <3>3. QED
            BY <2>b, <2>c, <2>d, <3>1, <3>2 DEF StreamInOrder
    <2>3. SlotsAreHeld'
        <3>1. Holding(slots[producer.slot], pstream, producer.slot, producer.b, k - 1)
            BY <1>a, <2>d DEF SlotsAreHeld
        <3>2. Holding(slots[producer.slot], Append(pstream, x), producer.slot,
                      producer.b, (k - 1) + 1)
            <4>1. k - 1 \in 0..5 /\ Rank(x.op) = (k - 1) + 1
                BY <2>b
            <4>2. QED
                BY <1>b, <1>c, <2>b, <3>1, <4>1, HoldingIssue
        <3>3. (k - 1) + 1 = k
            OBVIOUS
        <3>4. /\ consumer.pc # "idle" => consumer.lease.slot # producer.slot
              /\ \A i \in 1..Len(leases) : leases[i].slot # producer.slot
            BY <1>a, <2>d DEF SlotsAreApart
        <3>5. QED
            BY <1>a, <1>d, <1>e, <2>a, <2>c, <2>d, <2>f, <3>2, <3>3, <3>4
            DEF SlotsAreHeld
    <2>4. SlotsAreApart' /\ BoundaryIsOwn'
        BY <1>a, <2>a, <2>d DEF SlotsAreApart, BoundaryIsOwn, Filling
    <2>5. StageOneReadsItsOwn'
        <3>1. consumer.pc # "idle" => consumer.lease.b < producer.b
            BY <1>a, <2>d DEF SlotsAreHeld, LeaseHolds, Filling
        <3>2. consumer.pc \in {"copy1", "layers", "sync"} =>
                 Behind(pstream', consumer.lease.b, 6)
            <4>1. consumer.pc # "idle" => Place(x) > 7 * consumer.lease.b + 6
                BY <1>c, <1>d, <2>b, <3>1
            <4>2. QED
                BY <1>a, <2>c, <4>1 DEF StageOneReadsItsOwn, Behind
        <3>3. QED
            BY <1>a, <2>a, <3>2 DEF StageOneReadsItsOwn
    <2>6. QED
        BY <2>1, <2>2, <2>3, <2>4, <2>5 DEF RingInv
<1>6. CASE ReturnLease
    <2> DEFINE l == [slot |-> producer.slot, b |-> producer.b,
                     frame |-> slots[producer.slot].sum]
    <2>a. /\ producer.pc = "sync" /\ Passed(pstream, "sumReady", producer.slot)
          /\ leases' = Append(leases, l)
          /\ producer' = [producer EXCEPT !.pc = "idle"]
          /\ UNCHANGED <<slots, pstream, source, consumer, cstream, target, seen, answer>>
        BY <1>6 DEF ReturnLease, stage1Vars
    <2>b. /\ producer' \in [pc : ProducerPcs, slot : SlotIds, b : Nat]
          /\ producer'.pc = "idle" /\ producer'.b = producer.b
        BY <1>c, <2>a DEF ProducerPcs
    <2>c. Holding(slots[producer.slot], pstream, producer.slot, producer.b, 6)
        BY <1>a, <2>a, ProgressFacts DEF SlotsAreHeld, Filling
    <2>d. slots[producer.slot].sum = Whole(producer.b)
        <3>1. Behind(pstream, producer.b, 3)
            <4>1. /\ Rank("sumReady") = 3 /\ Rank("sumReady") <= 6
                  /\ "sumReady" \in StreamOps \ {"rows"}
                BY RankFacts DEF StreamOps
            <4>2. Behind(pstream, producer.b, Rank("sumReady"))
                BY <1>b, <1>c, <2>a, <2>c, <4>1, EventPassed, 6 \in 0..6
            <4>3. QED
                BY <4>1, <4>2
        <3>2. Behind(pstream, producer.b, 2)
            BY <1>b, <1>c, <3>1, BehindDown
        <3>3. QED
            BY <2>c, <3>2 DEF Holding
    <2>e. l \in LeaseRecords /\ LeaseHolds(l, slots', pstream', producer')
        <3>1. slots[producer.slot].sum \in [1..2 -> Nat]
            BY <1>b, <1>c DEF SlotRecords
        <3>2. QED
            BY <1>c, <2>a, <2>b, <2>c, <2>d, <3>1 DEF LeaseRecords, LeaseHolds
    <2>f. /\ l.slot = producer.slot /\ Filling
          /\ Len(leases) \in Nat /\ Len(leases') = Len(leases) + 1
          /\ leases' \in Seq(LeaseRecords)
          /\ \A i \in 1..Len(leases) : leases'[i] = leases[i]
          /\ leases'[Len(leases) + 1] = l
          /\ \A i \in 1..Len(leases') : i \in 1..Len(leases) \/ i = Len(leases) + 1
        BY <1>b, <2>a, <2>e, AppendProperties, LenProperties, SMTT(30) DEF Filling
    <2> HIDE DEF l
    <2>1. RingTypeOK'
        BY <1>a, <2>a, <2>b, <2>f DEF RingTypeOK
    <2>2. StreamInOrder'
        BY <1>a, <2>a, <2>b, ProgressFacts DEF StreamInOrder
    <2>3. SlotsAreHeld'
        <3>1. \A m \in LeaseRecords : LeaseHolds(m, slots, pstream, producer) =>
                                      LeaseHolds(m, slots', pstream', producer')
            BY <2>a, <2>b DEF LeaseHolds
        <3>2. QED
            BY <1>a, <1>d, <1>e, <2>a, <2>b, <2>e, <2>f, <3>1 DEF SlotsAreHeld, Filling
    <2>4. SlotsAreApart'
        BY <1>a, <2>a, <2>b, <2>f DEF SlotsAreApart, Filling
    <2>5. (StageOneReadsItsOwn /\ BoundaryIsOwn)'
        BY <1>a, <2>a DEF StageOneReadsItsOwn, BoundaryIsOwn
    <2>6. QED
        BY <2>1, <2>2, <2>3, <2>4, <2>5 DEF RingInv
<1>7. CASE CopyFails
    <2>a. /\ Filling /\ slots' = [slots EXCEPT ![producer.slot].leased = FALSE]
          /\ producer' = [producer EXCEPT !.pc = "idle"]
          /\ UNCHANGED <<pstream, source, leases, consumer, cstream, target, seen, answer>>
        BY <1>7 DEF CopyFails, Free, Filling, stage1Vars
    <2>b. /\ producer' \in [pc : ProducerPcs, slot : SlotIds, b : Nat]
          /\ producer'.pc = "idle" /\ producer'.b = producer.b
        BY <1>c, <2>a DEF ProducerPcs
    <2>c. /\ slots' \in [SlotIds -> SlotRecords]
          /\ \A k \in SlotIds : k # producer.slot => slots'[k] = slots[k]
        BY <1>b, <1>c, <2>a DEF SlotRecords
    <2>1. RingTypeOK'
        BY <1>a, <2>a, <2>b, <2>c DEF RingTypeOK
    <2>2. StreamInOrder'
        <3>1. ASSUME NEW i \in 1..Len(pstream)
              PROVE  Place(pstream[i]) <= 7 * producer.b + 6
            <4>1. Place(pstream[i]) \in Nat
                BY <1>b, PlacesAreNat
            <4>2. Place(pstream[i]) <= 7 * producer.b + Progress(producer.pc)
                BY <1>a DEF StreamInOrder
            <4>3. QED
                BY <1>c, <4>1, <4>2
        <3>2. QED
            BY <1>a, <2>a, <2>b, <3>1, ProgressFacts DEF StreamInOrder
    <2>3. SlotsAreHeld'
        <3>1. \A l \in LeaseRecords :
                LeaseHolds(l, slots, pstream, producer) /\ l.slot # producer.slot =>
                LeaseHolds(l, slots', pstream', producer')
            BY <2>a, <2>b, <2>c DEF LeaseHolds, LeaseRecords
        <3>2. QED
            BY <1>a, <1>d, <1>e, <2>a, <2>b, <3>1 DEF SlotsAreHeld, SlotsAreApart, Filling
    <2>4. SlotsAreApart'
        BY <1>a, <2>a, <2>b DEF SlotsAreApart, Filling
    <2>5. (StageOneReadsItsOwn /\ BoundaryIsOwn)'
        BY <1>a, <2>a DEF StageOneReadsItsOwn, BoundaryIsOwn
    <2>6. QED
        BY <2>1, <2>2, <2>3, <2>4, <2>5 DEF RingInv
<1>8. CASE Notify
    <2>a. /\ producer' = [producer EXCEPT !.pc = IF @ = "wait" THEN "scan" ELSE @]
          /\ UNCHANGED <<slots, pstream, source, leases, consumer, cstream, target, seen,
                         answer>>
        BY <1>8 DEF Notify, stage1Vars
    <2>b. /\ producer' \in [pc : ProducerPcs, slot : SlotIds, b : Nat]
          /\ producer'.pc = (IF producer.pc = "wait" THEN "scan" ELSE producer.pc)
          /\ producer'.b = producer.b /\ producer'.slot = producer.slot
        BY <1>c, <2>a DEF ProducerPcs
    <2>c. /\ Progress(producer'.pc) = Progress(producer.pc)
          /\ producer'.pc = "idle" <=> producer.pc = "idle"
          /\ Filling' = Filling
        BY <2>b, ProgressFacts DEF Filling
    <2>1. RingTypeOK'
        BY <1>a, <2>a, <2>b DEF RingTypeOK
    <2>2. StreamInOrder'
        BY <1>a, <2>a, <2>b, <2>c DEF StreamInOrder
    <2>3. SlotsAreHeld'
        BY <1>a, <2>a, <2>b, <2>c DEF SlotsAreHeld, LeaseHolds
    <2>4. (SlotsAreApart /\ StageOneReadsItsOwn /\ BoundaryIsOwn)'
        BY <1>a, <2>a, <2>b, <2>c DEF SlotsAreApart, StageOneReadsItsOwn, BoundaryIsOwn
    <2>5. QED
        BY <2>1, <2>2, <2>3, <2>4 DEF RingInv
<1>9. CASE TakeLease
    <2>a. /\ consumer.pc = "idle" /\ leases # <<>>
          /\ consumer' = [pc |-> "ready", lease |-> Head(leases)]
          /\ leases' = Tail(leases)
          /\ UNCHANGED <<slots, producer, pstream, source, cstream, target, seen, answer>>
        BY <1>9 DEF TakeLease, stage0Vars
    <2>b. /\ Head(leases) = leases[1] /\ Head(leases) \in LeaseRecords
          /\ leases' \in Seq(LeaseRecords)
          /\ Len(leases) \in Nat \ {0} /\ Len(leases') = Len(leases) - 1
          /\ \A i \in 1..Len(leases') : leases'[i] = leases[i + 1] /\ i + 1 \in 1..Len(leases)
        BY <1>b, <2>a, HeadTailFacts
    <2>1. RingTypeOK'
        BY <1>a, <2>a, <2>b DEF RingTypeOK, ConsumerPcs
    <2>2. (StreamInOrder /\ BoundaryIsOwn)'
        BY <1>a, <2>a DEF StreamInOrder, BoundaryIsOwn
    <2>3. SlotsAreHeld'
        BY <1>a, <2>a, <2>b DEF SlotsAreHeld, Filling
    <2>4. SlotsAreApart'
        BY <1>a, <2>a, <2>b DEF SlotsAreApart, Filling
    <2>5. StageOneReadsItsOwn'
        BY <2>a DEF StageOneReadsItsOwn
    <2>6. QED
        BY <2>1, <2>2, <2>3, <2>4, <2>5 DEF RingInv
<1>10. CASE WaitReady
    <2> DEFINE s == consumer.lease.slot  b == consumer.lease.b
    <2>a. /\ consumer.pc = "ready" /\ Passed(pstream, "ready", s)
          /\ UNCHANGED <<slots, producer, pstream, source, leases, cstream, target, seen>>
        BY <1>10 DEF WaitReady, PayloadReady, stage0Vars
    <2>b. Holding(slots[s], pstream, s, b, 6) /\ consumer.lease.frame = Whole(b)
        BY <1>a, <2>a DEF SlotsAreHeld, LeaseHolds
    <2>c. Behind(pstream, b, 6)
        <3>1. Rank("ready") = 6 /\ "ready" \in StreamOps \ {"rows"} /\ Rank("ready") <= 6
            BY RankFacts DEF StreamOps
        <3>2. Behind(pstream, b, Rank("ready"))
            BY <1>b, <1>d, <2>a, <2>b, <3>1, EventPassed, 6 \in 0..6
        <3>3. QED
            BY <3>1, <3>2
    <2>d. slots[s].host = Whole(b) /\ slots[s].sum = Whole(b)
        <3>1. Behind(pstream, b, 2) /\ Behind(pstream, b, 4) /\ Behind(pstream, b, 5)
            BY <1>b, <1>d, <2>c, BehindDown
        <3>2. slots[s].sum = Whole(b) /\ slots[s].host[1] = b /\ slots[s].host[2] = b
            BY <2>b, <3>1 DEF Holding
        <3>3. slots[s].host \in [1..2 -> Nat] /\ Whole(b) \in [1..2 -> Nat]
              /\ Whole(b)[1] = b /\ Whole(b)[2] = b
            BY <1>b, <1>d, SMTT(30) DEF SlotRecords, Whole
        <3>4. QED
            BY <3>2, <3>3
    <2>e. consumer' = [consumer EXCEPT !.pc = "copy1"] /\ answer' = answer
        <3>1. /\ consumer' = [consumer EXCEPT !.pc = "copy1"]
              /\ answer' = [answer EXCEPT !.mismatch = @ \/ FALSE]
            BY <1>10, <2>b, <2>d DEF WaitReady
        <3>2. answer.mismatch = FALSE
            BY <1>a, <1>b DEF BoundaryIsOwn
        <3>3. QED
            BY <1>b, <3>1, <3>2
    <2>f. /\ consumer' \in [pc : ConsumerPcs, lease : LeaseRecords]
          /\ consumer'.pc = "copy1" /\ consumer'.lease = consumer.lease
        BY <1>d, <2>e DEF ConsumerPcs
    <2>1. RingTypeOK'
        BY <1>a, <2>a, <2>e, <2>f DEF RingTypeOK
    <2>2. (StreamInOrder /\ BoundaryIsOwn)'
        BY <1>a, <2>a, <2>e DEF StreamInOrder, BoundaryIsOwn
    <2>3. (SlotsAreHeld /\ SlotsAreApart)'
        BY <1>a, <2>a, <2>f DEF SlotsAreHeld, SlotsAreApart, Filling
    <2>4. StageOneReadsItsOwn'
        BY <2>a, <2>c, <2>f DEF StageOneReadsItsOwn
    <2>5. QED
        BY <2>1, <2>2, <2>3, <2>4 DEF RingInv
<1>11. CASE IssueLayers
    <2> DEFINE s == consumer.lease.slot
               more == IF consumer.pc = "layers" THEN <<[op |-> "layers", arg |-> 0]>>
                       ELSE <<[op |-> "copy1", arg |-> s], [op |-> "copy2", arg |-> s]>>
               S == [op : {"copy1", "copy2", "layers"}, arg : SlotIds]
    <2>a. /\ consumer.pc \in {"copy1", "layers"} /\ cstream' = cstream \o more
          /\ consumer' = [consumer EXCEPT !.pc = IF @ = "copy1" THEN "layers" ELSE "sync"]
          /\ UNCHANGED <<slots, producer, pstream, source, leases, target, seen, answer>>
        BY <1>11 DEF IssueLayers, stage0Vars
    <2>b. /\ consumer' \in [pc : ConsumerPcs, lease : LeaseRecords]
          /\ consumer'.pc = (IF consumer.pc = "copy1" THEN "layers" ELSE "sync")
          /\ consumer'.lease = consumer.lease
        BY <1>d, <2>a DEF ConsumerPcs
    <2>c. 0 \in SlotIds
        BY BoundaryRingAssumption DEF SlotIds
    <2>d. more \in Seq(S) /\ Len(more) = (IF consumer.pc = "layers" THEN 1 ELSE 2)
        <3>1. CASE consumer.pc = "layers"
            <4>1. [op |-> "layers", arg |-> 0] \in S
                BY <2>c
            <4>2. QED
                BY <3>1, <4>1
        <3>2. CASE consumer.pc # "layers"
            <4>1. /\ [op |-> "copy1", arg |-> s] \in S
                  /\ [op |-> "copy2", arg |-> s] \in S
                BY <1>d DEF LeaseRecords
            <4> HIDE DEF S, s
            <4>2. QED
                BY <3>2, <4>1
        <3>3. QED
            BY <3>1, <3>2
    <2>e. /\ cstream' \in Seq(S) /\ Len(cstream) \in Nat
          /\ Len(cstream') = Len(cstream) + Len(more)
          /\ \A i \in 1..Len(cstream) : cstream'[i] = cstream[i]
          /\ consumer.pc = "layers" =>
                cstream'[Len(cstream) + 1].op = "layers"
          /\ consumer.pc = "copy1" =>
                /\ cstream'[Len(cstream) + 1].op = "copy1" /\ cstream'[Len(cstream) + 1].arg = s
                /\ cstream'[Len(cstream) + 2].op = "copy2" /\ cstream'[Len(cstream) + 2].arg = s
        <3>1. CASE consumer.pc = "layers"
            BY <1>b, <2>a, <2>d, <3>1, ConcatProperties
        <3>2. CASE consumer.pc = "copy1"
            BY <1>b, <2>a, <2>d, <3>2, ConcatProperties
        <3>3. QED
            BY <2>a, <3>1, <3>2
    <2> HIDE DEF more
    <2>1. RingTypeOK'
        BY <1>a, <2>a, <2>b, <2>e DEF RingTypeOK
    <2>2. (StreamInOrder /\ BoundaryIsOwn)'
        BY <1>a, <2>a DEF StreamInOrder, BoundaryIsOwn
    <2>3. (SlotsAreHeld /\ SlotsAreApart)'
        BY <1>a, <2>a, <2>b DEF SlotsAreHeld, SlotsAreApart, Filling
    <2>4. StageOneReadsItsOwn'
        BY <1>a, <2>a, <2>b, <2>d, <2>e DEF StageOneReadsItsOwn
    <2>5. QED
        BY <2>1, <2>2, <2>3, <2>4 DEF RingInv
<1>12. CASE AnswerBoundary
    <2>a. /\ consumer.pc = "sync" /\ cstream = <<>>
          /\ answer' = [answer EXCEPT !.want = consumer.lease.b, !.got = seen]
          /\ consumer' = [consumer EXCEPT !.pc = "release"]
          /\ UNCHANGED <<slots, producer, pstream, source, leases, cstream, target, seen>>
        BY <1>12 DEF AnswerBoundary, stage0Vars
    <2>b. /\ consumer' \in [pc : ConsumerPcs, lease : LeaseRecords]
          /\ consumer'.pc = "release" /\ consumer'.lease = consumer.lease
        BY <1>d, <2>a DEF ConsumerPcs
    <2>c. seen = Whole(consumer.lease.b)
        BY <1>a, <2>a DEF StageOneReadsItsOwn
    <2>1. RingTypeOK'
        <3>1. answer' \in [want : Nat, got : [1..2 -> Nat], mismatch : BOOLEAN]
            BY <1>b, <1>d, <2>a
        <3>2. QED
            BY <1>a, <2>a, <2>b, <3>1 DEF RingTypeOK
    <2>2. StreamInOrder'
        BY <1>a, <2>a DEF StreamInOrder
    <2>3. (SlotsAreHeld /\ SlotsAreApart)'
        BY <1>a, <2>a, <2>b DEF SlotsAreHeld, SlotsAreApart, Filling
    <2>4. StageOneReadsItsOwn'
        BY <2>b DEF StageOneReadsItsOwn
    <2>5. BoundaryIsOwn'
        BY <1>a, <1>b, <2>a, <2>c DEF BoundaryIsOwn
    <2>6. QED
        BY <2>1, <2>2, <2>3, <2>4, <2>5 DEF RingInv
<1>13. CASE ExecuteFails
    <2>a. /\ consumer.pc \in {"layers", "sync"}
          /\ consumer' = [consumer EXCEPT !.pc = "release"]
          /\ UNCHANGED <<slots, producer, pstream, source, leases, cstream, target, seen,
                         answer>>
        BY <1>13 DEF ExecuteFails, stage0Vars
    <2>b. /\ consumer' \in [pc : ConsumerPcs, lease : LeaseRecords]
          /\ consumer'.pc = "release" /\ consumer'.lease = consumer.lease
        BY <1>d, <2>a DEF ConsumerPcs
    <2>1. RingTypeOK'
        BY <1>a, <2>a, <2>b DEF RingTypeOK
    <2>2. (StreamInOrder /\ BoundaryIsOwn)'
        BY <1>a, <2>a DEF StreamInOrder, BoundaryIsOwn
    <2>3. (SlotsAreHeld /\ SlotsAreApart)'
        BY <1>a, <2>a, <2>b DEF SlotsAreHeld, SlotsAreApart, Filling
    <2>4. StageOneReadsItsOwn'
        BY <2>b DEF StageOneReadsItsOwn
    <2>5. QED
        BY <2>1, <2>2, <2>3, <2>4 DEF RingInv
<1>14. CASE ReleaseLease
    <2> DEFINE s == consumer.lease.slot
    <2>a. /\ consumer.pc = "release" /\ slots' = [slots EXCEPT ![s].leased = FALSE]
          /\ consumer' = [pc |-> "idle", lease |-> NoLease]
          /\ UNCHANGED <<producer, pstream, source, leases, cstream, target, seen, answer>>
        BY <1>14 DEF ReleaseLease, Free, stage0Vars
    <2>b. NoLease \in LeaseRecords
        BY BoundaryRingAssumption DEF NoLease, LeaseRecords, SlotIds, Whole
    <2>c. /\ slots' \in [SlotIds -> SlotRecords]
          /\ \A k \in SlotIds : k # s => slots'[k] = slots[k]
        BY <1>b, <1>d, <2>a DEF SlotRecords
    <2>1. RingTypeOK'
        BY <1>a, <2>a, <2>b, <2>c DEF RingTypeOK, ConsumerPcs
    <2>2. (StreamInOrder /\ BoundaryIsOwn)'
        BY <1>a, <2>a DEF StreamInOrder, BoundaryIsOwn
    <2>3. SlotsAreHeld'
        BY <1>a, <1>c, <1>d, <1>e, <2>a, <2>c DEF SlotsAreHeld, SlotsAreApart, LeaseHolds, Filling
    <2>4. (SlotsAreApart /\ StageOneReadsItsOwn)'
        BY <1>a, <2>a DEF SlotsAreApart, StageOneReadsItsOwn, Filling
    <2>5. QED
        BY <2>1, <2>2, <2>3, <2>4 DEF RingInv
<1>15. CASE DropLease
    <2> DEFINE s == Head(leases).slot
    <2>a. /\ leases # <<>> /\ slots' = [slots EXCEPT ![s].leased = FALSE]
          /\ leases' = Tail(leases)
          /\ UNCHANGED <<producer, pstream, source, consumer, cstream, target, seen, answer>>
        BY <1>15 DEF DropLease, Free, stage0Vars, stage1Vars
    <2>b. /\ s = leases[1].slot /\ leases' \in Seq(LeaseRecords)
          /\ Len(leases) \in Nat \ {0} /\ Len(leases') = Len(leases) - 1
          /\ \A i \in 1..Len(leases') :
                leases'[i] = leases[i + 1] /\ i + 1 \in 1..Len(leases) /\ i + 1 # 1
        BY <1>b, <2>a, HeadTailFacts
    <2>c. /\ slots' \in [SlotIds -> SlotRecords]
          /\ \A k \in SlotIds : k # s => slots'[k] = slots[k]
        BY <1>b, <1>e, <2>a, <2>b DEF SlotRecords
    <2>d. /\ consumer.pc # "idle" => consumer.lease.slot # s
          /\ Filling => producer.slot # s
          /\ \A i \in 1..Len(leases') : leases'[i].slot # s
        BY <1>a, <2>b DEF SlotsAreApart
    <2> HIDE DEF s
    <2>1. RingTypeOK'
        BY <1>a, <2>a, <2>b, <2>c DEF RingTypeOK
    <2>2. (StreamInOrder /\ StageOneReadsItsOwn /\ BoundaryIsOwn)'
        BY <1>a, <2>a DEF StreamInOrder, StageOneReadsItsOwn, BoundaryIsOwn
    <2>3. SlotsAreHeld'
        BY <1>a, <1>c, <1>d, <1>e, <2>a, <2>b, <2>c, <2>d DEF SlotsAreHeld, LeaseHolds, Filling
    <2>4. SlotsAreApart'
        BY <1>a, <2>a, <2>b DEF SlotsAreApart, Filling
    <2>5. QED
        BY <2>1, <2>2, <2>3, <2>4 DEF RingInv
<1>16. CASE UNCHANGED ringVars
    BY <1>a, <1>16 DEF ringVars, stage0Vars, stage1Vars, RingInv, RingTypeOK, StreamInOrder,
       SlotsAreHeld, SlotsAreApart, StageOneReadsItsOwn, BoundaryIsOwn, Filling
<1>17. QED
    BY <1>1, <1>2, <1>3, <1>4, <1>5, <1>6, <1>7, <1>8, <1>9, <1>10, <1>11, <1>12,
       <1>13, <1>14, <1>15, <1>16
    DEF RingNext, ProducerStep, ConsumerStep

\* The ring starts with every slot free and both streams empty.
LEMMA RingInitInv == RingInit => RingInv
<1> SUFFICES ASSUME RingInit PROVE RingInv
    OBVIOUS
<1>a. 0 \in SlotIds /\ Whole(0) \in [1..2 -> Nat]
    BY BoundaryRingAssumption DEF SlotIds, Whole
<1>b. pstream = <<>> /\ cstream = <<>> /\ leases = <<>>
    BY DEF RingInit
<1>c. producer.pc = "idle" /\ consumer.pc = "idle"
    BY DEF RingInit
<1>1. RingTypeOK
    BY <1>a DEF RingInit, RingTypeOK, ProducerPcs, ConsumerPcs, SlotRecords, LeaseRecords, NoLease
<1>2. StreamInOrder
    BY <1>b, <1>c DEF StreamInOrder, InOrder
<1>3. SlotsAreHeld /\ SlotsAreApart
    BY <1>b, <1>c DEF SlotsAreHeld, SlotsAreApart, Filling
<1>4. StageOneReadsItsOwn /\ BoundaryIsOwn
    BY <1>c DEF RingInit, StageOneReadsItsOwn, BoundaryIsOwn
<1>5. QED
    BY <1>1, <1>2, <1>3, <1>4 DEF RingInv

\* RingInv is an invariant of the ring: streams run in order, each slot has one
\* holder, and the payload of a lease past wait_ready is whole.
THEOREM RingInvariant == RingSpec => []RingInv
    BY RingInitInv, RingInvInductive, PTL DEF RingSpec

\* What stage 1's layers read is the whole payload of their own boundary and no
\* checksum ever refuses it (CudaBoundaryRing's copy_from_device, wait_ready and
\* release), although a failed copy and a cancelled stage 1 free a slot that has
\* operations under way.
THEOREM StageOneReadsItsBoundary == RingSpec => []BoundaryIsOwn
<1>1. RingInv => BoundaryIsOwn
    BY DEF RingInv
<1>2. QED
    BY <1>1, RingInvariant, PTL
=============================================================================
