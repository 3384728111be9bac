---------------------------- MODULE BoundaryRing ----------------------------
(***************************************************************************)
(* CudaBoundaryRing (src/cuda/cuda_transport.cu): the pinned host slots in *)
(* which stage 0 hands its hidden rows to stage 1, with the two streams,   *)
(* the events and the leases.                                              *)
(*                                                                         *)
(* A payload is the number of its boundary; a buffer has two halves, so    *)
(* that a copy which is under way can be seen.  The checksum of a payload  *)
(* is the payload itself (no collisions).  A stream is the sequence of the *)
(* operations issued to it and not executed yet; an event is complete when *)
(* its last record is no longer in the stream.  An operation of stage 0's  *)
(* stream also carries the boundary it was issued for, which no step reads.*)
(* One ring is modelled: the small and the prefill ring differ in the      *)
(* capacity of their slots.                                                *)
(***************************************************************************)
EXTENDS Naturals, Sequences, FiniteSets

CONSTANTS RingSlots,       \* options.slots
          MaxAhead,        \* bound: leases waiting for stage 1
          MaxBoundaries,   \* bound: boundaries produced
          MaxRingFailures  \* bound: calls that fail or are cancelled

ASSUME BoundaryRingAssumption ==
    /\ RingSlots \in Nat /\ RingSlots >= 2
    /\ MaxAhead \in Nat \ {0}
    /\ MaxBoundaries \in Nat /\ MaxRingFailures \in Nat

VARIABLES slots,       \* slots[s]: [leased, host, sum, sumDevice]
          cursor,      \* where the next search for a slot begins
          producer,    \* stage 0's call of copy_from_device
          pstream,     \* stage 0's stream
          source,      \* stage 0's workspace.boundary
          leases,      \* boundaries handed over and not taken by stage 1
          consumer,    \* stage 1's execute
          cstream,     \* stage 1's stream
          target,      \* stage 1's workspace.boundary
          seen,        \* what stage 1's kernels read from it
          notifies,    \* notify_one calls between the unlock and the call
          ringFailures,
          \* history
          answer       \* [want, got, mismatch] of stage 1's last call

stage0Vars == <<producer, pstream, source>>
stage1Vars == <<consumer, cstream, target, seen, answer>>
ringVars == <<slots, cursor, leases, notifies, ringFailures, stage0Vars, stage1Vars>>

SlotIds == 0..(RingSlots - 1)
Whole(b) == <<b, b>>
NoLease == [slot |-> 0, b |-> 0, frame |-> Whole(0)]

\* The operations copy_from_device issues on stage 0's stream, in order: the
\* checksum kernel and its copy with its event, the payload with its event.
Issued == <<"sum", "sumCopy", "sumReady", "copy1", "copy2", "ready">>

RingInit ==
    /\ slots = [s \in SlotIds |-> [leased |-> FALSE, host |-> Whole(0),
                                   sum |-> Whole(0), sumDevice |-> Whole(0)]]
    /\ cursor = 0
    /\ producer = [pc |-> "idle", slot |-> 0, b |-> 0]
    /\ pstream = <<>> /\ cstream = <<>>
    /\ source = 0
    /\ leases = <<>>
    /\ consumer = [pc |-> "idle", lease |-> NoLease]
    /\ target = Whole(0) /\ seen = Whole(0)
    /\ notifies = 0 /\ ringFailures = 0
    /\ answer = [want |-> 0, got |-> Whole(0), mismatch |-> FALSE]

-----------------------------------------------------------------------------
(* The streams.                                                            *)

\* cudaEventSynchronize returns: the event's last record has been executed.
Passed(stream, event, s) ==
    \A i \in 1..Len(stream) : ~(stream[i].op = event /\ stream[i].arg = s)

\* Mutant: wait_ready waits for the checksum's event.
WrongEvent(s) == Passed(pstream, "sumReady", s)

\* The event wait_ready waits for.
PayloadReady(s) == Passed(pstream, "ready", s)

\* The oldest operation of stage 0's stream takes effect.
ProducerStreamStep ==
    /\ pstream # <<>>
    /\ LET op == Head(pstream).op
           s == Head(pstream).arg IN
        /\ source' = IF op = "rows" THEN s ELSE source
        /\ slots' = CASE op = "sum" -> [slots EXCEPT ![s].sumDevice = Whole(source)]
                      [] op = "sumCopy" -> [slots EXCEPT ![s].sum = slots[s].sumDevice]
                      [] op = "copy1" -> [slots EXCEPT ![s].host[1] = source]
                      [] op = "copy2" -> [slots EXCEPT ![s].host[2] = source]
                      [] OTHER -> slots
    /\ pstream' = Tail(pstream)
    /\ UNCHANGED <<cursor, producer, leases, notifies, ringFailures, stage1Vars>>

\* The oldest operation of stage 1's stream takes effect.
ConsumerStreamStep ==
    /\ cstream # <<>>
    /\ LET op == Head(cstream).op
           s == Head(cstream).arg IN
        /\ target' = CASE op = "copy1" -> [target EXCEPT ![1] = slots[s].host[1]]
                       [] op = "copy2" -> [target EXCEPT ![2] = slots[s].host[2]]
                       [] OTHER -> target
        /\ seen' = IF op = "layers" THEN target ELSE seen
    /\ cstream' = Tail(cstream)
    /\ UNCHANGED <<slots, cursor, leases, consumer, notifies, ringFailures, answer, stage0Vars>>

-----------------------------------------------------------------------------
(* Stage 0: compute the rows, copy_from_device.                            *)

\* execute on stage 0: the chunk's rows are computed on the stream, and the call
\* begins to look for a slot.
StartBoundary ==
    /\ producer.pc = "idle" /\ producer.b < MaxBoundaries
    /\ Len(leases) < MaxAhead
    /\ producer' = [producer EXCEPT !.pc = "scan", !.b = @ + 1]
    /\ pstream' = Append(pstream, [op |-> "rows", arg |-> producer.b + 1,
                                   b |-> producer.b + 1])
    /\ UNCHANGED <<slots, cursor, source, leases, notifies, ringFailures, stage1Vars>>

\* Mutant: the slot is freed and nobody is told.
FreeSilently(s) ==
    slots' = [slots EXCEPT ![s].leased = FALSE] /\ UNCHANGED notifies

\* What the catch block and the lease's destructor do: the slot is free under the
\* mutex, and notify_one follows.
Free(s) ==
    slots' = [slots EXCEPT ![s].leased = FALSE] /\ notifies' = notifies + 1

Unleased == {s \in SlotIds : ~slots[s].leased}

\* The first free slot from the cursor on, or the wait for one; under the mutex,
\* which the wait gives back.
AcquireSlot ==
    /\ producer.pc = "scan"
    /\ IF Unleased = {}
       THEN /\ producer' = [producer EXCEPT !.pc = "wait"]
            /\ UNCHANGED <<slots, cursor>>
       ELSE LET at(i) == (cursor + i) % RingSlots IN
            \E i \in SlotIds :
                /\ at(i) \in Unleased
                /\ \A j \in 0..(i - 1) : at(j) \notin Unleased
                /\ slots' = [slots EXCEPT ![at(i)].leased = TRUE]
                /\ cursor' = (at(i) + 1) % RingSlots
                /\ producer' = [producer EXCEPT !.pc = Issued[1], !.slot = at(i)]
    /\ UNCHANGED <<pstream, source, leases, notifies, ringFailures, stage1Vars>>

\* One asynchronous call of the try block.
IssueOp ==
    \E i \in 1..Len(Issued) :
        /\ producer.pc = Issued[i]
        /\ pstream' = Append(pstream, [op |-> Issued[i], arg |-> producer.slot,
                                       b |-> producer.b])
        /\ producer' = [producer EXCEPT !.pc = IF i = Len(Issued) THEN "sync"
                                               ELSE Issued[i + 1]]
        /\ UNCHANGED <<slots, cursor, source, leases, notifies, ringFailures, stage1Vars>>

\* The checksum's event is complete: the lease goes out, with the checksum in
\* its frame; the payload may still be on its way.
ReturnLease ==
    /\ producer.pc = "sync"
    /\ Passed(pstream, "sumReady", producer.slot)
    /\ leases' = Append(leases, [slot |-> producer.slot, b |-> producer.b,
                                 frame |-> slots[producer.slot].sum])
    /\ producer' = [producer EXCEPT !.pc = "idle"]
    /\ UNCHANGED <<slots, cursor, pstream, source, notifies, ringFailures, stage1Vars>>

\* A CUDA call of the try block fails: the slot is free again at once, with what
\* was issued for it still in the stream.
CopyFails ==
    /\ producer.pc \notin {"idle", "scan", "wait"}
    /\ ringFailures < MaxRingFailures
    /\ Free(producer.slot)
    /\ producer' = [producer EXCEPT !.pc = "idle"]
    /\ ringFailures' = ringFailures + 1
    /\ UNCHANGED <<cursor, pstream, source, leases, stage1Vars>>

\* notify_one reaches the wait, if somebody waits.
Notify ==
    /\ notifies > 0
    /\ notifies' = notifies - 1
    /\ producer' = [producer EXCEPT !.pc = IF @ = "wait" THEN "scan" ELSE @]
    /\ UNCHANGED <<slots, cursor, pstream, source, leases, ringFailures, stage1Vars>>

-----------------------------------------------------------------------------
(* Stage 1: cuda_copy_boundary_to_device and the rest of its execute.      *)

TakeLease ==
    /\ consumer.pc = "idle" /\ leases # <<>>
    /\ consumer' = [pc |-> "ready", lease |-> Head(leases)]
    /\ leases' = Tail(leases)
    /\ UNCHANGED <<slots, cursor, cstream, target, seen, notifies, ringFailures, answer, stage0Vars>>

\* wait_ready: the payload's event is complete, its checksum is the one the
\* device computed, and the frame's.
WaitReady ==
    /\ consumer.pc = "ready"
    /\ PayloadReady(consumer.lease.slot)
    /\ LET s == slots[consumer.lease.slot]
           ok == s.host = s.sum /\ consumer.lease.frame = s.sum IN
        /\ consumer' = [consumer EXCEPT !.pc = IF ok THEN "copy1" ELSE "release"]
        /\ answer' = [answer EXCEPT !.mismatch = @ \/ ~ok]
    /\ UNCHANGED <<slots, cursor, leases, cstream, target, seen, notifies, ringFailures, stage0Vars>>

\* The copy to the device and the layers that read it are issued on the stream.
IssueLayers ==
    /\ consumer.pc \in {"copy1", "layers"}
    /\ cstream' = cstream \o
        IF consumer.pc = "layers" THEN <<[op |-> "layers", arg |-> 0]>>
        ELSE <<[op |-> "copy1", arg |-> consumer.lease.slot],
               [op |-> "copy2", arg |-> consumer.lease.slot]>>
    /\ consumer' = [consumer EXCEPT !.pc = IF @ = "copy1" THEN "layers" ELSE "sync"]
    /\ UNCHANGED <<slots, cursor, leases, target, seen, notifies, ringFailures, answer, stage0Vars>>

\* execute returns: the stream is drained first.
AnswerBoundary ==
    /\ consumer.pc = "sync" /\ cstream = <<>>
    /\ answer' = [answer EXCEPT !.want = consumer.lease.b, !.got = seen]
    /\ consumer' = [consumer EXCEPT !.pc = "release"]
    /\ UNCHANGED <<slots, cursor, leases, cstream, target, seen, notifies, ringFailures, stage0Vars>>

\* Stage 1 is cancelled or fails after its copy was issued: the lease goes with
\* the call, the copy is still in the stream.
ExecuteFails ==
    /\ consumer.pc \in {"layers", "sync"}
    /\ ringFailures < MaxRingFailures
    /\ consumer' = [consumer EXCEPT !.pc = "release"]
    /\ ringFailures' = ringFailures + 1
    /\ UNCHANGED <<slots, cursor, leases, cstream, target, seen, notifies, answer, stage0Vars>>

\* The lease's destructor, after stage 1's execute.
ReleaseLease ==
    /\ consumer.pc = "release"
    /\ Free(consumer.lease.slot)
    /\ consumer' = [pc |-> "idle", lease |-> NoLease]
    /\ UNCHANGED <<cursor, leases, cstream, target, seen, ringFailures, answer, stage0Vars>>

\* The same destructor when the executor drops a boundary of a cancelled
\* transaction that stage 1 never took.
DropLease ==
    /\ leases # <<>> /\ ringFailures < MaxRingFailures
    /\ Free(Head(leases).slot)
    /\ leases' = Tail(leases)
    /\ ringFailures' = ringFailures + 1
    /\ UNCHANGED <<cursor, stage0Vars, stage1Vars>>

ProducerStep ==
    \/ StartBoundary \/ AcquireSlot \/ IssueOp \/ ReturnLease
ConsumerStep ==
    \/ TakeLease \/ WaitReady \/ IssueLayers \/ AnswerBoundary \/ ReleaseLease

RingNext ==
    \/ ProducerStep \/ ConsumerStep
    \/ ProducerStreamStep \/ ConsumerStreamStep
    \/ CopyFails \/ ExecuteFails \/ DropLease \/ Notify

RingSpec == RingInit /\ [][RingNext]_ringVars

-----------------------------------------------------------------------------
(* Properties.                                                             *)

\* What stage 1's layers read is the whole payload of their own boundary, and
\* the checksums never refuse it: neither a slot freed by a failed copy with the
\* copy still in the stream, nor one freed by a cancelled stage 1 with its
\* read still in the stream, lets two boundaries meet.
BoundaryIsOwn ==
    ~answer.mismatch /\ answer.got = Whole(answer.want)

\* A stage 0 that found every slot leased gets one: no notify_one is lost
\* between a lease's unlock and the wait.
WaitingProducerGoesOn ==
    producer.pc = "wait" ~> producer.pc = Issued[1]

-----------------------------------------------------------------------------
(* The inductive invariant.                                                *)

StreamOps == {"rows", "sum", "sumCopy", "sumReady", "copy1", "copy2", "ready"}

\* The place of an operation in its boundary, and in stage 0's whole stream.
Rank(op) == CASE op = "rows" -> 0 [] op = "sum" -> 1 [] op = "sumCopy" -> 2
              [] op = "sumReady" -> 3 [] op = "copy1" -> 4 [] op = "copy2" -> 5
              [] OTHER -> 6
Place(x) == 7 * x.b + Rank(x.op)

\* How many operations of its slot the call of copy_from_device has issued.
Progress(pc) == CASE pc \in {"scan", "wait", "sum"} -> 0
                  [] pc = "sumCopy" -> 1 [] pc = "sumReady" -> 2 [] pc = "copy1" -> 3
                  [] pc = "copy2" -> 4 [] pc = "ready" -> 5 [] OTHER -> 6

ProducerPcs == {"idle", "scan", "wait", "sync"} \cup (StreamOps \ {"rows"})
ConsumerPcs == {"idle", "ready", "copy1", "layers", "sync", "release"}
SlotRecords == [leased : BOOLEAN, host : [1..2 -> Nat], sum : [1..2 -> Nat],
                sumDevice : [1..2 -> Nat]]
StreamRecords == [op : StreamOps, arg : Nat, b : Nat]
LeaseRecords == [slot : SlotIds, b : Nat, frame : [1..2 -> Nat]]

RingTypeOK ==
    /\ slots \in [SlotIds -> SlotRecords]
    /\ producer \in [pc : ProducerPcs, slot : SlotIds, b : Nat]
    /\ pstream \in Seq(StreamRecords)
    /\ source \in Nat
    /\ leases \in Seq(LeaseRecords)
    /\ consumer \in [pc : ConsumerPcs, lease : LeaseRecords]
    /\ cstream \in Seq([op : {"copy1", "copy2", "layers"}, arg : SlotIds])
    /\ target \in [1..2 -> Nat] /\ seen \in [1..2 -> Nat]
    /\ answer \in [want : Nat, got : [1..2 -> Nat], mismatch : BOOLEAN]

\* A stream of stage 0 runs boundary by boundary, and what an operation reads is
\* the rows of its own one: the operation before it computed or read them, or
\* they are in the workspace already.
InOrder(st, rows) ==
    /\ \A i, j \in 1..Len(st) : i < j => Place(st[i]) < Place(st[j])
    /\ \A i \in 1..Len(st) :
        /\ st[i].op = "rows" => st[i].arg = st[i].b
        /\ st[i].op # "rows" => st[i].b = IF i = 1 THEN rows ELSE st[i - 1].b

\* The stream is in order, and the next operation issued will be.
StreamInOrder ==
    /\ InOrder(pstream, source)
    /\ \A i \in 1..Len(pstream) :
        Place(pstream[i]) <= 7 * producer.b + Progress(producer.pc)
    /\ producer.pc # "idle" =>
          producer.b = IF pstream = <<>> THEN source ELSE pstream[Len(pstream)].b

\* The operations of boundary b up to the r-th have left the stream.
Behind(st, b, r) == \A i \in 1..Len(st) : Place(st[i]) > 7 * b + r

\* Slot s, with the buffers `buf', is leased for boundary b, p of whose operations
\* were issued: they are in the stream or have left what they compute in the
\* buffers, and no operation of a later boundary touches the slot.
Holding(buf, st, s, b, p) ==
    /\ buf.leased
    /\ \A i \in 1..Len(st) : st[i].op # "rows" =>
        /\ st[i].b = b => st[i].arg = s
        /\ st[i].b > b => st[i].arg # s
    /\ \A r \in 1..p :
        Behind(st, b, r) \/ \E i \in 1..Len(st) : Place(st[i]) = 7 * b + r
    /\ p >= 1 /\ Behind(st, b, 1) => buf.sumDevice = Whole(b)
    /\ p >= 2 /\ Behind(st, b, 2) => buf.sum = Whole(b)
    /\ p >= 4 /\ Behind(st, b, 4) => buf.host[1] = b
    /\ p >= 5 /\ Behind(st, b, 5) => buf.host[2] = b

\* A lease keeps its slot for its boundary, and its frame is right.
LeaseHolds(l, sl, st, call) ==
    /\ Holding(sl[l.slot], st, l.slot, l.b, 6)
    /\ l.frame = Whole(l.b)
    /\ l.b <= call.b
    /\ call.pc # "idle" => l.b < call.b

Filling == producer.pc \notin {"idle", "scan", "wait"}

\* A slot is held by the call that fills it, by a lease that waits, or by stage 1.
SlotsAreHeld ==
    /\ Filling => Holding(slots[producer.slot], pstream, producer.slot, producer.b,
                          Progress(producer.pc))
    /\ consumer.pc # "idle" => LeaseHolds(consumer.lease, slots, pstream, producer)
    /\ \A i \in 1..Len(leases) : LeaseHolds(leases[i], slots, pstream, producer)

\* No slot is held twice.
SlotsAreApart ==
    /\ \A i, j \in 1..Len(leases) : i # j => leases[i].slot # leases[j].slot
    /\ \A i \in 1..Len(leases) :
        /\ consumer.pc # "idle" => leases[i].slot # consumer.lease.slot
        /\ Filling => leases[i].slot # producer.slot
    /\ Filling /\ consumer.pc # "idle" => producer.slot # consumer.lease.slot

\* Past wait_ready the payload is in the slot; what stage 1 has issued for it is
\* the end of its stream or has been executed.
StageOneReadsItsOwn ==
    LET s == consumer.lease.slot
        b == consumer.lease.b
        n == Len(cstream)
        at(k, op) == cstream[k].op = op /\ cstream[k].arg = s IN
    /\ consumer.pc \in {"copy1", "layers", "sync"} => Behind(pstream, b, 6)
    /\ consumer.pc = "layers" =>
        \/ n >= 2 /\ at(n - 1, "copy1") /\ at(n, "copy2")
        \/ n = 1 /\ at(n, "copy2") /\ target[1] = b
        \/ n = 0 /\ target = Whole(b)
    /\ consumer.pc = "sync" =>
        \/ n >= 3 /\ at(n - 2, "copy1") /\ at(n - 1, "copy2") /\ cstream[n].op = "layers"
        \/ n = 2 /\ at(n - 1, "copy2") /\ cstream[n].op = "layers" /\ target[1] = b
        \/ n = 1 /\ cstream[n].op = "layers" /\ target = Whole(b)
        \/ n = 0 /\ seen = Whole(b)

\* What every step of the ring preserves.
RingInv ==
    /\ RingTypeOK
    /\ StreamInOrder /\ SlotsAreHeld /\ SlotsAreApart /\ StageOneReadsItsOwn
    /\ BoundaryIsOwn
=============================================================================
