-------------------------- MODULE SnapshotJournal ---------------------------
(***************************************************************************)
(* SnapshotJournal (src/src/snapshot.cc): the append-only file of session  *)
(* snapshots, written cell by cell, with a crash or a write error possible *)
(* between any two cells, and the load that reads it back.                 *)
(*                                                                         *)
(* A record is a header of two cells, so that it can be torn, and one cell *)
(* per token of the suffix that differs from the previous snapshot.  A cell*)
(* is [part, h, t]: which half of a header with which fields, or a token.  *)
(* The record checksum is what it covers: header.sum is the suffix.  Of a  *)
(* snapshot only the canonical tokens are kept; the other fields are copied*)
(* as they are.                                                            *)
(*                                                                         *)
(* The process may be killed, which loses nothing of the file, or the power*)
(* may fail, which loses what no fdatasync covered.  Only append calls     *)
(* fdatasync: what load reads, or truncates, may still be undone by a later*)
(* power failure.  Writes and truncations reach the disk in their order, as*)
(* on an ordered file system, so a power failure leaves one of the states  *)
(* that the file went through since the last fdatasync.                    *)
(***************************************************************************)
EXTENDS Naturals, Sequences, SequencesExt

CONSTANTS MaxLen,        \* the longest session (identity.context_limit)
          Sessions,      \* bound: the sessions whose snapshots are appended
          MaxRecords,    \* bound: the sequence number of the last record
          MaxStarts      \* bound: processes that open the journal

ASSUME SnapshotJournalAssumption ==
    /\ MaxLen \in Nat
    /\ \A s \in Sessions : Len(s) <= MaxLen
    /\ {MaxRecords, MaxStarts} \subseteq Nat \ {0}

VARIABLES file,          \* the cells of the file, as reading sees them
          disk,          \* what a power failure may leave of it
          mode,          \* "closed" (no process), "off" (the power failed),
                         \* "idle", "writing", "isolated", "refused"
          current,       \* current: [sequence, tokens]
          pend,          \* cells of the record still to be written
          starts,        \* processes so far
          next,          \* the snapshot being appended
          \* history
          readable,      \* the snapshots a load may find after a process died
          lasting        \* ... after the power failed

journalVars == <<file, disk, mode, current, pend, next, starts,
                readable, lasting>>

NoSnapshot == [sequence |-> 0, tokens |-> <<>>]

HeaderCell(part, h) == [part |-> part, h |-> h, t |-> 0]
TokenCell(t) == [part |-> "token", h |-> 0, t |-> t]

-----------------------------------------------------------------------------
(* Encoding: append's diff against the current snapshot.                   *)

\* How many leading tokens two snapshots have in common.
Shared(a, b) == Len(LongestCommonPrefix({a, b}))

Header(seq, start, tokens) ==
    [sequence |-> seq, start |-> start, count |-> Len(tokens) - start,
     total |-> Len(tokens), sum |-> SubSeq(tokens, start + 1, Len(tokens))]

Record(seq, old, tokens) ==
    LET h == Header(seq, Shared(old, tokens), tokens) IN
    <<HeaderCell("first", h), HeaderCell("second", h)>>
        \o [i \in 1..h.count |-> TokenCell(h.sum[i])]

-----------------------------------------------------------------------------
(* Decoding: load.  A scan holds the position after the last good record   *)
(* and the snapshot up to there; `state' says whether it goes on, met the  *)
(* end or a torn tail ("done"), or throws ("corrupt").                     *)

ScanStart == [pos |-> 0, snap |-> NoSnapshot, state |-> "go"]

\* The checks on a header, before its payload is read.
HeaderOK(f, at, snap) ==
    /\ f[at].part = "first" /\ f[at + 1].part = "second"
    /\ f[at].h = f[at + 1].h
    /\ f[at].h.sequence > snap.sequence
    /\ f[at].h.start <= Len(snap.tokens)
    /\ f[at].h.count <= MaxLen
    /\ f[at].h.start + f[at].h.count = f[at].h.total

ScanRecord(f, scan) ==
    LET at == scan.pos + 1
        h == f[at].h
        suffix == [i \in 1..h.count |-> f[at + 1 + i].t]
        end == scan.pos + 2 + h.count
        intact == /\ \A i \in 1..h.count : f[at + 1 + i].part = "token"
                  /\ suffix = h.sum
    IN IF Len(f) < scan.pos + 2 THEN [scan EXCEPT !.state = "done"]
       ELSE IF ~HeaderOK(f, at, scan.snap) THEN [scan EXCEPT !.state = "corrupt"]
       ELSE IF Len(f) < end THEN [scan EXCEPT !.state = "done"]
       ELSE IF ~intact THEN [scan EXCEPT !.state = "corrupt"]
       ELSE [pos |-> end, state |-> "go",
             snap |-> [sequence |-> h.sequence,
                       tokens |-> SubSeq(scan.snap.tokens, 1, h.start) \o suffix]]

\* A file of n cells holds fewer than n records.
Load(f) ==
    FoldLeft(LAMBDA scan, i : IF scan.state = "go" THEN ScanRecord(f, scan) ELSE scan,
             ScanStart, [i \in 1..(Len(f) + 1) |-> i])

-----------------------------------------------------------------------------
JournalInit ==
    /\ file = <<>> /\ disk = {<<>>}
    /\ mode = "closed"
    /\ current = NoSnapshot
    /\ pend = <<>> /\ next = <<>> /\ starts = 0
    /\ readable = {<<>>} /\ lasting = {<<>>}

\* Another state of the file that no fdatasync covers yet.
Written(f) == file' = f /\ disk' = disk \cup {f}

\* load found this snapshot.  A load after a power failure settles what was left
\* of the file; one after the death of a process settles only what can be read.
Found(snapshot) ==
    /\ current' = snapshot
    /\ readable' = {snapshot.tokens}
    /\ lasting' = IF mode = "off" THEN {snapshot.tokens} ELSE lasting

Refuse == mode' = "refused" /\ UNCHANGED <<file, disk, current, readable, lasting>>

\* Mutant: the torn tail is left in the file.
OpenKeepsTail ==
    /\ mode \in {"closed", "off"} /\ starts < MaxStarts
    /\ starts' = starts + 1
    /\ LET scan == Load(file) IN
        \/ scan.state = "corrupt" /\ Refuse
        \/ /\ scan.state # "corrupt"
           /\ mode' = "idle" /\ Found(scan.snap)
           /\ UNCHANGED <<file, disk>>
    /\ UNCHANGED <<pend, next>>

\* The constructor: load, truncate the torn tail, open for append.
Open ==
    /\ mode \in {"closed", "off"} /\ starts < MaxStarts
    /\ starts' = starts + 1
    /\ LET scan == Load(file) IN
        \/ scan.state = "corrupt" /\ Refuse
        \/ /\ scan.state # "corrupt"
           /\ mode' = "idle" /\ Found(scan.snap)
           /\ Written(SubSeq(file, 1, scan.pos))
    /\ UNCHANGED <<pend, next>>

\* append, up to the first write.
BeginAppend(tokens) ==
    /\ mode = "idle"
    /\ current.sequence < MaxRecords
    /\ mode' = "writing"
    /\ next' = tokens
    /\ pend' = Record(current.sequence + 1, current.tokens, tokens)
    /\ readable' = readable \cup {tokens} /\ lasting' = lasting \cup {tokens}
    /\ UNCHANGED <<file, disk, current, starts>>

\* write_all makes progress.
WriteCell ==
    /\ mode = "writing" /\ pend # <<>>
    /\ Written(Append(file, Head(pend)))
    /\ pend' = Tail(pend)
    /\ UNCHANGED <<mode, current, next, starts, readable, lasting>>

\* append returns: the snapshot is the session's.
Appended ==
    /\ mode' = "idle"
    /\ current' = [sequence |-> current.sequence + 1, tokens |-> next]
    /\ readable' = {next} /\ lasting' = {next}
    /\ next' = <<>>
    /\ UNCHANGED <<file, pend, starts>>

\* Mutant: append returns before fdatasync.
SyncSkipped ==
    /\ mode = "writing" /\ pend = <<>>
    /\ Appended
    /\ UNCHANGED disk

\* fdatasync succeeds: whatever the file holds by now is durable.
Sync ==
    /\ mode = "writing" /\ pend = <<>>
    /\ Appended
    /\ disk' = {file}

\* A write or the fdatasync throws.  The owner (handle in src/src/rpc.cc) fails
\* closed, so that this journal is never appended to again.
AppendFails ==
    /\ mode = "writing"
    /\ mode' = "isolated"
    /\ pend' = <<>> /\ next' = <<>>
    /\ UNCHANGED <<file, disk, current, starts, readable, lasting>>

\* Nothing of a process is left, but what it wrote.
Gone ==
    /\ current' = NoSnapshot
    /\ pend' = <<>> /\ next' = <<>>
    /\ UNCHANGED <<starts, readable, lasting>>

ProcessDies ==
    /\ mode \in {"idle", "writing", "isolated"}
    /\ mode' = "closed"
    /\ Gone
    /\ UNCHANGED <<file, disk>>

\* The power may also fail after the process died.
PowerFails ==
    /\ mode \in {"closed", "idle", "writing", "isolated"}
    /\ mode' = "off"
    /\ \E f \in disk : file' = f /\ disk' = {f}
    /\ Gone

JournalNext ==
    \/ Open
    \/ \E tokens \in Sessions : BeginAppend(tokens)
    \/ WriteCell
    \/ Sync
    \/ AppendFails
    \/ ProcessDies
    \/ PowerFails

JournalSpec == JournalInit /\ [][JournalNext]_journalVars

-----------------------------------------------------------------------------
(* Properties.                                                             *)

\* A load finds a whole snapshot: after the death of the process the one append
\* last returned from, or that load last found, or the one being written; after
\* a power failure never one older than append last returned from.  (What load
\* found may be younger than that, and is then not durable: nothing syncs it.)
RecoveryIsExact ==
    [][mode' = "idle" =>
        /\ mode = "closed" => current'.tokens \in readable
        /\ mode = "off" => current'.tokens \in lasting]_journalVars

\* A journal written by append is always readable: load never takes what a death,
\* a power failure or a failed write left behind for a corrupt journal.
LoadNeverRefuses == mode # "refused"

\* The suffixes in the file add up to the snapshot in memory, whatever sequence
\* of growing, diverging and emptied sessions they were cut from, and however
\* often the process died in between.
FileHoldsCurrent ==
    mode = "idle" => Load(file) = [pos |-> Len(file), snap |-> current, state |-> "done"]

\* At any moment a power failure leaves a readable journal, with the snapshot
\* append last returned from or a younger one.
DiskHoldsPromised ==
    \A f \in disk :
        LET scan == Load(f) IN scan.state = "done" /\ scan.snap.tokens \in lasting

\* All three: what is on disk can be read, and is the session.
JournalHolds == LoadNeverRefuses /\ FileHoldsCurrent /\ DiskHoldsPromised
=============================================================================
