---------------------------- MODULE StageBackend ----------------------------
(***************************************************************************)
(* The state of one pipeline stage and what each backend call does to it   *)
(* (src/src/mock_backend.cc, the reference implementation of the           *)
(* StageBackend contract, and the PleStage0Backend decorator of            *)
(* src/src/ple_backend.cc).  The module has no variables: every call is an *)
(* operator from a backend record to a backend record, and a separate      *)
(* predicate says when the call is accepted; a refused call throws and     *)
(* changes nothing (a stage 1 that finds a foreign boundary throws after it*)
(* took the rows).                                                         *)
(*                                                                         *)
(* A backend is a record with                                              *)
(*   rows   the tokens whose state it holds; Len(rows) is                  *)
(*          committed_frontier_                                            *)
(*   epoch  committed_epoch_                                               *)
(*   prov   provisional_epoch_ (0 when nothing is provisional)             *)
(*   base, expected, kind   the provisional transaction                    *)
(*   ptoks  provisional_tokens_; Len(ptoks) is provisional_processed_      *)
(*   ckpt   speculative_checkpoint_                                        *)
(***************************************************************************)
EXTENDS Integers, Sequences

CONSTANTS Predict(_, _),   \* next token from a boundary row and stage 1's rows
          PleStage0        \* TRUE: stage 0 is decorated by PleStage0Backend

\* A backend that holds the given rows and no provisional transaction.
AtRest(rows, epoch) ==
    [rows |-> rows, epoch |-> epoch, prov |-> 0, base |-> 0, expected |-> 0,
     kind |-> "invalid", ptoks |-> <<>>, ckpt |-> 0]

FreshBackend == AtRest(<<>>, 0)

\* What the target model says after the rows s: both stages hold exactly s.
Greedy(s) == Predict(s, s)

\* execute: the first chunk opens a provisional transaction, every later one
\* must be its next range.  t is the transaction the input carries.
ExecuteAccepted(b, t, off) ==
    IF b.prov = 0
    THEN t.epoch > b.epoch /\ off = 0 /\ t.base_target = Len(b.rows)
    ELSE /\ t.epoch = b.prov
         /\ t.base_target = b.base
         /\ t.evaluated = b.expected
         /\ t.kind = b.kind
         /\ off = Len(b.ptoks)

Executed(b, t, toks) ==
    IF b.prov = 0
    THEN [b EXCEPT !.prov = t.epoch, !.base = t.base_target,
                   !.expected = t.evaluated, !.kind = t.kind, !.ptoks = toks]
    ELSE [b EXCEPT !.ptoks = @ \o toks]

\* The boundary frame and row that stage 0 hands to stage 1 after a chunk.
BoundaryOf(b, t, off, count) ==
    [epoch |-> t.epoch, start |-> t.base_target + off, count |-> count,
     row |-> b.rows \o b.ptoks]

\* The identity checks stage 1 (and the coordinator) makes on a boundary.
BoundaryMatches(boundary, t, off, count) ==
    /\ boundary.epoch = t.epoch
    /\ boundary.start = t.base_target + off
    /\ boundary.count = count

\* Stage 1's answer to a chunk.  The final chunk of a speculative transaction
\* recounts the accepted prefix of everything it was given.
AcceptedPrefix(b) ==
    CHOOSE m \in 1..Len(b.ptoks) :
        /\ \A i \in 1..(m - 1) :
              b.ptoks[i + 1] = Greedy(b.rows \o SubSeq(b.ptoks, 1, i))
        /\ m = Len(b.ptoks) \/
              b.ptoks[m + 1] # Greedy(b.rows \o SubSeq(b.ptoks, 1, m))

StageOneOutput(b, t, boundary, final) ==
    LET all == Len(b.ptoks)
        m == IF t.kind = "speculative" /\ final THEN AcceptedPrefix(b) ELSE all
        row(n) == b.rows \o SubSeq(b.ptoks, 1, n) IN
    [commit |-> m,
     next |-> IF m = all THEN Predict(boundary.row, row(all)) ELSE Greedy(row(m))]

\* checkpoint_speculative_prefix.  PleStage0Backend does not override it, so a
\* decorated stage 0 runs the empty default of StageBackend.
CheckpointAccepted(b, epoch, n) ==
    PleStage0 \/ (epoch = b.prov /\ b.kind = "speculative" /\ n > 0 /\ n = Len(b.ptoks))

NotCheckpointed(b, n) == b    \* Mutant: the checkpoint is not remembered.
Checkpointed(b, n) == IF PleStage0 THEN b ELSE [b EXCEPT !.ckpt = n]

\* commit: the whole extent was evaluated, or an online verification stopped
\* exactly at n, or one checkpointed row after it.
CommitAccepted(b, s, epoch, n) ==
    LET complete == Len(b.ptoks) = b.expected
        exact == b.kind = "speculative" /\ Len(b.ptoks) = n
        lookahead == /\ b.kind = "speculative"
                     /\ Len(b.ptoks) = n + 1
                     /\ b.ckpt = n IN
    /\ epoch = b.prov
    /\ n \in 1..Len(b.ptoks)
    /\ complete \/ exact \/ lookahead
    /\ PleStage0 /\ s = 0 => complete

Committed(b, n) == AtRest(b.rows \o SubSeq(b.ptoks, 1, n), b.prov)

\* rollback: of a transaction the backend never saw, only its epoch is spent.
RollbackAccepted(b, epoch) ==
    IF b.prov = 0 THEN epoch > b.epoch ELSE epoch = b.prov

RolledBack(b, epoch) == AtRest(b.rows, epoch)

\* reset_session
ResetAccepted(b) == b.prov = 0
=============================================================================
