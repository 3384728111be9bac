----------------------------- MODULE StateBank ------------------------------
(***************************************************************************)
(* The transactional device state of a CUDA stage (src/cuda/q38_gdn.cu,    *)
(* q38_ple.cu, q38_qsa.cu), as operators on records.                       *)
(*                                                                         *)
(* A double bank (CudaGdnStateBank, CudaPleStateBank, which are the same   *)
(* program on different buffers) keeps two copies of a recurrent state;    *)
(* `at' is the committed one, and a transaction works on the other, cloned *)
(* when it begins.  A recurrent state is the sequence of inputs folded into*)
(* it; a checkpoint that is no longer valid is empty.                      *)
(*                                                                         *)
(* CudaQsaStateBank keeps a single append-only array of keys by position,  *)
(* with a pooled key for each complete block of BlockTokens positions; what*)
(* lies beyond `committed' is whatever the last transaction left there.    *)
(***************************************************************************)
EXTENDS Integers, Sequences

CONSTANT BlockTokens          \* kQ38QsaBlockTokens

ASSUME BlockAssumption == BlockTokens \in Nat \ {0}

FreshBank ==
    [copy |-> [i \in {0, 1} |-> <<>>], at |-> 0, active |-> FALSE, epoch |-> 0,
     ckpt |-> <<>>, valid |-> FALSE]

Working(b) == b.copy[1 - b.at]
CommittedCopy(b) == b.copy[b.at]

BankBegin(b, e) ==
    [b EXCEPT !.copy[1 - b.at] = CommittedCopy(b), !.active = TRUE, !.epoch = e,
              !.valid = FALSE, !.ckpt = <<>>]

\* Kernels fold the inputs s into the working copy.
BankFold(b, s) == [b EXCEPT !.copy[1 - b.at] = @ \o s]

BankCheckpoint(b) == [b EXCEPT !.ckpt = Working(b), !.valid = TRUE]

BankRestoreCheckpoint(b) == [b EXCEPT !.copy[1 - b.at] = b.ckpt]

\* commit and rollback demand the epoch that began.
BankHolds(b, e) == b.active /\ b.epoch = e

BankCommit(b) == [b EXCEPT !.at = 1 - @, !.active = FALSE, !.epoch = 0,
              !.valid = FALSE, !.ckpt = <<>>]

BankRollback(b) == [b EXCEPT !.active = FALSE, !.epoch = 0,
              !.valid = FALSE, !.ckpt = <<>>]

-----------------------------------------------------------------------------
FreshQsa ==
    [keys |-> <<>>, pooled |-> <<>>, committed |-> 0, active |-> FALSE,
     epoch |-> 0, evaluated |-> 0]

QsaBegin(q, e) == [q EXCEPT !.active = TRUE, !.epoch = e, !.evaluated = 0]

\* The block keys of the complete blocks of ks.
Blocks(ks) ==
    [i \in 1..(Len(ks) \div BlockTokens) |->
        SubSeq(ks, (i - 1) * BlockTokens + 1, i * BlockTokens)]

\* s overwritten from 0-based position p on by t; p is never beyond the end.
Overwrite(s, p, t) == SubSeq(s, 1, p) \o t \o SubSeq(s, p + Len(t) + 1, Len(s))

\* Mutant: a block that was pooled once is not pooled again.
QsaStorePooledOnce(q, p, t) ==
    LET ks == Overwrite(q.keys, p, t)
        end == p + Len(t)
        fresh == SubSeq(Blocks(SubSeq(ks, 1, end)), Len(q.pooled) + 1, end \div BlockTokens) IN
    [q EXCEPT !.keys = ks, !.pooled = @ \o fresh]

\* The keys of positions p, p + 1, ... are stored, and every block they
\* complete is pooled (again).
QsaStore(q, p, t) ==
    LET ks == Overwrite(q.keys, p, t)
        end == p + Len(t)
        before == p \div BlockTokens
        fresh == SubSeq(Blocks(SubSeq(ks, 1, end)), before + 1, end \div BlockTokens) IN
    [q EXCEPT !.keys = ks, !.pooled = Overwrite(@, before, fresh)]

QsaMark(q, n) == [q EXCEPT !.evaluated = n]

QsaHolds(q, e) == q.active /\ q.epoch = e

\* Only a prefix of what was evaluated can be committed.
QsaCanCommit(q, e, n) == QsaHolds(q, e) /\ n \in 1..q.evaluated

QsaCommit(q, n) ==
    [q EXCEPT !.committed = @ + n, !.active = FALSE, !.epoch = 0, !.evaluated = 0]

QsaRollback(q) == [q EXCEPT !.active = FALSE, !.epoch = 0, !.evaluated = 0]

\* The array is not cleared.
QsaReset(q) == [q EXCEPT !.committed = 0]
=============================================================================
