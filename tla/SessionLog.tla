----------------------------- MODULE SessionLog -----------------------------
(***************************************************************************)
(* What a session promises its owner about its two frontiers: `canonical', *)
(* the number of tokens that belong to the session, and `target', the      *)
(* number of them the model has evaluated.  A request is opened, and then  *)
(* either moves both frontiers in one step or moves neither; there is no   *)
(* state in which half of a request is visible, and an aborted one leaves  *)
(* nothing behind.  SessionTxn, the engine of src/src/transaction.cc, is   *)
(* shown to implement this module.                                         *)
(***************************************************************************)
EXTENDS Integers

VARIABLES canonical, target,
          open             \* the kind of the request in progress, or "none"

logVars == <<canonical, target, open>>

LogInit == canonical = 0 /\ target = 0 /\ open = "none"

\* Known tokens join an idle session without being evaluated.
LogKnow ==
    /\ open = "none"
    /\ canonical' > canonical
    /\ UNCHANGED <<target, open>>

LogOpen ==
    /\ open = "none"
    /\ open' \in {"append", "decode", "speculative"}
    /\ UNCHANGED <<canonical, target>>

LogAbort ==
    /\ open # "none"
    /\ open' = "none"
    /\ UNCHANGED <<canonical, target>>

\* Known tokens that are already in the session are evaluated.
LogEvaluate ==
    /\ open = "append" /\ open' = "none"
    /\ target' > target
    /\ target' <= canonical
    /\ UNCHANGED canonical

\* A request appends tokens; they and the at most one pending token before
\* them are evaluated, so that nothing is left pending.
LogAppend ==
    /\ open = "append" /\ open' = "none"
    /\ canonical - target \in {0, 1}
    /\ canonical' > canonical
    /\ target' = canonical'

\* Decoding evaluates the single pending token and the accepted drafts after
\* it; the last token it publishes is the new, single, pending one.
LogDecode ==
    /\ open \in {"decode", "speculative"} /\ open' = "none"
    /\ canonical = target + 1
    /\ canonical' > canonical
    /\ open = "decode" => canonical' = canonical + 1
    /\ canonical' = target' + 1

LogReset ==
    /\ open = "none"
    /\ canonical' = 0 /\ target' = 0
    /\ UNCHANGED open

LogNext ==
    LogKnow \/ LogOpen \/ LogAbort \/ LogEvaluate \/ LogAppend \/ LogDecode \/ LogReset

LogSpec == LogInit /\ [][LogNext]_logVars
=============================================================================
