---------------------------- MODULE TokenSession ----------------------------
(***************************************************************************)
(* What the executor promises its one caller at a time, with the stages,   *)
(* the workers, the drafts and the rollbacks left out.  A call either ends *)
(* "ok" and has its whole effect in that very step, or ends otherwise and  *)
(* has none; generated tokens are the target model's own greedy choices,   *)
(* however many of them one call publishes; after an unrecoverable failure *)
(* the session is dead for good.                                           *)
(***************************************************************************)
EXTENDS Integers, Sequences

CONSTANTS Greedy(_),     \* the target model's next token after a sequence
          StopTokens,
          NoToken,       \* no sample yet
          Dead           \* the session after the executor failed closed

VARIABLES session,       \* Dead or [tokens, pending, sample]
          answer         \* "busy" during a call, else how the last one ended

sessionVars == <<session, answer>>

SessionInit ==
    /\ session = [tokens |-> <<>>, pending |-> 0, sample |-> NoToken]
    /\ answer = "none"

Call == answer # "busy" /\ answer' = "busy" /\ UNCHANGED session

Finish(alive) == answer = "busy" /\ answer' = "ok" /\ alive

\* New tokens, and the token pending before them, are evaluated.
AppendTokens ==
    /\ Finish(session # Dead /\ session' # Dead)
    /\ LET old == session.tokens  new == session'.tokens IN
        /\ Len(new) > Len(old)
        /\ SubSeq(new, 1, Len(old)) = old
        /\ session' = [tokens |-> new, pending |-> 0, sample |-> Greedy(new)]

\* The sample of the last evaluated token joins the session.
Seed ==
    /\ Finish(session # Dead /\ session' # Dead)
    /\ session.pending = 0
    /\ session.sample # NoToken
    /\ session' = [tokens |-> Append(session.tokens, session.sample),
                   pending |-> 1, sample |-> session.sample]

\* One or more greedy tokens are published; only the last may be a stop token.
Generate ==
    /\ Finish(session # Dead /\ session' # Dead)
    /\ session.pending = 1
    /\ LET old == session.tokens  new == session'.tokens IN
        /\ Len(new) > Len(old)
        /\ SubSeq(new, 1, Len(old)) = old
        /\ \A i \in (Len(old) + 1)..Len(new) : new[i] = Greedy(SubSeq(new, 1, i - 1))
        /\ \A i \in (Len(old) + 1)..(Len(new) - 1) : new[i] \notin StopTokens
        /\ session' = [tokens |-> new, pending |-> 1, sample |-> new[Len(new)]]

ResetSession ==
    /\ Finish(session # Dead)
    /\ session' = [tokens |-> <<>>, pending |-> 0, sample |-> NoToken]

\* A refused, cancelled or failed call.
Refuse ==
    /\ answer = "busy"
    /\ answer' \in {"cancelled", "deadline", "failed"}
    /\ session' \in {session, Dead}

\* The executor fails closed, during a call or because its owner says so.
Die == session' = Dead /\ UNCHANGED answer

SessionNext ==
    Call \/ AppendTokens \/ Seed \/ Generate \/ ResetSession \/ Refuse \/ Die

SessionSpec == SessionInit /\ [][SessionNext]_sessionVars
=============================================================================
