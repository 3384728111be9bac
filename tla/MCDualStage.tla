---------------------------- MODULE MCDualStage -----------------------------
(***************************************************************************)
(* The executor with two tokens, one of them the stop token, appends of up *)
(* to two tokens in chunks of one, and drafts of up to MaxWidth tokens that*)
(* are any sequence over the vocabulary: every prefix of them is accepted  *)
(* in some behaviour.                                                      *)
(***************************************************************************)
EXTENDS DualStage

\* A target model whose choices depend on the last token and on the position,
\* and go wrong as soon as the two stages have seen different tokens.
MCPredict(row, rows) ==
    LET right == (row[Len(row)] + Len(rows)) % 2 IN
    IF row = rows THEN right ELSE 1 - right
=============================================================================
