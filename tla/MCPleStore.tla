----------------------------- MODULE MCPleStore ------------------------------
(***************************************************************************)
(* A PLE table of three rows of three cells in two files, pages of two     *)
(* cells.                                                                  *)
(***************************************************************************)
EXTENDS PleStore

\* Two files of the PLE table: rows 0 and 1 in the first, behind a header of one
\* cell, so that a row straddles pages; row 2 in the second.
MCTable == <<[start |-> 0, rows |-> 2, file |-> 0, offset |-> 1],
             [start |-> 2, rows |-> 1, file |-> 1, offset |-> 0]>>
MCFileCells == [f \in {0, 1} |-> IF f = 0 THEN 7 ELSE 3]
=============================================================================
