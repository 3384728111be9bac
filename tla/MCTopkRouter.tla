---------------------------- MODULE MCTopkRouter ----------------------------
(***************************************************************************)
(* TopkRouter alone, with logits that differ while their exponentials do   *)
(* not: all that lie far enough below the largest one underflow.           *)
(***************************************************************************)
EXTENDS TopkRouter

MCExpf == [d \in -3..0 |-> IF d = 0 THEN 1 ELSE 0]

MCRows == [RIds -> RLogits]

RouterSpec == RouterInit /\ [][RouterNext]_routerVars
=============================================================================
