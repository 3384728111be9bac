---------------------------- MODULE MCStage0Live -----------------------------
(***************************************************************************)
(* Stage 0 and the two things its calls wait for: the slots of the         *)
(* boundary ring and the rows of the PLE store.  The three share no        *)
(* state: a behaviour runs one of them, its focus; the others keep still.  *)
(***************************************************************************)
EXTENDS CudaStage0, BoundaryRing, MCPleStore

VARIABLE focus

LiveVars == <<focus, cudaVars, ringVars, pleVars>>

LiveInit ==
    /\ focus \in {"stage0", "ring", "ple"}
    /\ CudaInit /\ RingInit /\ PleInit

LiveNext ==
    \/ focus = "stage0" /\ CudaNext /\ UNCHANGED <<focus, ringVars, pleVars>>
    \/ focus = "ring" /\ RingNext /\ UNCHANGED <<focus, cudaVars, pleVars>>
    \/ focus = "ple" /\ PleNext /\ UNCHANGED <<focus, cudaVars, ringVars>>

\* Threads, streams, notifications and the kernel's reads go on; nobody owes a
\* request, a cancellation or a failure.
LiveSpec ==
    /\ LiveInit /\ [][LiveNext]_LiveVars
    /\ WF_cudaVars(focus = "stage0" /\ StageWorker)
    /\ WF_cudaVars(focus = "stage0" /\ Reader)
    /\ WF_ringVars(focus = "ring" /\ ProducerStep)
    /\ WF_ringVars(focus = "ring" /\ ConsumerStep)
    /\ WF_ringVars(focus = "ring" /\ ProducerStreamStep)
    /\ WF_ringVars(focus = "ring" /\ ConsumerStreamStep)
    /\ WF_ringVars(focus = "ring" /\ Notify)
    /\ WF_pleVars(focus = "ple" /\ ReadStep)
    /\ WF_pleVars(focus = "ple" /\ KernelCompletes)
=============================================================================
