----------------------------- MODULE ThreadBlock -----------------------------
(***************************************************************************)
(* How the threads of one CUDA block run a kernel: each takes the kernel's *)
(* steps in order, at its own pace, and __syncthreads() holds a thread     *)
(* back until the others have come as far.  A thread here stands for a     *)
(* warp: what a warp does between two of its own synchronisations is one   *)
(* step.                                                                   *)
(***************************************************************************)
EXTENDS Naturals

\* at[w] steps are behind thread w; barrier says whether a barrier stands before
\* the step it is to take (steps are numbered from 0).
MayStep(at, barrier, w) ==
    barrier => \A v \in DOMAIN at : at[v] >= at[w]

Stepped(at, w) == [at EXCEPT ![w] = @ + 1]

\* The elements below n a thread takes when a loop begins at its own number and
\* goes on by the number of threads.
Strided(w, threads, n) == {i \in 0..(n - 1) : i % threads = w}
=============================================================================
