---------------------------- MODULE MCThreadPool ----------------------------
(* A pool of two slots for TLC: the first CLIENTS threads and HANDLE values  *)
(* are those of createThreads; TidsN and HandlesN are the ones left for the  *)
(* threads created later, interchangeable.                                   *)
EXTENDS ThreadPool, TLC

CONSTANTS t0, t1, h0, h1, TidsN, HandlesN

MCTids == {t0, t1} \cup TidsN
MCHandles == {h0, h1} \cup HandlesN
MCThread0 == (0 :> t0) @@ (1 :> t1)
MCHandle0 == (0 :> h0) @@ (1 :> h1)

Symmetry == Permutations(Conns) \cup Permutations(TidsN) \cup Permutations(HandlesN)
=============================================================================
