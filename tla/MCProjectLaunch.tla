-------------------------- MODULE MCProjectLaunch --------------------------
(* ProjectLaunch with worker threads as a symmetry set. *)
EXTENDS ProjectLaunch, TLC
WorkerSymmetry == Permutations(Workers)
=============================================================================
