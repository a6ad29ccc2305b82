---------------------------- MODULE MCMuxStream -----------------------------
(* MuxStream for TLC: the connections are interchangeable. *)
EXTENDS MuxStream

ConnSymmetry == Permutations(Conns)
=============================================================================
