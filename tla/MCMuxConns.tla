----------------------------- MODULE MCMuxConns -----------------------------
(* Small instances of MuxConns for TLC. *)
EXTENDS MuxConns, TLC

\* Connections are interchangeable in the safety runs.
ConnSymmetry == Permutations(Conns)
=============================================================================
