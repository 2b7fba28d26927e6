---------------------------- MODULE MCRdpDedup -----------------------------
(* RdpDedup for TLC.                                                       *)
EXTENDS RdpDedup, TLC

\* RDPs and processes are interchangeable.
Symmetry == Permutations(Rdps) \cup Permutations(Procs)
=============================================================================
