----------------------------- MODULE MCRdpPush -----------------------------
(* RdpPush for TLC.                                                        *)
EXTENDS RdpPush, TLC

\* Workers and RDIs are interchangeable; so are attempts (fresh uuids).
Symmetry == Permutations(Attempts) \cup Permutations(Rdis) \cup Permutations(Workers)
=============================================================================
