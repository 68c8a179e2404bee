--------------------------- MODULE MCVirtualQueue ---------------------------
(* Instances of VirtualQueue for TLC.                                      *)
EXTENDS VirtualQueue, TLC

\* Calls and promoters are interchangeable; users are ordered.  Used only
\* where no liveness property is checked.
Symmetry == Permutations(Call) \cup Permutations(Promoter)
=============================================================================
