-------------------------- MODULE MCReserveService --------------------------
(* Instances of ReserveService for TLC.                                    *)
EXTENDS ReserveService, TLC

\* Nothing orders users, rows, replicas or requests.  Used only where no
\* liveness property is checked.
Symmetry ==
    Permutations(User) \cup Permutations(RowId) \cup Permutations(Replica)
    \cup Permutations(Request)
=============================================================================
