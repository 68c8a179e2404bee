--------------------------- MODULE MCReservations ---------------------------
(* Instances of Reservations for TLC.                                      *)
EXTENDS Reservations, TLC

\* Users, row ids and sessions are interchangeable; times and quantities are
\* not.  Used only where no liveness property is checked.
Symmetry ==
    Permutations(User) \cup Permutations(RowId) \cup Permutations(Reserver)
    \cup Permutations(Updater)
=============================================================================
