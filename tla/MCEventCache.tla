---------------------------- MODULE MCEventCache ----------------------------
(* Instances of EventCache for TLC.                                        *)
EXTENDS EventCache, TLC
Symmetry == Permutations(Value) \cup Permutations(Process)
            \cup Permutations(Caller) \cup Permutations(Admin)
=============================================================================
