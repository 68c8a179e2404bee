---------------------------- MODULE MCSimulation ----------------------------
(* Instances of Simulation for TLC.                                        *)
EXTENDS Simulation
=============================================================================
