----------------------------- MODULE MCLoadTest -----------------------------
(* Instances of LoadTest for TLC.                                          *)
EXTENDS LoadTest, TLC
=============================================================================
