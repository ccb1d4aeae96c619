--------------------------- MODULE MCRollingRate ----------------------------
(* TLC instances of RollingRateSpec.                                         *)
EXTENDS RollingRateSpec

MCTimes == 0 .. 11

=============================================================================
