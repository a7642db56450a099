------------------------------ MODULE MCHealth ------------------------------
(* Instances of HealthChecker for TLC: an unused slot of the history holds   *)
(* the zero status.                                                          *)
EXTENDS HealthChecker

MCZeroEntry == ZeroStatus
=============================================================================
