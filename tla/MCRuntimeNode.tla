---------------------------- MODULE MCRuntimeNode ----------------------------
(* Constants of the RuntimeNode runs.                                      *)
EXTENDS RuntimeNode

\* One goal that is refused, a one-step and a two-step task.
MCTargets == {0, 1, 2}

\* Everything a client may apply except a StartTask without a task.
MCAnyClient == RuntimeEvents \ {"StartTask"}

\* What the watchdog and an operator following the README apply.
MCOperator == {"SensorTimeout", "RecoveryDone"}
=============================================================================
