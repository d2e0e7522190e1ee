----------------------------- MODULE MCRobotArms -----------------------------
(* Constants of the arms' run: two observers of the second arm, which      *)
(* differ only in what they print.                                         *)
EXTENDS RobotArms, TLC

CONSTANTS logger, dash

MCObservers == {logger, dash}
Interchangeable == Permutations(MCObservers)
=============================================================================
