------------------------------- MODULE MCCanBus -------------------------------
(* Constants of the CAN run: values whose bytes differ, the ends of 16     *)
(* bits and one beyond.                                                    *)
EXTENDS CanBus

MCPositions == {-32768, -1000, 300, 32767, 40000}
=============================================================================
