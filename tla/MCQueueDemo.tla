---------------------------- MODULE MCQueueDemo ----------------------------
(* Constants of the QueueDemo run: the program with two threads of each    *)
(* kind, as in the source, and fewer frames and places.                    *)
EXTENDS QueueDemo

CONSTANTS p1, p2, c1, c2

MCProducers == {p1, p2}
MCConsumers == {c1, c2}
MCThreads == MCProducers \cup MCConsumers \cup {Main}
MCItems == MCProducers \X (0 .. Frames - 1)
=============================================================================
