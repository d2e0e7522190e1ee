-------------------------- MODULE MCBlockingQueue --------------------------
(* Constants of the BlockingQueue run: three threads, which may be any     *)
(* mixture of producers, consumers and closers.                            *)
EXTENDS BlockingQueue, TLC

CONSTANTS t1, t2, t3, a, b

MCThreads == {t1, t2, t3}
MCItems == {a, b}
Symmetry == Permutations(MCThreads) \cup Permutations(MCItems)
=============================================================================
