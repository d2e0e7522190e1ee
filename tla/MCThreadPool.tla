----------------------------- MODULE MCThreadPool -----------------------------
(* Constants of the thread pool's run: three workers; the first job        *)
(* submits another task, and that one a third.                             *)
EXTENDS ThreadPool

CONSTANTS w1, w2, w3

MCWorkers == {w1, w2, w3}
MCChild == [t \in {1, 11} |-> t + 10]
=============================================================================
