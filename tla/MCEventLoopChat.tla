--------------------------- MODULE MCEventLoopChat ---------------------------
(* Constants of the event loop's run.                                      *)
EXTENDS EventLoopChat

CONSTANTS c1, c2, c3

MCClients == {c1, c2, c3}
MCTalkers == {c2}
MCLeavers == {c2, c3}
MCSlow == {c2}
MCFds == {5, 6, 7}
=============================================================================
