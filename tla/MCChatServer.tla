---------------------------- MODULE MCChatServer ----------------------------
(* Constants of the ChatServer runs.                                       *)
EXTENDS ChatServer

CONSTANTS c1, c2, c3

MCClients == {c1, c2, c3}
MCOne == {c3}
MCTwo == {c1, c2}
MCNobody == {}
MCFds == 1 .. 3
=============================================================================
