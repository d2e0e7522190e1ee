------------------------------ MODULE ChatServer ------------------------------
(***************************************************************************)
(* The chat servers with a thread per connection and on a thread pool      *)
(* (tcp_chat_server, tcp_chat_threadpool: the same handle_client), and the *)
(* chat client.  The table of descriptors is shared under a mutex, but a   *)
(* broadcast sends from a copy of it after the mutex is released, while    *)
(* other handlers close descriptors and the kernel hands them out again.   *)
(*                                                                         *)
(* External: sockets.  A connection delivers in order; accept takes the    *)
(* lowest free descriptor, as POSIX has it; send reaches whoever owns the  *)
(* descriptor at that moment.                                              *)
(***************************************************************************)
EXTENDS Integers, Sequences, FiniteSets

CONSTANTS
  Clients,  \* chat programs, each of which connects once
  Talkers,  \* those that type a line
  Leavers,  \* those whose input ends, or that are killed
  Fds,      \* the descriptors the server process has for connections
  Workers,  \* threads for handlers: NUM_WORKERS, or one for each client
  None      \* no client

ASSUME ChatAssumption ==
  /\ IsFiniteSet(Clients)
  /\ Talkers \subseteq Clients /\ Leavers \subseteq Clients
  /\ Fds \subseteq Nat
  /\ Workers \in Nat \ {0}
  /\ None \notin Clients

VARIABLES
  client,   \* each client program: open, quitting (its side shut), gone
  unread,   \* TRUE while a line of the client waits in the server's socket
  said,     \* the clients that have typed their line
  heard,    \* what each open client printed: another client and its news
  owner,    \* the kernel: the client at the other end of each descriptor
  tasks,    \* tasks_ of the pool: connections no thread serves yet
  table,    \* g_clients: the client registered under each descriptor
  fd,       \* client_fd of each handler
  pc,       \* where each handler is in handle_client
  todo      \* recipients that a broadcast has copied and not come to

people == <<client, unread, said>>
handler == <<fd, pc, todo>>
vars == <<people, heard, owner, tasks, table, handler>>

(* The news a handler broadcasts, each named like the point of             *)
(* handle_client that does it.                                             *)
News == {"joined", "said", "left"}

Points == {"none", "queued", "register", "recv", "erase", "close", "done"} \cup News

(* Every client program has called connect, which returns before accept:   *)
(* one that comes late is one that is accepted late.                       *)
Init ==
  /\ client = [c \in Clients |-> "open"]
  /\ unread = [c \in Clients |-> FALSE]
  /\ said = {}
  /\ heard = [c \in Clients |-> {}]
  /\ owner = [f \in Fds |-> None]
  /\ tasks = <<>>
  /\ table = [f \in Fds |-> None]
  /\ fd = [c \in Clients |-> 0]
  /\ pc = [c \in Clients |-> "none"]
  /\ todo = [c \in Clients |-> {}]

-----------------------------------------------------------------------------
(* The client program.                                                     *)

(* One turn of the loop that sends what was typed.                         *)
Say(c) ==
  /\ c \in Talkers \ said
  /\ client[c] = "open"
  /\ said' = said \cup {c}
  /\ unread' = [unread EXCEPT ![c] = TRUE]
  /\ UNCHANGED <<client, heard, owner, tasks, table, handler>>

(* The input ends: the program shuts its side and joins the thread that    *)
(* receives.  That thread may already have seen g_running, and a program   *)
(* can be killed: then the socket is closed at once.                       *)
HangUp(c) ==
  /\ c \in Leavers
  /\ client[c] = "open"
  /\ \E end \in {"quitting", "gone"} : client' = [client EXCEPT ![c] = end]
  /\ heard' = [heard EXCEPT ![c] = {}]
  /\ UNCHANGED <<unread, said, owner, tasks, table, handler>>

(* recv returns 0 because the server has closed the connection.            *)
ServerClosed(c) ==
  /\ client[c] = "quitting"
  /\ pc[c] # "none"
  /\ \A f \in Fds : owner[f] # c
  /\ client' = [client EXCEPT ![c] = "gone"]
  /\ UNCHANGED <<unread, said, heard, owner, tasks, table, handler>>

-----------------------------------------------------------------------------
(* main: accept, and hand the connection to a thread.                      *)

Free == {f \in Fds : owner[f] = None}

(* When accept fails, with no descriptor left, the loop tries again.       *)
Accept(c) ==
  /\ pc[c] = "none"
  /\ \E f \in Free :
       /\ \A g \in Free : f <= g
       /\ owner' = [owner EXCEPT ![f] = c]
       /\ fd' = [fd EXCEPT ![c] = f]
  /\ pc' = [pc EXCEPT ![c] = "queued"]
  /\ tasks' = Append(tasks, c)
  /\ UNCHANGED <<people, heard, table, todo>>

Busy == {c \in Clients : pc[c] \notin {"none", "queued", "done"}}

(* A thread starts on a connection: a worker takes the oldest task.  With  *)
(* as many workers as clients this is the detached thread of the other     *)
(* server.                                                                 *)
Start ==
  /\ tasks # <<>>
  /\ Cardinality(Busy) < Workers
  /\ pc' = [pc EXCEPT ![Head(tasks)] = "register"]
  /\ tasks' = Tail(tasks)
  /\ UNCHANGED <<people, heard, owner, table, fd, todo>>

-----------------------------------------------------------------------------
(* handle_client.                                                          *)

(* Mutant: the newcomer is announced before it is in the table.            *)
AfterAnnouncingFirst ==
  [register |-> "recv", joined |-> "register", said |-> "recv",
   recv |-> "erase", erase |-> "left", left |-> "close", close |-> "done"]

(* Mutant: the descriptor is closed before it leaves the table.            *)
AfterClosingFirst ==
  [register |-> "joined", joined |-> "recv", said |-> "recv",
   recv |-> "close", close |-> "erase", erase |-> "left", left |-> "done"]

(* Mutant: the handler returns without close.                              *)
AfterWithoutClose ==
  [register |-> "joined", joined |-> "recv", said |-> "recv",
   recv |-> "erase", erase |-> "left", left |-> "done", close |-> "done"]

(* The order of handle_client: which point follows each.  From recv it     *)
(* leaves the loop.                                                        *)
After ==
  [register |-> "joined", joined |-> "recv", said |-> "recv",
   recv |-> "erase", erase |-> "left", left |-> "close", close |-> "done"]

Register(c) ==
  /\ pc[c] = "register"
  /\ table' = [table EXCEPT ![fd[c]] = c]
  /\ pc' = [pc EXCEPT ![c] = After.register]
  /\ UNCHANGED <<people, heard, owner, tasks, fd, todo>>

(* The handler has come to the last recipient, or there is none: broadcast *)
(* returns.                                                                *)
Continue(c) ==
  pc' = [pc EXCEPT ![c] = IF todo'[c] = {} THEN After[@] ELSE @]

(* broadcast, first half: copy the recipients under the mutex.             *)
Snapshot(c) ==
  /\ pc[c] \in News
  /\ todo[c] = {}
  /\ todo' = [todo EXCEPT ![c] = {f \in Fds \ {fd[c]} : table[f] # None}]
  /\ Continue(c)
  /\ UNCHANGED <<people, heard, owner, tasks, table, fd>>

(* Client d gets news of c.  A program that is quitting stops receiving    *)
(* with the first message that comes.                                      *)
Deliver(c, d) ==
  /\ heard' = IF d # None /\ client[d] = "open"
              THEN [heard EXCEPT ![d] = @ \cup {<<c, pc[c]>>}] ELSE heard
  /\ client' = IF d # None /\ client[d] = "quitting"
               THEN [client EXCEPT ![d] = "gone"] ELSE client

(* Mutant: the loop ends at the first send that fails.                     *)
SendUntilError(c) ==
  /\ \E f \in todo[c] :
       /\ Deliver(c, owner[f])
       /\ todo' = [todo EXCEPT ![c] =
                     IF owner[f] # None /\ client[owner[f]] # "gone" THEN @ \ {f} ELSE {}]
  /\ Continue(c)
  /\ UNCHANGED <<unread, said, owner, tasks, table, fd>>

(* broadcast, second half: one send, in the order of the copy, which is    *)
(* that of the hash table.  What send returns is not looked at.            *)
Send(c) ==
  /\ \E f \in todo[c] :
       /\ Deliver(c, owner[f])
       /\ todo' = [todo EXCEPT ![c] = @ \ {f}]
  /\ Continue(c)
  /\ UNCHANGED <<unread, said, owner, tasks, table, fd>>

(* recv returns a line.                                                    *)
RecvLine(c) ==
  /\ pc[c] = "recv"
  /\ unread[c]
  /\ unread' = [unread EXCEPT ![c] = FALSE]
  /\ pc' = [pc EXCEPT ![c] = "said"]
  /\ UNCHANGED <<client, said, heard, owner, tasks, table, fd, todo>>

(* recv returns 0 or an error: the client has shut its side and all it     *)
(* sent was read, or a closed socket answered a send with a reset, which   *)
(* discards what was not read.                                             *)
RecvEnd(c) ==
  /\ pc[c] = "recv"
  /\ \/ client[c] = "quitting" /\ ~unread[c]
     \/ client[c] = "gone"
  /\ unread' = [unread EXCEPT ![c] = FALSE]
  /\ pc' = [pc EXCEPT ![c] = After.recv]
  /\ UNCHANGED <<client, said, heard, owner, tasks, table, fd, todo>>

Erase(c) ==
  /\ pc[c] = "erase"
  /\ table' = [table EXCEPT ![fd[c]] = None]
  /\ pc' = [pc EXCEPT ![c] = After.erase]
  /\ UNCHANGED <<people, heard, owner, tasks, fd, todo>>

(* close, and the handler returns: its thread ends, or is free for the     *)
(* next task.                                                              *)
Close(c) ==
  /\ pc[c] = "close"
  /\ owner' = [owner EXCEPT ![fd[c]] = None]
  /\ pc' = [pc EXCEPT ![c] = After.close]
  /\ fd' = [fd EXCEPT ![c] = 0]
  /\ UNCHANGED <<people, heard, tasks, table, todo>>

Handler(c) ==
  \/ Register(c) \/ Snapshot(c) \/ Send(c)
  \/ RecvLine(c) \/ RecvEnd(c) \/ Erase(c) \/ Close(c)

Next ==
  \/ Start
  \/ \E c \in Clients :
       \/ Say(c) \/ HangUp(c) \/ ServerClosed(c)
       \/ Accept(c) \/ Handler(c)

Spec == Init /\ [][Next]_vars

(* The threads of the server run, and so does the one of a client that     *)
(* waits for the server to close.  People need not type or leave.          *)
Fairness ==
  /\ WF_vars(Start)
  /\ \A c \in Clients :
       WF_vars(Accept(c)) /\ WF_vars(Handler(c)) /\ WF_vars(ServerClosed(c))

LiveSpec == Spec /\ Fairness

-----------------------------------------------------------------------------
(* Properties.                                                             *)

(* Types: among them that a handler is given a descriptor, never the -1 of *)
(* a failed accept.                                                        *)
TypeOK ==
  /\ client \in [Clients -> {"open", "quitting", "gone"}]
  /\ unread \in [Clients -> BOOLEAN]
  /\ said \subseteq Talkers
  /\ heard \in [Clients -> SUBSET (Clients \X News)]
  /\ owner \in [Fds -> Clients \cup {None}]
  /\ tasks \in Seq(Clients)
  /\ table \in [Fds -> Clients \cup {None}]
  /\ fd \in [Clients -> Fds \cup {0}]
  /\ pc \in [Clients -> Points]
  /\ todo \in [Clients -> SUBSET Fds]

(* What is in g_clients can be sent to: a descriptor in the table is open  *)
(* and belongs to the client registered under it, however descriptors are  *)
(* closed and handed out again.  This is why erase comes before close.     *)
TableIsOpen ==
  \A f \in Fds : table[f] # None => owner[f] = table[f]

Registered(c) == \E f \in Fds : table[f] = c

(* The client is in the room: connected, registered, its arrival announced *)
(* to the end.                                                             *)
Present(c) ==
  Registered(c) /\ client[c] = "open" /\ pc[c] \notin {"register", "joined"}

(* Of two clients that are present, at least one was told that the other   *)
(* joined: two that arrive at once cannot miss each other, because each    *)
(* registers before it copies the table.                                   *)
EachKnowsOther ==
  \A c, d \in Clients :
    Present(c) /\ Present(d) /\ c # d =>
      <<c, "joined">> \in heard[d] \/ <<d, "joined">> \in heard[c]

(* Who is in the room when another's program ends, and stays, is told that *)
(* the other left, though other sends of the same broadcast fail.          *)
StayersHearLeave ==
  \A c \in Leavers, d \in Clients \ Leavers :
    (Registered(c) /\ Registered(d) /\ client[c] = "gone")
      ~> <<c, "left">> \in heard[d]

(* A client program that has reached the end of its input ends: the server *)
(* takes it, sees it leave and closes the connection.  It needs a free     *)
(* thread and a free descriptor.                                           *)
QuitEnds == \A c \in Leavers : client[c] = "quitting" ~> client[c] = "gone"

(* Nobody is sent anything before its handler has put it in the table.     *)
(* The notes of the server say that a descriptor closed after the copy     *)
(* makes send fail.                                                        *)
NotHeardBeforeRegistered ==
  \A c \in Clients : pc[c] \in {"none", "queued", "register"} => heard[c] = {}

=============================================================================
