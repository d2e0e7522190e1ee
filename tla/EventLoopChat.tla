---------------------------- MODULE EventLoopChat ----------------------------
(***************************************************************************)
(* tcp_chat_epoll: the chat server as an event loop.  One thread waits for *)
(* a batch of readable descriptors and handles them one after the other.   *)
(* Nothing is shared, but people go on while a batch is handled: what      *)
(* poller.wait said of a descriptor may no longer hold when its turn comes.*)
(*                                                                         *)
(* External: sockets and epoll (or kqueue).  Readiness is level-triggered, *)
(* a descriptor may be reported though recv then finds nothing, a          *)
(* connection that is aborted before accept may be gone from the backlog,  *)
(* and a non-blocking send fails when the receiver's buffer is full.       *)
(***************************************************************************)
EXTENDS Naturals, Sequences, SequencesExt, FiniteSets

CONSTANTS
  Clients,  \* chat programs, each of which connects once
  Talkers,  \* those that type a line
  Leavers,  \* those whose input ends, or that are killed
  Slow,     \* those whose buffer may be full
  Fds,      \* the descriptors the server process has for connections
  Server,   \* server_fd
  None      \* no client

ASSUME LoopAssumption ==
  /\ IsFiniteSet(Clients) /\ None \notin Clients
  /\ Talkers \subseteq Clients /\ Leavers \subseteq Clients /\ Slow \subseteq Clients
  /\ Fds \subseteq Nat /\ IsFiniteSet(Fds)
  /\ Server \notin Fds

VARIABLES
  client,   \* each client program: open, quitting (its side shut), gone
  unread,   \* TRUE while a line of the client waits in the server's socket
  said,     \* the clients that have typed their line
  backlog,  \* connections the kernel has made and the server not accepted
  owner,    \* the kernel: the client at the other end of each descriptor
  ready,    \* the rest of the batch: descriptors main has still to handle
  table,    \* g_clients: the client registered under each descriptor
  todo,     \* the rest of broadcast's loop: descriptors still to send to
  log,      \* the messages the server printed and broadcast, in order
  heard     \* what each open client program has received, in order

people == <<client, unread, said>>
kernel == <<backlog, owner>>
vars == <<people, kernel, ready, table, todo, log, heard>>

News == {"joined", "said", "left"}
Messages == Clients \X News

(* Every client program has called connect; accept may come much later.    *)
Init ==
  /\ client = [c \in Clients |-> "open"]
  /\ unread = [c \in Clients |-> FALSE]
  /\ said = {}
  /\ backlog = Clients
  /\ owner = [f \in Fds |-> None]
  /\ ready = {}
  /\ table = [f \in Fds |-> None]
  /\ todo = {}
  /\ log = <<>>
  /\ heard = [c \in Clients |-> <<>>]

-----------------------------------------------------------------------------
(* The client program: its loop sends what was typed; at the end of the    *)
(* input it shuts its side and joins the thread that receives.             *)

Say(c) ==
  /\ c \in Talkers \ said
  /\ client[c] = "open"
  /\ said' = said \cup {c}
  /\ unread' = [unread EXCEPT ![c] = TRUE]
  /\ UNCHANGED <<client, kernel, ready, table, todo, log, heard>>

HangUp(c) ==
  /\ c \in Leavers
  /\ client[c] = "open"
  /\ \E end \in {"quitting", "gone"} : client' = [client EXCEPT ![c] = end]
  /\ heard' = [heard EXCEPT ![c] = <<>>]
  /\ UNCHANGED <<unread, said, kernel, ready, table, todo, log>>

\* A connection whose client was killed before accept may vanish.
Abort(c) ==
  /\ c \in backlog
  /\ client[c] = "gone"
  /\ backlog' = backlog \ {c}
  /\ unread' = [unread EXCEPT ![c] = FALSE]
  /\ UNCHANGED <<client, said, owner, ready, table, todo, log, heard>>

\* recv returns 0 because the server has closed the connection.
ServerClosed(c) ==
  /\ client[c] = "quitting"
  /\ c \notin backlog /\ \A f \in Fds : owner[f] # c
  /\ client' = [client EXCEPT ![c] = "gone"]
  /\ UNCHANGED <<unread, said, kernel, ready, table, todo, log, heard>>

-----------------------------------------------------------------------------
(* poller.wait.                                                            *)

HungUp(c) == client[c] \in {"quitting", "gone"}

Registered == {f \in Fds : table[f] # None}

Readable ==
  {f \in Registered : unread[owner[f]] \/ HungUp(owner[f])}
    \cup (IF backlog # {} THEN {Server} ELSE {})

\* The loop is between two batches, or between two descriptors of one.
Idle == todo = {} /\ ready = {}
Between == todo = {} /\ ready # {}

\* Every readable descriptor is in the batch, and perhaps one that is not.
Wait ==
  /\ Idle
  /\ Readable # {}
  /\ \E f \in Registered \cup {Server} : ready' = Readable \cup {f}
  /\ UNCHANGED <<people, kernel, table, todo, log, heard>>

-----------------------------------------------------------------------------
(* on_connect, on_readable and broadcast.                                  *)

\* The handler prints the message and broadcast begins with the table as it
\* is then: on one thread nothing changes it before the last send.
Broadcast(message, skip) ==
  /\ log' = Append(log, message)
  /\ todo' = {f \in Fds \ skip : table'[f] # None}

Handled(f) == ready' = ready \ {f}

Accept(c, f) ==
  /\ f \in Fds /\ owner[f] = None
  /\ \A g \in Fds : owner[g] = None => f <= g
  /\ backlog' = backlog \ {c}
  /\ owner' = [owner EXCEPT ![f] = c]
  /\ table' = [table EXCEPT ![f] = c]
  /\ Broadcast(<<c, "joined">>, {f})

AcceptFails == backlog = {} \/ \A f \in Fds : owner[f] # None

\* Mutant: the listening socket was left in blocking mode.
OnConnectBlocking ==
  /\ Between /\ Server \in ready
  /\ \E c \in backlog, f \in Fds : Accept(c, f)
  /\ Handled(Server)
  /\ UNCHANGED <<people, heard>>

\* accept fails at once when the connection has vanished, or when there is
\* no descriptor left.
OnConnect ==
  /\ Between /\ Server \in ready
  /\ \/ \E c \in backlog, f \in Fds : Accept(c, f)
     \/ AcceptFails /\ UNCHANGED <<kernel, table, todo, log>>
  /\ Handled(Server)
  /\ UNCHANGED <<people, heard>>

\* recv returns a line.
OnLine(f) ==
  /\ Between /\ f \in ready
  /\ owner[f] # None /\ unread[owner[f]]
  /\ unread' = [unread EXCEPT ![owner[f]] = FALSE]
  /\ UNCHANGED <<client, said, kernel, table, heard>>
  /\ Broadcast(<<table[f], "said">>, {f})
  /\ Handled(f)

\* recv returns 0, or an error because the connection was reset, which
\* discards what was not read.
OnEnd(f) ==
  /\ Between /\ f \in ready
  /\ owner[f] # None /\ HungUp(owner[f])
  /\ unread[owner[f]] => client[owner[f]] = "gone"
  /\ unread' = [unread EXCEPT ![owner[f]] = FALSE]
  /\ owner' = [owner EXCEPT ![f] = None]
  /\ table' = [table EXCEPT ![f] = None]
  /\ Broadcast(<<table[f], "left">>, {})
  /\ Handled(f)
  /\ UNCHANGED <<client, said, backlog, heard>>

\* recv finds nothing: EAGAIN.
OnNothing(f) ==
  /\ Between /\ f \in ready
  /\ owner[f] # None /\ ~unread[owner[f]] /\ ~HungUp(owner[f])
  /\ Handled(f)
  /\ UNCHANGED <<people, kernel, table, todo, log, heard>>

\* The message reaches the program at the other end; one that is quitting
\* stops receiving with the first that comes.
Deliver(c) ==
  /\ heard' = IF HungUp(c) THEN heard ELSE [heard EXCEPT ![c] = Append(@, Last(log))]
  /\ client' = IF client[c] = "quitting" THEN [client EXCEPT ![c] = "gone"] ELSE client

Lost == UNCHANGED <<heard, client>>

\* Mutant: broadcast drops recipients whose send fails.
SendDropsFailed(f) ==
  /\ f \in todo
  /\ todo' = todo \ {f}
  /\ IF client[owner[f]] = "gone"
     THEN /\ Lost
          /\ owner' = [owner EXCEPT ![f] = None]
          /\ table' = [table EXCEPT ![f] = None]
     ELSE Deliver(owner[f]) /\ UNCHANGED <<owner, table>>
  /\ UNCHANGED <<unread, said, backlog, ready, log>>

\* Mutant: broadcast ends at the first send that fails.
SendUntilError(f) ==
  /\ f \in todo
  /\ \/ Deliver(owner[f]) /\ todo' = todo \ {f}
     \/ owner[f] \in Slow /\ Lost /\ todo' = {}
  /\ UNCHANGED <<unread, said, kernel, ready, table, log>>

\* One send of the loop.  What it returns is not looked at.
Send(f) ==
  /\ f \in todo
  /\ todo' = todo \ {f}
  /\ \/ Deliver(owner[f])
     \/ owner[f] \in Slow /\ Lost
  /\ UNCHANGED <<unread, said, kernel, ready, table, log>>

ServerStep ==
  \/ Wait \/ OnConnect
  \/ \E f \in Fds : OnLine(f) \/ OnEnd(f) \/ OnNothing(f) \/ Send(f)

Next ==
  \/ ServerStep
  \/ \E c \in Clients : Say(c) \/ HangUp(c) \/ Abort(c) \/ ServerClosed(c)

Spec == Init /\ [][Next]_vars

(* The server's thread runs, and so does the one of a client that waits    *)
(* for the server to close.  People need not type or leave.                *)
LiveSpec == Spec /\ WF_vars(ServerStep) /\ \A c \in Clients : WF_vars(ServerClosed(c))

-----------------------------------------------------------------------------
TypeOK ==
  /\ client \in [Clients -> {"open", "quitting", "gone"}]
  /\ unread \in [Clients -> BOOLEAN]
  /\ said \subseteq Clients
  /\ backlog \subseteq Clients
  /\ owner \in [Fds -> Clients \cup {None}]
  /\ ready \subseteq Fds \cup {Server}
  /\ table \in [Fds -> Clients \cup {None}]
  /\ todo \subseteq Fds
  /\ log \in Seq(Messages)
  /\ heard \in [Clients -> Seq(Messages)]

(* A batch does not go stale: each descriptor main has still to handle is  *)
(* open and registered, and the broadcast loop only meets such ones, so    *)
(* that g_clients[fd] never makes an entry and recv never reads from a     *)
(* connection made after the wait.  Handlers close only their own          *)
(* descriptor.                                                             *)
BatchIsRegistered ==
  \A f \in (ready \ {Server}) \cup todo : table[f] # None /\ owner[f] = table[f]

(* What there was to hear for c: everything logged after it joined, but    *)
(* for its own messages.                                                   *)
AudibleAt(c, k) == log[k][1] # c /\ \E j \in 1 .. k - 1 : log[j] = <<c, "joined">>
Audible(c) == {log[k] : k \in {j \in DOMAIN log : AudibleAt(c, j)}}

\* The last message, when broadcast has still to send it to f.
Coming(f) == IF f \in todo THEN {Last(log)} ELSE {}

\* No message twice, and one before another as in the log.
InOrder(s) ==
  \A i, j \in DOMAIN s : i < j =>
    /\ s[i] # s[j]
    /\ \E k, l \in DOMAIN log : k < l /\ log[k] = s[i] /\ log[l] = s[j]

(* Everybody in the room hears the same conversation: all messages since   *)
(* it joined, each once, in the order of the server's log, though others   *)
(* come and leave in the middle of a broadcast.  One whose buffer was full *)
(* misses some and hears the others in that order.                         *)
HearsTheRoom ==
  \A f \in Fds : LET c == table[f] IN
    c # None /\ ~HungUp(c) =>
      /\ InOrder(heard[c])
      /\ Range(heard[c]) \subseteq Audible(c) \ Coming(f)
      /\ c \notin Slow => Audible(c) \ Coming(f) \subseteq Range(heard[c])

(* Whatever happens between wait and its handlers, the loop comes round to *)
(* everybody: a connection is accepted as long as there are descriptors, a *)
(* line is read, who left is noticed, announced and its descriptor given   *)
(* back.                                                                   *)
EveryoneIsServed ==
  \A c \in Clients :
    /\ (c \in backlog) ~> (c \notin backlog \/ \A f \in Fds : owner[f] # None)
    /\ (c \notin backlog /\ unread[c]) ~> ~unread[c]
    /\ \A f \in Fds : (owner[f] = c /\ HungUp(c)) ~> (owner[f] # c /\ c \notin {table[g] : g \in Fds})

=============================================================================
