-------------------------- MODULE EventLoopChat_proofs --------------------------
(***************************************************************************)
(* Theorems about EventLoopChat for every set of clients and descriptors.  *)
(* A batch does not go stale because only the handler of a descriptor      *)
(* closes it, and because g_clients names just the open descriptors when   *)
(* any handler returns.  Everybody hears the room because the table does   *)
(* not change between the start of a broadcast and its last send, and      *)
(* because no message is printed twice.                                    *)
(***************************************************************************)
EXTENDS EventLoopChat, TLAPS

(* g_clients agrees with the kernel: an entry for each connection.         *)
TableIsKernel == table = owner

(* What is still to be handled or sent to is registered.                   *)
PendingInv == \A f \in (ready \ {Server}) \cup todo : table[f] # None

(* broadcast sends the last message of the log.                            *)
LogInv == todo # {} => log # <<>>

Inv == TypeOK /\ TableIsKernel /\ PendingInv /\ LogInv

-----------------------------------------------------------------------------
LEMMA InitInv == Init => Inv
  BY LoopAssumption
     DEF Init, Inv, TypeOK, TableIsKernel, PendingInv, LogInv, News, Messages

(* The steps of the client programs leave the server alone.                *)
LEMMA ClientSteps ==
  ASSUME Inv, NEW c \in Clients,
         Say(c) \/ HangUp(c) \/ Abort(c) \/ ServerClosed(c)
  PROVE  Inv'
<1>1. TypeOK'
  <2>1. CASE Say(c)
    BY <2>1 DEF Inv, TypeOK, Say, kernel
  <2>2. CASE HangUp(c)
    <3>1. <<>> \in Seq(Messages)
      OBVIOUS
    <3>2. QED
      BY <2>2, <3>1 DEF Inv, TypeOK, HangUp, kernel
  <2>3. CASE Abort(c)
    BY <2>3 DEF Inv, TypeOK, Abort
  <2>4. CASE ServerClosed(c)
    BY <2>4 DEF Inv, TypeOK, ServerClosed, kernel
  <2>5. QED
    BY <2>1, <2>2, <2>3, <2>4
<1>2. UNCHANGED <<owner, table, ready, todo, log>>
  BY DEF Say, HangUp, Abort, ServerClosed, kernel
<1>3. QED
  BY <1>1, <1>2 DEF Inv, TableIsKernel, PendingInv, LogInv

(* poller.wait gives registered descriptors only.                          *)
LEMMA WaitStep == Inv /\ Wait => Inv'
<1>1. SUFFICES ASSUME Inv, Wait PROVE Inv'
  OBVIOUS
<1>2. ready' \subseteq Registered \cup {Server}
  BY <1>1 DEF Wait, Readable
<1>3. UNCHANGED <<client, unread, said, backlog, owner, table, todo, log, heard>>
  BY <1>1 DEF Wait, people, kernel
<1>4. TypeOK'
  BY <1>1, <1>2, <1>3 DEF Inv, TypeOK, Registered
<1>5. PendingInv'
  BY <1>1, <1>2, <1>3 DEF Inv, TypeOK, PendingInv, Registered
<1>6. QED
  BY <1>1, <1>3, <1>4, <1>5 DEF Inv, TableIsKernel, LogInv

(* A broadcast begins with registered descriptors and a message.           *)
LEMMA BroadcastBegins ==
  ASSUME Inv, NEW message \in Messages, NEW skip, Broadcast(message, skip)
  PROVE  /\ log' \in Seq(Messages) /\ log' # <<>>
         /\ todo' \subseteq Fds
         /\ \A f \in todo' : table'[f] # None
<1>1. log \in Seq(Messages) /\ log' = Append(log, message)
  BY DEF Inv, TypeOK, Broadcast
<1>2. log' \in Seq(Messages) /\ log' # <<>>
  BY <1>1
<1>3. QED
  BY <1>2 DEF Broadcast

LEMMA AcceptStep ==
  ASSUME Inv, NEW c \in backlog, NEW f \in Fds, Accept(c, f), Between,
         Handled(Server), UNCHANGED <<people, heard>>
  PROVE  Inv'
<1>1. c \in Clients /\ c # None /\ <<c, "joined">> \in Messages
  BY LoopAssumption DEF Inv, TypeOK, Messages, News
<1>2. /\ log' \in Seq(Messages) /\ log' # <<>>
      /\ todo' \subseteq Fds
      /\ \A g \in todo' : table'[g] # None
  <2>1. Broadcast(<<c, "joined">>, {f})
    BY DEF Accept
  <2>2. QED
    BY <1>1, <2>1, BroadcastBegins
<1>3. /\ owner' \in [Fds -> Clients \cup {None}]
      /\ table' \in [Fds -> Clients \cup {None}]
      /\ table' = owner'
      /\ \A g \in Fds : table[g] # None => table'[g] # None
  BY <1>1 DEF Inv, TypeOK, TableIsKernel, Accept
<1>4. ready' \subseteq ready
  BY DEF Handled
<1>5. TypeOK'
  BY <1>2, <1>3, <1>4 DEF Inv, TypeOK, Accept, people
<1>6. PendingInv'
  BY <1>2, <1>3, <1>4 DEF Inv, TypeOK, PendingInv
<1>7. QED
  BY <1>2, <1>3, <1>5, <1>6 DEF Inv, TableIsKernel, LogInv

LEMMA ConnectStep == Inv /\ OnConnect => Inv'
<1>1. SUFFICES ASSUME Inv, OnConnect PROVE Inv'
  OBVIOUS
<1>2. Between /\ Handled(Server) /\ UNCHANGED <<people, heard>>
  BY <1>1 DEF OnConnect
<1>3. CASE \E c \in backlog, f \in Fds : Accept(c, f)
  BY <1>1, <1>2, <1>3, AcceptStep
<1>4. CASE AcceptFails /\ UNCHANGED <<kernel, table, todo, log>>
  <2>1. ready' \subseteq ready
    BY <1>2 DEF Handled
  <2>2. QED
    BY <1>1, <1>2, <1>4, <2>1
       DEF Inv, TypeOK, TableIsKernel, PendingInv, LogInv, people, kernel
<1>5. QED
  BY <1>1, <1>3, <1>4 DEF OnConnect

LEMMA LineStep == ASSUME Inv, NEW f \in Fds, OnLine(f) PROVE Inv'
<1>1. /\ ready' = ready \ {f}
      /\ unread' = [unread EXCEPT ![owner[f]] = FALSE]
      /\ UNCHANGED <<client, said, backlog, owner, table, heard>>
  BY DEF OnLine, Handled, kernel
<1>2. table[f] \in Clients
  BY DEF OnLine, Inv, TypeOK, TableIsKernel
<1>3. /\ log' \in Seq(Messages) /\ log' # <<>>
      /\ todo' \subseteq Fds
      /\ \A g \in todo' : table'[g] # None
  <2>1. <<table[f], "said">> \in Messages
    BY <1>2 DEF Messages, News
  <2>2. Broadcast(<<table[f], "said">>, {f})
    BY DEF OnLine
  <2>3. QED
    BY <2>1, <2>2, BroadcastBegins
<1>4. TypeOK'
  BY <1>1, <1>3 DEF Inv, TypeOK
<1>5. PendingInv'
  BY <1>1, <1>3 DEF Inv, TypeOK, PendingInv
<1>6. QED
  BY <1>1, <1>3, <1>4, <1>5 DEF Inv, TableIsKernel, LogInv

(* The handler of f closes f and no other descriptor, and takes it off the *)
(* batch.                                                                  *)
LEMMA EndStep == ASSUME Inv, NEW f \in Fds, OnEnd(f) PROVE Inv'
<1>1. /\ ready' = ready \ {f}
      /\ unread' = [unread EXCEPT ![owner[f]] = FALSE]
      /\ owner' = [owner EXCEPT ![f] = None]
      /\ table' = [table EXCEPT ![f] = None]
      /\ UNCHANGED <<client, said, backlog, heard>>
  BY DEF OnEnd, Handled
<1>2. table[f] \in Clients
  BY DEF OnEnd, Inv, TypeOK, TableIsKernel
<1>3. /\ log' \in Seq(Messages) /\ log' # <<>>
      /\ todo' \subseteq Fds
      /\ \A g \in todo' : table'[g] # None
  <2>1. <<table[f], "left">> \in Messages
    BY <1>2 DEF Messages, News
  <2>2. Broadcast(<<table[f], "left">>, {})
    BY DEF OnEnd
  <2>3. QED
    BY <2>1, <2>2, BroadcastBegins
<1>4. TypeOK'
  BY <1>1, <1>3 DEF Inv, TypeOK
<1>5. PendingInv'
  BY <1>1, <1>3 DEF Inv, TypeOK, PendingInv
<1>6. QED
  BY <1>1, <1>3, <1>4, <1>5 DEF Inv, TableIsKernel, LogInv

LEMMA NothingStep == ASSUME Inv, NEW f \in Fds, OnNothing(f) PROVE Inv'
<1>1. ready' \subseteq ready
  BY DEF OnNothing, Handled
<1>2. UNCHANGED <<client, unread, said, backlog, owner, table, todo, log, heard>>
  BY DEF OnNothing, people, kernel
<1>3. QED
  BY <1>1, <1>2 DEF Inv, TypeOK, TableIsKernel, PendingInv, LogInv

LEMMA SendStep == ASSUME Inv, NEW f \in Fds, Send(f) PROVE Inv'
<1>1. /\ todo' = todo \ {f} /\ f \in todo
      /\ UNCHANGED <<unread, said, backlog, owner, ready, table, log>>
  BY DEF Send, kernel
<1>2. owner[f] \in Clients /\ Last(log) \in Messages
  <2>1. owner[f] \in Clients
    BY <1>1 DEF Inv, TypeOK, TableIsKernel, PendingInv
  <2>2. log \in Seq(Messages) /\ log # <<>>
    BY <1>1 DEF Inv, TypeOK, LogInv
  <2>3. Last(log) \in Messages
    BY <2>2 DEF Last
  <2>4. QED
    BY <2>1, <2>3
<1>3. /\ client' \in [Clients -> {"open", "quitting", "gone"}]
      /\ heard' \in [Clients -> Seq(Messages)]
  <2>1. CASE Deliver(owner[f])
    <3>1. client' \in [Clients -> {"open", "quitting", "gone"}]
      BY <1>2, <2>1 DEF Inv, TypeOK, Deliver
    <3>2. heard[owner[f]] \in Seq(Messages)
      BY <1>2 DEF Inv, TypeOK
    <3>3. Append(heard[owner[f]], Last(log)) \in Seq(Messages)
      BY <1>2, <3>2
    <3>4. heard' \in [Clients -> Seq(Messages)]
      BY <1>2, <2>1, <3>3 DEF Inv, TypeOK, Deliver
    <3>5. QED
      BY <3>1, <3>4
  <2>2. CASE Lost
    BY <2>2 DEF Inv, TypeOK, Lost
  <2>3. QED
    BY <2>1, <2>2 DEF Send
<1>4. TypeOK'
  BY <1>1, <1>3 DEF Inv, TypeOK
<1>5. QED
  BY <1>1, <1>4 DEF Inv, TableIsKernel, PendingInv, LogInv

LEMMA StepInv == Inv /\ [Next]_vars => Inv'
<1>1. SUFFICES ASSUME Inv, [Next]_vars PROVE Inv'
  OBVIOUS
<1>2. CASE Wait
  BY <1>1, <1>2, WaitStep
<1>3. CASE OnConnect
  BY <1>1, <1>3, ConnectStep
<1>4. ASSUME NEW f \in Fds, OnLine(f) \/ OnEnd(f) \/ OnNothing(f) \/ Send(f)
      PROVE  Inv'
  BY <1>1, <1>4, LineStep, EndStep, NothingStep, SendStep
<1>5. ASSUME NEW c \in Clients, Say(c) \/ HangUp(c) \/ Abort(c) \/ ServerClosed(c)
      PROVE  Inv'
  BY <1>1, <1>5, ClientSteps
<1>6. CASE UNCHANGED vars
  BY <1>1, <1>6
     DEF Inv, TypeOK, TableIsKernel, PendingInv, LogInv, vars, people, kernel
<1>7. QED
  BY <1>1, <1>2, <1>3, <1>4, <1>5, <1>6 DEF Next, ServerStep

(* The inductive invariant holds of every behaviour of the server.         *)
THEOREM InvHolds == Spec => []Inv
  BY InitInv, StepInv, PTL DEF Spec

-----------------------------------------------------------------------------
(* Every variable of the server, its clients and the kernel keeps its type.*)
THEOREM TypeCorrect == Spec => []TypeOK
<1>1. Inv => TypeOK
  BY DEF Inv
<1>2. QED
  BY <1>1, InvHolds, PTL

(* What main has still to handle of a batch, and broadcast to send to, is  *)
(* open and registered, whatever people and earlier handlers have done     *)
(* since the wait.                                                         *)
THEOREM BatchStaysValid == Spec => []BatchIsRegistered
<1>1. Inv => BatchIsRegistered
  BY DEF Inv, TableIsKernel, PendingInv, BatchIsRegistered
<1>2. QED
  BY <1>1, InvHolds, PTL

-----------------------------------------------------------------------------
(* The conversation.  A message is new when the server prints it: a client *)
(* joins when it leaves the backlog, speaks while its line is unread, and  *)
(* leaves when it leaves the table.                                        *)
Logged == {log[k] : k \in DOMAIN log}

Once == \A k, l \in DOMAIN log : log[k] = log[l] => k = l

LobbyInv == \A c \in backlog : heard[c] = <<>> /\ \A n \in News : <<c, n>> \notin Logged

LineInv == \A c \in Clients :
  /\ unread[c] => c \in said
  /\ <<c, "said">> \in Logged => c \in said /\ ~unread[c]

MemberInv == \A f \in Fds : table[f] # None =>
  /\ table[f] \notin backlog
  /\ <<table[f], "joined">> \in Logged /\ <<table[f], "left">> \notin Logged
  /\ \A g \in Fds : table[g] = table[f] => g = f

(* What broadcast sends is news to those it has still to send it to.       *)
DueInv == \A f \in todo : Last(log) \in Audible(table[f])

RoomInv == Inv /\ Once /\ LobbyInv /\ LineInv /\ MemberInv /\ DueInv /\ HearsTheRoom

LEMMA RoomInit == Init => RoomInv
<1>1. SUFFICES ASSUME Init PROVE RoomInv
  OBVIOUS
<1>2. Inv
  BY <1>1, InitInv
<1>3. DOMAIN <<>> = {} /\ log = <<>> /\ Logged = {}
  BY <1>1 DEF Init, Logged
<1>4. Once /\ LobbyInv
  BY <1>1, <1>3 DEF Init, Once, LobbyInv
<1>5. LineInv
  BY <1>1, <1>3 DEF Init, LineInv
<1>6. MemberInv /\ DueInv /\ HearsTheRoom
  BY <1>1 DEF Init, MemberInv, DueInv, HearsTheRoom
<1>7. QED
  BY <1>2, <1>4, <1>5, <1>6 DEF RoomInv

(* The log with one message more.                                          *)
LEMMA Printed ==
  ASSUME Inv, NEW m \in Messages, log' = Append(log, m)
  PROVE  /\ Len(log) \in Nat /\ DOMAIN log = 1 .. Len(log)
         /\ DOMAIN log' = 1 .. Len(log) + 1
         /\ \A k \in 1 .. Len(log) : log'[k] = log[k]
         /\ log'[Len(log) + 1] = m /\ Last(log') = m
         /\ Logged' = Logged \cup {m}
<1>1. log \in Seq(Messages)
  BY DEF Inv, TypeOK
<1>2. /\ Len(log) \in Nat /\ DOMAIN log = 1 .. Len(log)
      /\ Len(log') = Len(log) + 1 /\ DOMAIN log' = 1 .. Len(log) + 1
      /\ \A k \in 1 .. Len(log) : log'[k] = log[k]
      /\ log'[Len(log) + 1] = m
  BY <1>1
<1>3. Last(log') = m
  BY <1>2 DEF Last
<1>4. Logged' = Logged \cup {m}
  <2>1. \A k : k \in DOMAIN log' <=> k \in DOMAIN log \/ k = Len(log) + 1
    BY <1>2
  <2>2. QED
    BY <1>2, <2>1 DEF Logged
<1>5. QED
  BY <1>2, <1>3, <1>4

LEMMA OnceStays ==
  ASSUME Inv, Once, NEW m \in Messages, log' = Append(log, m), m \notin Logged
  PROVE  Once'
<1>1. \A k \in 1 .. Len(log) : log[k] # m
  BY Printed DEF Logged
<1>2. QED
  BY <1>1, Printed DEF Once

(* Whoever has joined can hear it, but for its author.                     *)
LEMMA AudibleGrows ==
  ASSUME Inv, NEW m \in Messages, log' = Append(log, m), NEW c \in Clients
  PROVE  /\ Audible(c) \subseteq Logged
         /\ Audible(c)' = IF m[1] # c /\ <<c, "joined">> \in Logged THEN Audible(c) \cup {m}
                          ELSE Audible(c)
<1>0. PICK n : n = Len(log)
  OBVIOUS
<1>1. /\ n \in Nat /\ DOMAIN log = 1 .. n /\ DOMAIN log' = 1 .. n + 1
      /\ \A k \in 1 .. n : log'[k] = log[k]
      /\ log'[n + 1] = m
  BY <1>0, Printed
<1>2. Audible(c) \subseteq Logged
  BY DEF Audible, Logged
<1>3. \A k \in 1 .. n : AudibleAt(c, k)' <=> AudibleAt(c, k)
  <2> SUFFICES ASSUME NEW k \in 1 .. n PROVE AudibleAt(c, k)' <=> AudibleAt(c, k)
    OBVIOUS
  <2>1. log'[k] = log[k]
    BY <1>1
  <2>2. \A j \in 1 .. k - 1 : j \in 1 .. n
    BY <1>1
  <2>3. \A j \in 1 .. k - 1 : log'[j] = log[j]
    BY <1>1, <2>2
  <2>4. QED
    BY <2>1, <2>3 DEF AudibleAt
<1>4. AudibleAt(c, n + 1)' <=> m[1] # c /\ <<c, "joined">> \in Logged
  <2>1. (n + 1) - 1 = n
    BY <1>1
  <2>2. AudibleAt(c, n + 1)' <=> m[1] # c /\ \E j \in 1 .. n : log'[j] = <<c, "joined">>
    BY <1>1, <2>1 DEF AudibleAt
  <2>3. QED
    BY <1>1, <2>2 DEF Logged
<1>5. \A k : k \in 1 .. n + 1 <=> k \in 1 .. n \/ k = n + 1
  BY <1>1
<1>6. Audible(c) = {log[k] : k \in {j \in 1 .. n : AudibleAt(c, j)}}
  BY <1>1 DEF Audible
<1>7. Audible(c)' = {log'[k] : k \in {j \in 1 .. n + 1 : AudibleAt(c, j)'}}
  BY <1>1 DEF Audible
<1>8. QED
  BY <1>1, <1>2, <1>3, <1>4, <1>5, <1>6, <1>7

(* What was in order stays so.                                             *)
LEMMA OrderStays ==
  ASSUME Inv, NEW m \in Messages, log' = Append(log, m), NEW s, InOrder(s)
  PROVE  InOrder(s)'
BY Printed DEF InOrder

-----------------------------------------------------------------------------
(* What HearsTheRoom says of one descriptor.                               *)
Hears(f) == LET c == table[f] IN
  c # None /\ ~HungUp(c) =>
    /\ InOrder(heard[c])
    /\ Range(heard[c]) \subseteq Audible(c) \ Coming(f)
    /\ c \notin Slow => Audible(c) \ Coming(f) \subseteq Range(heard[c])

(* Those who were in the room before a message get it, once: it is coming  *)
(* to all but its author.                                                  *)
LEMMA RoomListens ==
  ASSUME RoomInv, todo = {}, NEW m \in Messages, m \notin Logged, NEW skip,
         Broadcast(m, skip), UNCHANGED <<client, heard>>,
         NEW f \in Fds, table[f] # None, table'[f] = table[f], f \in skip <=> m[1] = table[f]
  PROVE  /\ f \in todo' => m \in Audible(table[f])'
         /\ Hears(f)'
<1> DEFINE c == table[f]
<1>1. Inv /\ c \in Clients /\ <<c, "joined">> \in Logged
  BY DEF RoomInv, Inv, TypeOK, MemberInv
<1>2. log' = Append(log, m) /\ (f \in todo' <=> f \notin skip)
  BY DEF Broadcast
<1>3. /\ Audible(c) \subseteq Logged
      /\ Audible(c)' = IF m[1] # c THEN Audible(c) \cup {m} ELSE Audible(c)
  BY <1>1, <1>2, AudibleGrows
<1>4. Coming(f) = {} /\ Coming(f)' = IF m[1] # c THEN {m} ELSE {}
  BY <1>1, <1>2, Printed DEF Coming
<1>5. Audible(c)' \ Coming(f)' = Audible(c) \ Coming(f)
  BY <1>3, <1>4
<1>6. f \in todo' => m \in Audible(table[f])'
  <2>1. Audible(table[f])' = Audible(c)'
    BY DEF Audible, AudibleAt
  <2>2. QED
    BY <1>2, <1>3, <2>1
<1>7. Hears(f)
  BY DEF RoomInv, HearsTheRoom, Hears
<1>8. ASSUME c # None, ~HungUp(c)'
      PROVE  /\ InOrder(heard[c])'
             /\ Range(heard'[c]) \subseteq Audible(c)' \ Coming(f)'
             /\ c \notin Slow => Audible(c)' \ Coming(f)' \subseteq Range(heard'[c])
  <2>1. ~HungUp(c) /\ heard' = heard
    BY <1>8 DEF HungUp
  <2>2. InOrder(heard[c])
    BY <1>7, <1>8, <2>1 DEF Hears
  <2>3. InOrder(heard[c])'
    <3> DEFINE s == heard[c]
    <3>1. InOrder(s)'
      BY <1>1, <1>2, <2>1, <2>2, OrderStays
    <3>2. QED
      BY <2>1, <3>1
  <2>4. QED
    BY <1>5, <1>7, <1>8, <2>1, <2>3 DEF Hears
<1>9. Hears(f)'
  BY <1>8 DEF Hears
<1>10. QED
  BY <1>6, <1>9

LEMMA RoomIdle ==
  ASSUME RoomInv, Inv',
         UNCHANGED <<client, unread, said, backlog, table, todo, log, heard>>
  PROVE  RoomInv'
<1>1. Once' /\ LobbyInv' /\ LineInv' /\ MemberInv'
  BY DEF RoomInv, Once, LobbyInv, LineInv, MemberInv, Logged
<1>2. DueInv'
  BY DEF RoomInv, DueInv, Audible, AudibleAt
<1>3. HearsTheRoom'
  <2>1. ASSUME NEW c \in Clients
        PROVE  /\ Audible(c)' = Audible(c) /\ (HungUp(c)' <=> HungUp(c))
               /\ InOrder(heard[c])' <=> InOrder(heard[c])
    BY DEF Audible, AudibleAt, HungUp, InOrder
  <2>2. ASSUME NEW f \in Fds PROVE Coming(f)' = Coming(f)
    BY DEF Coming
  <2>3. \A f \in Fds : table[f] # None => table[f] \in Clients
    BY DEF RoomInv, Inv, TypeOK
  <2>4. \A f \in Fds : Hears(f)
    BY DEF RoomInv, HearsTheRoom, Hears
  <2>5. ASSUME NEW f \in Fds, NEW c \in Clients, table[f] = c, table'[f] = c, ~HungUp(c)'
        PROVE  /\ InOrder(heard[c])'
               /\ Range(heard'[c]) \subseteq Audible(c)' \ Coming(f)'
               /\ c \notin Slow => Audible(c)' \ Coming(f)' \subseteq Range(heard'[c])
    BY <2>1, <2>2, <2>4, <2>5, LoopAssumption DEF Hears
  <2>6. QED
    BY <2>3, <2>5 DEF HearsTheRoom, InOrder, Audible, AudibleAt, HungUp
<1>4. QED
  BY <1>1, <1>2, <1>3 DEF RoomInv

(* People type and leave: nothing is printed.                              *)
LEMMA RoomClients ==
  ASSUME RoomInv, NEW c \in Clients,
         Say(c) \/ HangUp(c) \/ Abort(c) \/ ServerClosed(c)
  PROVE  RoomInv'
<1>1. Inv /\ Inv'
  BY ClientSteps DEF RoomInv
<1>2. UNCHANGED <<table, todo, log>>
  BY DEF Say, HangUp, Abort, ServerClosed, kernel
<1>3. Once' /\ Logged' = Logged
  BY <1>2 DEF RoomInv, Once, Logged
<1>4. DueInv'
  BY <1>2 DEF RoomInv, DueInv, Audible, AudibleAt
<1>5. /\ backlog' \subseteq backlog
      /\ \A d \in Clients : HungUp(d) => HungUp(d)'
      /\ \A d \in Clients : heard'[d] = heard[d] \/ (heard'[d] = <<>> /\ HungUp(d)')
  BY <1>1 DEF Inv, TypeOK, Say, HangUp, Abort, ServerClosed, kernel, HungUp
<1>6. LobbyInv'
  BY <1>1, <1>3, <1>5 DEF RoomInv, LobbyInv, Inv, TypeOK
<1>7. LineInv'
  <2>1. CASE Say(c)
    BY <1>1, <1>3, <2>1 DEF Say, RoomInv, LineInv, Inv, TypeOK
  <2>2. CASE ~Say(c)
    <3>1. said' = said /\ \A d \in Clients : unread'[d] => unread[d]
      BY <1>1, <2>2 DEF HangUp, Abort, ServerClosed, Inv, TypeOK
    <3>2. QED
      BY <1>3, <3>1 DEF RoomInv, LineInv
  <2>3. QED
    BY <2>1, <2>2
<1>8. MemberInv'
  BY <1>2, <1>3, <1>5 DEF RoomInv, MemberInv
<1>9. HearsTheRoom'
  <2> SUFFICES ASSUME NEW f \in Fds PROVE Hears(f)'
    BY DEF HearsTheRoom, Hears
  <2>1. Hears(f)
    BY DEF RoomInv, HearsTheRoom, Hears
  <2>2. table[f] # None => table[f] \in Clients
    BY <1>1 DEF Inv, TypeOK
  <2>3. ASSUME table'[f] # None, ~HungUp(table[f])'
        PROVE  /\ InOrder(heard[table[f]])'
               /\ Range(heard[table[f]])' \subseteq Audible(table[f])' \ Coming(f)'
               /\ table'[f] \notin Slow
                    => Audible(table[f])' \ Coming(f)' \subseteq Range(heard[table[f]])'
    <3>1. /\ table'[f] = table[f] /\ ~HungUp(table[f])
          /\ heard'[table[f]] = heard[table[f]]
      BY <1>2, <1>5, <2>2, <2>3 DEF HungUp
    <3>2. InOrder(heard[table[f]])' <=> InOrder(heard[table[f]])
      BY <1>2, <3>1 DEF InOrder
    <3>3. Audible(table[f])' = Audible(table[f]) /\ Coming(f)' = Coming(f)
      BY <1>2 DEF Audible, AudibleAt, Coming
    <3>4. Range(heard[table[f]])' = Range(heard[table[f]])
      BY <3>1
    <3>5. QED
      BY <2>1, <2>3, <3>1, <3>2, <3>3, <3>4 DEF Hears
  <2>4. QED
    BY <2>3 DEF Hears
<1>10. QED
  BY <1>1, <1>3, <1>4, <1>6, <1>7, <1>8, <1>9 DEF RoomInv

LEMMA RoomWait == RoomInv /\ Wait => RoomInv'
<1>1. SUFFICES ASSUME RoomInv, Wait PROVE RoomInv'
  OBVIOUS
<1>2. Inv'
  BY <1>1, WaitStep DEF RoomInv
<1>3. QED
  BY <1>1, <1>2, RoomIdle DEF Wait, people, kernel

LEMMA RoomNothing == ASSUME RoomInv, NEW f \in Fds, OnNothing(f) PROVE RoomInv'
<1>1. Inv'
  BY NothingStep DEF RoomInv
<1>2. QED
  BY <1>1, RoomIdle DEF OnNothing, people, kernel

(* A newcomer has heard nothing and there is nothing to hear yet.          *)
LEMMA RoomAccept ==
  ASSUME RoomInv, NEW c \in backlog, NEW f \in Fds, Accept(c, f), Between,
         Handled(Server), UNCHANGED <<people, heard>>
  PROVE  RoomInv'
<1> DEFINE m == <<c, "joined">>
<1>1. /\ Inv /\ Inv'
      /\ c \in Clients /\ c # None /\ m \in Messages /\ m[1] = c
      /\ todo = {}
  BY AcceptStep, LoopAssumption DEF RoomInv, Inv, TypeOK, Messages, News, Between
<1>2. /\ Broadcast(m, {f}) /\ log' = Append(log, m)
      /\ backlog' = backlog \ {c} /\ table[f] = None
      /\ table' = [table EXCEPT ![f] = c]
      /\ UNCHANGED <<client, unread, said, heard>>
  BY <1>1 DEF Accept, Broadcast, people, Inv, TableIsKernel
<1>3. m \notin Logged /\ <<c, "left">> \notin Logged /\ heard[c] = <<>>
  BY DEF RoomInv, LobbyInv, News
<1>4. Logged' = Logged \cup {m}
  BY <1>1, <1>2, Printed
<1>5. /\ table'[f] = c
      /\ \A g \in Fds : g # f => table'[g] = table[g]
  BY <1>1, <1>2 DEF Inv, TypeOK
<1> HIDE DEF m
<1>6. Once'
  BY <1>1, <1>2, <1>3, OnceStays DEF RoomInv
<1>7. \A d : /\ \A n : <<d, n>> = m => d = c
             /\ <<d, "said">> # m /\ <<d, "left">> # m
  BY DEF m
<1>8. LobbyInv'
  BY <1>2, <1>4, <1>7 DEF RoomInv, LobbyInv
<1>9. LineInv'
  BY <1>2, <1>4, <1>7 DEF RoomInv, LineInv
<1>10. MemberInv'
  <2>1. \A g \in Fds : g # f => table[g] # c
    BY <1>1 DEF RoomInv, MemberInv
  <2>2. m \in Logged' /\ <<c, "left">> \notin Logged'
    BY <1>3, <1>4, <1>7
  <2>3. c \notin backlog'
    BY <1>2
  <2>4. ASSUME NEW g \in Fds, g # f, table[g] # None
        PROVE  /\ table[g] \notin backlog'
               /\ <<table[g], "joined">> \in Logged' /\ <<table[g], "left">> \notin Logged'
               /\ \A h \in Fds : table[h] = table[g] => h = g
    <3>1. table[g] \notin backlog /\ <<table[g], "joined">> \in Logged
          /\ <<table[g], "left">> \notin Logged
          /\ \A h \in Fds : table[h] = table[g] => h = g
      BY <2>4 DEF RoomInv, MemberInv
    <3>2. QED
      BY <1>2, <1>4, <1>7, <3>1
  <2>5. \A g \in Fds : table'[g] = IF g = f THEN c ELSE table[g]
    BY <1>5
  <2>6. m = <<c, "joined">>
    BY DEF m
  <2>7. QED
    BY <2>1, <2>2, <2>3, <2>4, <2>5, <2>6 DEF MemberInv
<1>11. ASSUME NEW g \in Fds, table'[g] # None
       PROVE  /\ g \in todo' => Last(log)' \in Audible(table[g])'
              /\ Hears(g)'
  <2>1. CASE g = f
    <3>1. /\ f \notin todo' /\ heard'[c] = <<>> /\ table'[g] = c
      BY <1>2, <1>3, <1>5, <2>1 DEF Broadcast
    <3>2. Audible(c) = {}
      <4>1. \A k \in DOMAIN log : log[k] # m
        BY <1>3 DEF Logged
      <4>2. \A k \in DOMAIN log : ~AudibleAt(c, k)
        <5>1. ASSUME NEW k \in DOMAIN log, NEW j \in 1 .. k - 1 PROVE j \in DOMAIN log
          BY <1>1, <1>2, Printed
        <5>2. QED
          BY <4>1, <5>1 DEF AudibleAt, m
      <4>3. QED
        BY <4>2 DEF Audible
    <3>3. Audible(c)' = {}
      BY <1>1, <1>2, <3>2, AudibleGrows
    <3>4. Coming(g)' = {}
      BY <2>1, <3>1 DEF Coming
    <3>5. Range(<<>>) = {} /\ InOrder(<<>>)'
      BY DEF Range, InOrder
    <3>6. Hears(g)'
      BY <3>1, <3>3, <3>4, <3>5 DEF Hears, Audible, AudibleAt, InOrder
    <3>7. QED
      BY <2>1, <3>1, <3>6
  <2>2. CASE g # f
    <3>1. table'[g] = table[g] /\ table[g] # None
      BY <1>5, <1>11, <2>2
    <3>2. table[g] # c
      BY <3>1 DEF RoomInv, MemberInv
    <3>3. (g \in {f}) <=> m[1] = table[g]
      BY <1>1, <2>2, <3>2
    <3>4. QED
      BY <1>1, <1>2, <1>3, <3>1, <3>3, RoomListens, Printed
  <2>3. QED
    BY <2>1, <2>2
<1>12. DueInv' /\ HearsTheRoom'
  <2>1. todo' \subseteq {g \in Fds : table'[g] # None}
    BY <1>2 DEF Broadcast
  <2>2. DueInv'
    BY <1>11, <2>1 DEF DueInv
  <2>3. HearsTheRoom'
    BY <1>11 DEF HearsTheRoom, Hears
  <2>4. QED
    BY <2>2, <2>3
<1>13. QED
  BY <1>1, <1>6, <1>8, <1>9, <1>10, <1>12 DEF RoomInv

(* A line is printed once: it is read off the socket.                      *)
LEMMA RoomLine == ASSUME RoomInv, NEW f \in Fds, OnLine(f) PROVE RoomInv'
<1>1. PICK c \in Clients : c = table[f] /\ c # None
  BY LoopAssumption DEF RoomInv, OnLine, Inv, TypeOK, TableIsKernel
<1>2. PICK m : m = <<c, "said">>
  OBVIOUS
<1>3. Inv /\ Inv' /\ m \in Messages /\ m[1] = c /\ todo = {}
  BY <1>1, <1>2, LineStep DEF RoomInv, Messages, News, OnLine, Between
<1>4. /\ Broadcast(m, {f}) /\ log' = Append(log, m)
      /\ todo' \subseteq {g \in Fds : table'[g] # None}
      /\ unread[c] /\ unread' = [unread EXCEPT ![c] = FALSE]
      /\ UNCHANGED <<client, said, backlog, table, heard>>
  BY <1>1, <1>2 DEF OnLine, Broadcast, kernel, RoomInv, Inv, TableIsKernel
<1>5. m \notin Logged /\ c \in said /\ c \notin backlog
  BY <1>1, <1>2, <1>4 DEF RoomInv, LineInv, MemberInv
<1>6. Logged' = Logged \cup {m}
  BY <1>3, <1>4, Printed
<1>7. Once'
  BY <1>3, <1>4, <1>5, OnceStays DEF RoomInv
<1>8. \A d : /\ \A n : <<d, n>> = m => d = c
             /\ <<d, "joined">> # m /\ <<d, "left">> # m
  BY <1>2
<1>9. LobbyInv'
  BY <1>4, <1>5, <1>6, <1>8 DEF RoomInv, LobbyInv
<1>10. LineInv'
  <2>1. unread'[c] = FALSE /\ \A d \in Clients : unread'[d] => unread[d]
    BY <1>3, <1>4 DEF Inv, TypeOK
  <2>2. QED
    BY <1>4, <1>5, <1>6, <1>8, <2>1 DEF RoomInv, LineInv
<1>11. MemberInv'
  BY <1>4, <1>6, <1>8 DEF RoomInv, MemberInv
<1>12. ASSUME NEW g \in Fds, table'[g] # None
       PROVE  /\ g \in todo' => Last(log)' \in Audible(table[g])'
              /\ Hears(g)'
  <2>1. table'[g] = table[g] /\ table[g] # None
    BY <1>4, <1>12
  <2>2. (g \in {f}) <=> m[1] = table[g]
    BY <1>1, <1>3, <2>1 DEF RoomInv, MemberInv
  <2>3. QED
    BY <1>3, <1>4, <1>5, <2>1, <2>2, RoomListens, Printed
<1>13. DueInv' /\ HearsTheRoom'
  <2>1. DueInv'
    BY <1>4, <1>12 DEF DueInv
  <2>2. HearsTheRoom'
    BY <1>12 DEF HearsTheRoom, Hears
  <2>3. QED
    BY <2>1, <2>2
<1>14. QED
  BY <1>3, <1>7, <1>9, <1>10, <1>11, <1>13 DEF RoomInv

(* A departure is printed once: with it the client leaves the table.       *)
LEMMA RoomEnd == ASSUME RoomInv, NEW f \in Fds, OnEnd(f) PROVE RoomInv'
<1>1. PICK c \in Clients : c = table[f] /\ c # None
  BY LoopAssumption DEF RoomInv, OnEnd, Inv, TypeOK, TableIsKernel
<1>2. PICK m : m = <<c, "left">>
  OBVIOUS
<1>3. Inv /\ Inv' /\ m \in Messages /\ m[1] = c /\ todo = {}
  BY <1>1, <1>2, EndStep DEF RoomInv, Messages, News, OnEnd, Between
<1>4. /\ Broadcast(m, {}) /\ log' = Append(log, m)
      /\ todo' \subseteq {g \in Fds : table'[g] # None}
      /\ unread' = [unread EXCEPT ![c] = FALSE]
      /\ table' = [table EXCEPT ![f] = None]
      /\ UNCHANGED <<client, said, backlog, heard>>
  BY <1>1, <1>2 DEF OnEnd, Broadcast, RoomInv, Inv, TableIsKernel
<1>5. m \notin Logged /\ c \notin backlog
  BY <1>1, <1>2 DEF RoomInv, MemberInv
<1>6. Logged' = Logged \cup {m}
  BY <1>3, <1>4, Printed
<1>7. Once'
  BY <1>3, <1>4, <1>5, OnceStays DEF RoomInv
<1>8. \A d : /\ \A n : <<d, n>> = m => d = c
             /\ <<d, "joined">> # m /\ <<d, "said">> # m
  BY <1>2
<1>9. LobbyInv'
  BY <1>4, <1>5, <1>6, <1>8 DEF RoomInv, LobbyInv
<1>10. LineInv'
  <2>1. \A d \in Clients : unread'[d] => unread[d]
    BY <1>3, <1>4 DEF Inv, TypeOK
  <2>2. QED
    BY <1>4, <1>6, <1>8, <2>1 DEF RoomInv, LineInv
<1>11. /\ table'[f] = None
       /\ \A g \in Fds : table'[g] # None => /\ g # f /\ table'[g] = table[g]
                                             /\ table[g] # c /\ table[g] # None
  BY <1>1, <1>3, <1>4 DEF RoomInv, MemberInv, Inv, TypeOK
<1>12. MemberInv'
  <2> SUFFICES ASSUME NEW g \in Fds, table'[g] # None
               PROVE  /\ table'[g] \notin backlog'
                      /\ <<table'[g], "joined">> \in Logged' /\ <<table'[g], "left">> \notin Logged'
                      /\ \A h \in Fds : table'[h] = table'[g] => h = g
    BY DEF MemberInv
  <2>1. table'[g] = table[g] /\ table[g] # c /\ table[g] # None
    BY <1>11
  <2>2. /\ table[g] \notin backlog
        /\ <<table[g], "joined">> \in Logged /\ <<table[g], "left">> \notin Logged
        /\ \A h \in Fds : table[h] = table[g] => h = g
    BY <2>1 DEF RoomInv, MemberInv
  <2>3. QED
    BY <1>4, <1>6, <1>8, <1>11, <2>1, <2>2
<1>13. ASSUME NEW g \in Fds, table'[g] # None
       PROVE  /\ g \in todo' => Last(log)' \in Audible(table[g])'
              /\ Hears(g)'
  <2>1. table'[g] = table[g] /\ table[g] # None /\ table[g] # c
    BY <1>11, <1>13
  <2>2. (g \in {}) <=> m[1] = table[g]
    BY <1>3, <2>1
  <2>3. QED
    BY <1>3, <1>4, <1>5, <2>1, <2>2, RoomListens, Printed
<1>14. DueInv' /\ HearsTheRoom'
  <2>1. DueInv'
    BY <1>4, <1>13 DEF DueInv
  <2>2. HearsTheRoom'
    BY <1>13 DEF HearsTheRoom, Hears
  <2>3. QED
    BY <2>1, <2>2
<1>15. QED
  BY <1>3, <1>7, <1>9, <1>10, <1>12, <1>14 DEF RoomInv

(* The last message comes after all that has been heard.                   *)
LEMMA HearsLast ==
  ASSUME Inv, log # <<>>, NEW s \in Seq(Messages), InOrder(s),
         Range(s) \subseteq Logged \ {Last(log)}
  PROVE  InOrder(Append(s, Last(log))) /\ Range(Append(s, Last(log))) = Range(s) \cup {Last(log)}
<1>1. PICK m \in Messages : m = Last(log)
  BY DEF Inv, TypeOK, Last
<1>2. /\ DOMAIN log = 1 .. Len(log) /\ Len(log) \in Nat /\ Len(log) \in DOMAIN log
      /\ log[Len(log)] = m
  BY <1>1 DEF Inv, TypeOK, Last
<1>3. PICK t : t = Append(s, m)
  OBVIOUS
<1>4. /\ Len(s) \in Nat /\ DOMAIN s = 1 .. Len(s) /\ DOMAIN t = 1 .. Len(s) + 1
      /\ \A i \in 1 .. Len(s) : t[i] = s[i]
      /\ t[Len(s) + 1] = m
  BY <1>3
<1>5. Range(t) = Range(s) \cup {m}
  BY <1>4 DEF Range
<1>6. ASSUME NEW i \in DOMAIN t, NEW j \in DOMAIN t, i < j
      PROVE  t[i] # t[j] /\ \E k, l \in DOMAIN log : k < l /\ log[k] = t[i] /\ log[l] = t[j]
  <2>1. CASE j \in DOMAIN s
    BY <1>4, <1>6, <2>1 DEF InOrder
  <2>2. CASE j = Len(s) + 1
    <3>1. t[j] = m /\ i \in DOMAIN s /\ t[i] = s[i] /\ s[i] \in Range(s)
      BY <1>4, <1>6, <2>2 DEF Range
    <3>2. PICK k \in DOMAIN log : log[k] = s[i]
      BY <3>1 DEF Logged
    <3>3. s[i] # m
      BY <1>1, <3>1
    <3>4. k < Len(log)
      BY <1>2, <3>2, <3>3
    <3>5. QED
      BY <1>2, <3>1, <3>2, <3>3, <3>4
  <2>3. QED
    BY <1>4, <2>1, <2>2
<1>7. InOrder(t)
  BY <1>6 DEF InOrder
<1>8. QED
  BY <1>1, <1>3, <1>5, <1>7

LEMMA RoomSend == ASSUME RoomInv, NEW f \in Fds, Send(f) PROVE RoomInv'
<1>1. PICK c \in Clients : c = table[f] /\ c = owner[f] /\ c # None
  BY LoopAssumption DEF RoomInv, Send, Inv, TypeOK, TableIsKernel, PendingInv
<1>2. /\ Inv /\ Inv' /\ f \in todo /\ todo' = todo \ {f}
      /\ UNCHANGED <<unread, said, backlog, table, log>>
      /\ log # <<>>
  BY SendStep DEF RoomInv, Send, kernel, Inv, LogInv
<1>3. Once' /\ LineInv' /\ MemberInv' /\ Logged' = Logged
  BY <1>2 DEF RoomInv, Once, LineInv, MemberInv, Logged
<1>4. DueInv'
  BY <1>2 DEF RoomInv, DueInv, Audible, AudibleAt
<1>5. /\ \A d \in Clients : HungUp(d) => HungUp(d)'
      /\ \A d \in Clients : d # c \/ HungUp(d) => heard'[d] = heard[d]
      /\ heard'[c] = heard[c] \/ heard'[c] = Append(heard[c], Last(log))
      /\ c \notin Slow /\ ~HungUp(c) => heard'[c] = Append(heard[c], Last(log))
  BY <1>1, <1>2 DEF Send, Deliver, Lost, HungUp, Inv, TypeOK
<1>6. LobbyInv'
  <2>1. c \notin backlog
    BY <1>1 DEF RoomInv, MemberInv
  <2>2. \A d \in backlog : d \in Clients /\ d # c
    BY <1>2, <2>1 DEF Inv, TypeOK
  <2>3. QED
    BY <1>2, <1>3, <1>5, <2>2 DEF RoomInv, LobbyInv
<1>7. ASSUME NEW g \in Fds, NEW d \in Clients, table[g] = d, d # None, ~HungUp(d)'
      PROVE  /\ InOrder(heard'[d])
             /\ Range(heard'[d]) \subseteq Audible(d) \ Coming(g)'
             /\ d \notin Slow => Audible(d) \ Coming(g)' \subseteq Range(heard'[d])
  <2>1. ~HungUp(d)
    BY <1>5, <1>7
  <2>2. /\ InOrder(heard[d])
        /\ Range(heard[d]) \subseteq Audible(d) \ Coming(g)
        /\ d \notin Slow => Audible(d) \ Coming(g) \subseteq Range(heard[d])
    BY <1>7, <2>1 DEF RoomInv, HearsTheRoom
  <2>3. CASE g # f
    <3>1. d # c
      BY <1>1, <1>7, <2>3 DEF RoomInv, MemberInv
    <3>2. Coming(g)' = Coming(g) /\ heard'[d] = heard[d]
      BY <1>2, <1>5, <2>3, <3>1 DEF Coming
    <3>3. QED
      BY <2>2, <3>2
  <2>4. CASE g = f
    <3>1. d = c /\ Coming(g) = {Last(log)} /\ Coming(g)' = {}
      BY <1>1, <1>2, <1>7, <2>4 DEF Coming
    <3>2. Last(log) \in Audible(c)
      BY <1>1, <1>2 DEF RoomInv, DueInv
    <3>3. Audible(c) \subseteq Logged /\ heard[c] \in Seq(Messages)
      BY <1>2 DEF Audible, Logged, Inv, TypeOK
    <3>4. CASE heard'[c] = heard[c]
      BY <1>5, <2>1, <2>2, <3>1, <3>2, <3>4
    <3>5. CASE heard'[c] = Append(heard[c], Last(log))
      <4>1. /\ InOrder(heard'[c])
            /\ Range(heard'[c]) = Range(heard[c]) \cup {Last(log)}
        BY <1>2, <2>2, <3>1, <3>3, <3>5, HearsLast
      <4>2. QED
        BY <2>2, <3>1, <3>2, <4>1
    <3>6. QED
      BY <1>5, <3>4, <3>5
  <2>5. QED
    BY <2>3, <2>4
<1>8. HearsTheRoom'
  <2> SUFFICES ASSUME NEW g \in Fds, table'[g] # None, ~HungUp(table[g])'
               PROVE  /\ InOrder(heard[table[g]])'
                      /\ Range(heard'[table'[g]]) \subseteq Audible(table[g])' \ Coming(g)'
                      /\ table'[g] \notin Slow
                           => Audible(table[g])' \ Coming(g)' \subseteq Range(heard'[table'[g]])
    BY DEF HearsTheRoom
  <2>1. PICK d \in Clients : d = table[g] /\ d # None /\ table'[g] = d
    BY <1>2 DEF Inv, TypeOK
  <2>2. ~HungUp(d)'
    BY <2>1 DEF HungUp
  <2>3. InOrder(heard[table[g]])' <=> InOrder(heard'[d])
    BY <1>2, <2>1 DEF InOrder
  <2>4. Audible(table[g])' = Audible(d)
    BY <1>2, <2>1 DEF Audible, AudibleAt
  <2>5. QED
    BY <1>7, <2>1, <2>2, <2>3, <2>4
<1>9. QED
  BY <1>2, <1>3, <1>4, <1>6, <1>8 DEF RoomInv

LEMMA RoomStep == RoomInv /\ [Next]_vars => RoomInv'
<1>1. SUFFICES ASSUME RoomInv, [Next]_vars PROVE RoomInv'
  OBVIOUS
<1>2. CASE Wait
  BY <1>1, <1>2, RoomWait
<1>3. CASE OnConnect
  <2>1. /\ Between /\ Handled(Server) /\ UNCHANGED <<people, heard>>
        /\ \/ \E c \in backlog, f \in Fds : Accept(c, f)
           \/ UNCHANGED <<kernel, table, todo, log>>
    BY <1>3 DEF OnConnect
  <2>2. CASE \E c \in backlog, f \in Fds : Accept(c, f)
    BY <1>1, <2>1, <2>2, RoomAccept
  <2>3. CASE UNCHANGED <<kernel, table, todo, log>>
    <3>1. Inv'
      BY <1>1, <1>3, ConnectStep DEF RoomInv
    <3>2. QED
      BY <1>1, <2>1, <2>3, <3>1, RoomIdle DEF people, kernel
  <2>4. QED
    BY <2>1, <2>2, <2>3
<1>4. ASSUME NEW f \in Fds, OnLine(f) \/ OnEnd(f) \/ OnNothing(f) \/ Send(f)
      PROVE  RoomInv'
  BY <1>1, <1>4, RoomLine, RoomEnd, RoomNothing, RoomSend
<1>5. ASSUME NEW c \in Clients, Say(c) \/ HangUp(c) \/ Abort(c) \/ ServerClosed(c)
      PROVE  RoomInv'
  BY <1>1, <1>5, RoomClients
<1>6. CASE UNCHANGED vars
  <2>1. Inv'
    BY <1>1, <1>6, StepInv DEF RoomInv
  <2>2. QED
    BY <1>1, <1>6, <2>1, RoomIdle DEF vars, people, kernel
<1>7. QED
  BY <1>1, <1>2, <1>3, <1>4, <1>5, <1>6 DEF Next, ServerStep

LEMMA RoomInvHolds == Spec => []RoomInv
  BY RoomInit, RoomStep, PTL DEF Spec

(* The server prints and broadcasts no message twice: each client joins,   *)
(* speaks and leaves once, though its line and its end may wait together.  *)
THEOREM NothingIsRepeated == Spec => []Once
<1>1. RoomInv => Once
  BY DEF RoomInv
<1>2. QED
  BY <1>1, RoomInvHolds, PTL

(* Everybody in the room hears all messages since it joined but its own,   *)
(* each once and in the order of the log; one whose buffer was full hears  *)
(* some of them so.                                                        *)
THEOREM RoomIsHeard == Spec => []HearsTheRoom
<1>1. RoomInv => HearsTheRoom
  BY DEF RoomInv
<1>2. QED
  BY <1>1, RoomInvHolds, PTL
=============================================================================
