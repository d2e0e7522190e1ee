--------------------------- MODULE ChatServer_proofs ---------------------------
(***************************************************************************)
(* Theorems about ChatServer for every number of clients, descriptors and  *)
(* threads.  The descriptors are what the argument turns on: a handler     *)
(* owns its descriptor from accept to close, and an entry of the table     *)
(* lies within that time.                                                  *)
(***************************************************************************)
EXTENDS ChatServer, TLAPS

(* The points from accept to close.                                        *)
Serving == {"queued", "register", "recv", "erase", "close"} \cup News

(* The points between Register and Erase.                                  *)
InRoom == {"joined", "recv", "said", "erase"}

(* A connection waits for a thread at most once.                           *)
TasksInv ==
  /\ \A i \in 1 .. Len(tasks) : pc[tasks[i]] = "queued"
  /\ \A i, j \in 1 .. Len(tasks) : tasks[i] = tasks[j] => i = j

(* Recipients are left only in the middle of a broadcast.                  *)
TodoInv == \A c \in Clients : todo[c] # {} => pc[c] \in News

(* A handler's descriptor is its own until it closes it.                   *)
OwnsFd ==
  \A c \in Clients : pc[c] \in Serving => fd[c] \in Fds /\ owner[fd[c]] = c

(* An entry of the table is that of a handler between Register and Erase.  *)
TableMatches ==
  \A f \in Fds : table[f] # None => pc[table[f]] \in InRoom /\ fd[table[f]] = f

Inv == TypeOK /\ TasksInv /\ TodoInv /\ OwnsFd /\ TableMatches

-----------------------------------------------------------------------------

LEMMA AfterPoints ==
  /\ After.register = "joined" /\ After.recv = "erase"
  /\ After.erase = "left" /\ After.close = "done"
  /\ After["joined"] = "recv" /\ After["said"] = "recv" /\ After["left"] = "close"
  BY DEF After

(* What a broadcast that goes on leaves of the handler.                    *)
LEMMA ContinueMoves ==
  ASSUME NEW c \in Clients, TypeOK, pc[c] \in News, Continue(c)
  PROVE  /\ pc' \in [Clients -> Points]
         /\ \A d \in Clients \ {c} : pc'[d] = pc[d]
         /\ todo'[c] # {} => pc'[c] = pc[c]
         /\ todo'[c] = {} => pc'[c] = After[pc[c]]
         /\ pc[c] \in {"joined", "said"} => pc'[c] \in InRoom
         /\ pc[c] = "left" => pc'[c] \in {"left", "close"}
  BY AfterPoints DEF Continue, TypeOK, News, Points, InRoom

LEMMA InitInv == Init => Inv
<1> SUFFICES ASSUME Init PROVE Inv
  OBVIOUS
<1>1. TypeOK
  BY ChatAssumption DEF Init, TypeOK, Points
<1>2. TasksInv /\ TodoInv /\ OwnsFd /\ TableMatches
  BY DEF Init, TasksInv, TodoInv, OwnsFd, TableMatches, Serving, News
<1> QED
  BY <1>1, <1>2 DEF Inv

LEMMA NextInv == Inv /\ [Next]_vars => Inv'
<1> SUFFICES ASSUME Inv, [Next]_vars PROVE Inv'
  OBVIOUS
<1> USE ChatAssumption DEF Inv
<1>1. ASSUME NEW c \in Clients, Say(c) \/ HangUp(c) \/ ServerClosed(c)
      PROVE  Inv'
  <2>1. TypeOK'
    <3>1. CASE Say(c)
      BY <3>1 DEF Say, TypeOK, handler
    <3>2. CASE HangUp(c)
      BY <3>2 DEF HangUp, TypeOK, handler
    <3>3. CASE ServerClosed(c)
      BY <3>3 DEF ServerClosed, TypeOK, handler
    <3> QED
      BY <1>1, <3>1, <3>2, <3>3
  <2>2. TasksInv' /\ TodoInv' /\ OwnsFd' /\ TableMatches'
    BY <1>1 DEF Say, HangUp, ServerClosed, handler, TasksInv, TodoInv, OwnsFd, TableMatches
  <2> QED
    BY <2>1, <2>2
<1>2. ASSUME NEW c \in Clients, Accept(c)
      PROVE  Inv'
  <2> USE <1>2 DEF Accept, people
  <2>1. PICK f \in Free : owner' = [owner EXCEPT ![f] = c] /\ fd' = [fd EXCEPT ![c] = f]
    OBVIOUS
  <2>2. f \in Fds /\ owner[f] = None
    BY <2>1 DEF Free
  <2>3. TypeOK'
    BY <2>1, <2>2 DEF TypeOK, Points
  <2>4. TasksInv'
    BY DEF TasksInv, TypeOK
  <2>5. TodoInv'
    BY DEF TodoInv, TypeOK, News
  <2>6. OwnsFd'
    BY <2>1, <2>2 DEF OwnsFd, TypeOK, Serving
  <2>7. TableMatches'
    BY <2>1 DEF TableMatches, TypeOK, InRoom
  <2> QED
    BY <2>3, <2>4, <2>5, <2>6, <2>7
<1>3. ASSUME Start
      PROVE  Inv'
  <2> USE <1>3 DEF Start, people
  <2>1. Head(tasks) \in Clients /\ pc[Head(tasks)] = "queued" /\ Tail(tasks) \in Seq(Clients)
    BY DEF TypeOK, TasksInv
  <2>2. TypeOK'
    BY <2>1 DEF TypeOK, Points
  <2>3. TasksInv'
    BY <2>1 DEF TasksInv, TypeOK
  <2>4. TodoInv' /\ OwnsFd' /\ TableMatches'
    BY <2>1 DEF TodoInv, OwnsFd, TableMatches, TypeOK, News, Serving, InRoom
  <2> QED
    BY <2>2, <2>3, <2>4
<1>4. ASSUME NEW c \in Clients, Register(c)
      PROVE  Inv'
  <2> USE <1>4, AfterPoints DEF Register, people
  <2>1. fd[c] \in Fds /\ owner[fd[c]] = c
    BY DEF OwnsFd, Serving
  <2>2. TypeOK'
    BY <2>1 DEF TypeOK, Points, News
  <2>3. TasksInv' /\ TodoInv' /\ OwnsFd'
    BY <2>1 DEF TasksInv, TodoInv, OwnsFd, TypeOK, News, Serving
  <2>4. TableMatches'
    BY <2>1 DEF TableMatches, TypeOK, InRoom
  <2> QED
    BY <2>2, <2>3, <2>4
<1>5. ASSUME NEW c \in Clients, Snapshot(c) \/ Send(c)
      PROVE  Inv'
  <2>1. pc[c] \in News
    BY <1>5 DEF Snapshot, Send, TodoInv, TypeOK
  <2>2. /\ UNCHANGED <<unread, said, owner, tasks, table, fd>>
        /\ Continue(c)
        /\ todo' \in [Clients -> SUBSET Fds]
        /\ \A d \in Clients \ {c} : todo'[d] = todo[d]
    BY <1>5 DEF Snapshot, Send, people, TypeOK
  <2>3. heard' \in [Clients -> SUBSET (Clients \X News)]
        /\ client' \in [Clients -> {"open", "quitting", "gone"}]
    <3>1. CASE Snapshot(c)
      BY <3>1 DEF Snapshot, people, TypeOK
    <3>2. CASE Send(c)
      <4>1. PICK f \in todo[c] : Deliver(c, owner[f])
        BY <3>2 DEF Send
      <4>2. owner[f] \in Clients \cup {None}
        BY <4>1 DEF TypeOK
      <4> QED
        BY <2>1, <4>1, <4>2 DEF Deliver, TypeOK
    <3> QED
      BY <1>5, <3>1, <3>2
  <2>4. TypeOK'
    BY <2>1, <2>2, <2>3, ContinueMoves DEF TypeOK
  <2>5. TasksInv'
    <3>1. \A i \in 1 .. Len(tasks) : tasks[i] \in Clients /\ tasks[i] # c
      BY <2>1 DEF TasksInv, TypeOK, News
    <3>2. \A d \in Clients \ {c} : pc'[d] = pc[d]
      BY <2>1, <2>2, ContinueMoves
    <3> QED
      BY <2>2, <3>1, <3>2 DEF TasksInv
  <2>6. TodoInv'
    BY <2>1, <2>2, ContinueMoves DEF TodoInv, TypeOK
  <2>7. OwnsFd'
    BY <2>1, <2>2, ContinueMoves DEF OwnsFd, TypeOK, News, Serving, InRoom
  <2>8. TableMatches'
    BY <2>1, <2>2, ContinueMoves DEF TableMatches, TypeOK, News, InRoom
  <2> QED
    BY <2>4, <2>5, <2>6, <2>7, <2>8
<1>6. ASSUME NEW c \in Clients, RecvLine(c) \/ RecvEnd(c)
      PROVE  Inv'
  <2>1. PICK p \in {"said", "erase"} : pc' = [pc EXCEPT ![c] = p]
    BY <1>6, AfterPoints DEF RecvLine, RecvEnd
  <2>2. pc[c] = "recv" /\ unread' = [unread EXCEPT ![c] = FALSE]
    BY <1>6 DEF RecvLine, RecvEnd
  <2>3. UNCHANGED <<client, said, heard, owner, tasks, table, fd, todo>>
    BY <1>6 DEF RecvLine, RecvEnd
  <2>4. TypeOK'
    BY <2>1, <2>2, <2>3 DEF TypeOK, Points, News
  <2>5. TasksInv' /\ TodoInv' /\ OwnsFd'
    BY <2>1, <2>2, <2>3 DEF TypeOK, TasksInv, TodoInv, OwnsFd, News, Serving
  <2>6. TableMatches'
    BY <2>1, <2>2, <2>3 DEF TypeOK, TableMatches, InRoom
  <2> QED
    BY <2>4, <2>5, <2>6
<1>7. ASSUME NEW c \in Clients, Erase(c)
      PROVE  Inv'
  <2> USE <1>7, AfterPoints DEF Erase, people
  <2>1. fd[c] \in Fds /\ owner[fd[c]] = c
    BY DEF OwnsFd, Serving
  <2>2. TypeOK'
    BY <2>1 DEF TypeOK, Points, News
  <2>3. TasksInv' /\ TodoInv' /\ OwnsFd'
    BY <2>1 DEF TasksInv, TodoInv, OwnsFd, TypeOK, News, Serving
  <2>4. TableMatches'
    BY <2>1 DEF TableMatches, TypeOK, InRoom
  <2> QED
    BY <2>2, <2>3, <2>4
<1>8. ASSUME NEW c \in Clients, Close(c)
      PROVE  Inv'
  <2> USE <1>8, AfterPoints DEF Close, people
  <2>1. fd[c] \in Fds /\ owner[fd[c]] = c
    BY DEF OwnsFd, Serving
  <2>2. TypeOK'
    BY <2>1 DEF TypeOK, Points
  <2>3. TasksInv' /\ TodoInv'
    BY DEF TasksInv, TodoInv, TypeOK, News
  <2>4. OwnsFd'
    BY <2>1 DEF OwnsFd, TypeOK, Serving, News
  <2>5. TableMatches'
    BY <2>1 DEF TableMatches, TypeOK, InRoom
  <2> QED
    BY <2>2, <2>3, <2>4, <2>5
<1>9. ASSUME UNCHANGED vars
      PROVE  Inv'
  BY <1>9 DEF vars, people, handler, TypeOK, TasksInv, TodoInv, OwnsFd, TableMatches
<1> QED
  BY <1>1, <1>2, <1>3, <1>4, <1>5, <1>6, <1>7, <1>8, <1>9 DEF Next, Handler

-----------------------------------------------------------------------------

(* Every variable keeps its type, always.                                  *)
THEOREM TypeCorrect == Spec => []TypeOK
<1>1. Inv => TypeOK
  BY DEF Inv
<1> QED
  BY <1>1, InitInv, NextInv, PTL DEF Spec

LEMMA InvTableIsOpen == Inv => TableIsOpen
  BY ChatAssumption
  DEF Inv, TableIsOpen, TableMatches, OwnsFd, TypeOK, InRoom, Serving, News

(* An entry of g_clients is an open descriptor, and the registered client  *)
(* is at its other end.                                                    *)
THEOREM TableStaysOpen == Spec => []TableIsOpen
  BY InitInv, NextInv, InvTableIsOpen, PTL DEF Spec

-----------------------------------------------------------------------------

Entered(c) == Registered(c) /\ client[c] = "open"

(* The handler of c has not copied the recipients of its arrival.          *)
Unannounced(c) == pc[c] = "joined" /\ todo[c] = {}

(* The arrival of c is on its way to d.                                    *)
Coming(c, d) == pc[c] = "joined" /\ fd[d] \in todo[c]

Told(c, d) == <<c, "joined">> \in heard[d]

(* Of two registered clients one was told of the other, or is about to be. *)
Acquainted(c, d) ==
  \/ Unannounced(c) \/ Unannounced(d)
  \/ Coming(c, d) \/ Coming(d, c)
  \/ Told(c, d) \/ Told(d, c)

KnowInv ==
  \A c, d \in Clients : Entered(c) /\ Entered(d) /\ c # d => Acquainted(c, d)

LEMMA RegisteredHas ==
  ASSUME Inv, NEW c \in Clients
  PROVE  Registered(c) => pc[c] \in InRoom /\ fd[c] \in Fds
                          /\ table[fd[c]] = c /\ owner[fd[c]] = c
  BY ChatAssumption
  DEF Inv, TypeOK, OwnsFd, TableMatches, Registered, InRoom, Serving, News

(* A step that leaves broadcasts and what was heard alone, and lets no new *)
(* client in.                                                              *)
LEMMA KnowKept ==
  ASSUME Inv, KnowInv,
         \A c \in Clients : Entered(c)' =>
           /\ Entered(c)
           /\ pc[c] = "joined" => pc'[c] = "joined"
           /\ todo'[c] = todo[c] /\ fd'[c] = fd[c] /\ heard'[c] = heard[c]
  PROVE  KnowInv'
  BY DEF KnowInv, Acquainted, Unannounced, Coming, Told

LEMMA KnowNext == Inv /\ Inv' /\ KnowInv /\ [Next]_vars => KnowInv'
<1> SUFFICES ASSUME Inv, Inv', KnowInv, [Next]_vars PROVE KnowInv'
  OBVIOUS
<1> USE ChatAssumption
<1>1. ASSUME NEW c \in Clients, Say(c) \/ HangUp(c) \/ ServerClosed(c)
      PROVE  KnowInv'
  BY <1>1, KnowKept
  DEF Say, HangUp, ServerClosed, handler, Entered, Registered, Inv, TypeOK
<1>2. ASSUME NEW c \in Clients, Accept(c)
      PROVE  KnowInv'
  <2>1. ~Registered(c)
    BY <1>2, RegisteredHas DEF Accept, InRoom
  <2> QED
    BY <1>2, <2>1, KnowKept DEF Accept, people, Entered, Registered, Inv, TypeOK
<1>3. ASSUME Start
      PROVE  KnowInv'
  <2>1. Head(tasks) \in Clients /\ pc[Head(tasks)] = "queued"
    BY <1>3 DEF Start, Inv, TypeOK, TasksInv
  <2> QED
    BY <1>3, <2>1, KnowKept DEF Start, people, Entered, Registered, Inv, TypeOK
<1>4. ASSUME NEW c \in Clients, Register(c)
      PROVE  KnowInv'
  <2>1. Unannounced(c)'
    <3>1. pc'[c] = "joined" /\ todo'[c] = todo[c]
      BY <1>4, AfterPoints DEF Register, Inv, TypeOK
    <3>2. todo[c] = {}
      BY <1>4 DEF Register, Inv, TodoInv, News
    <3> QED
      BY <3>1, <3>2 DEF Unannounced
  <2>2. ASSUME NEW d \in Clients \ {c}, Entered(d)'
        PROVE  /\ Entered(d)
               /\ pc'[d] = pc[d] /\ todo'[d] = todo[d]
               /\ fd'[d] = fd[d] /\ heard'[d] = heard[d]
    <3>1. PICK f \in Fds : table'[f] = d
      BY <2>2 DEF Entered, Registered
    <3>2. table[f] = d
      BY <1>4, <3>1 DEF Register, Inv, TypeOK
    <3> QED
      BY <1>4, <2>2, <3>2 DEF Register, people, Entered, Registered, Inv, TypeOK
  <2> QED
    BY <2>1, <2>2 DEF KnowInv, Acquainted, Unannounced, Coming, Told
<1>5. ASSUME NEW c \in Clients, Snapshot(c)
      PROVE  KnowInv'
  <2>1. \A d \in Clients : Entered(d)' <=> Entered(d)
    BY <1>5 DEF Snapshot, people, Entered, Registered
  <2>2. /\ UNCHANGED <<heard, fd>>
        /\ \A d \in Clients \ {c} : pc'[d] = pc[d] /\ todo'[d] = todo[d]
        /\ todo'[c] # {} => pc'[c] = pc[c]
        /\ todo'[c] = {f \in Fds \ {fd[c]} : table[f] # None}
    BY <1>5, ContinueMoves DEF Snapshot, people, Inv, TypeOK
  <2>3. ASSUME NEW d \in Clients \ {c}, Entered(c), Entered(d), pc[c] = "joined"
        PROVE  Coming(c, d)'
    <3>1. fd[d] \in Fds /\ table[fd[d]] = d /\ fd[d] # fd[c]
      BY <2>3, RegisteredHas DEF Entered
    <3> QED
      BY <2>2, <2>3, <3>1 DEF Coming
  <2>4. pc[c] # "joined" => ~Unannounced(c) /\ \A d \in Clients : ~Coming(c, d)
    BY DEF Unannounced, Coming
  <2>5. ASSUME NEW d \in Clients, NEW e \in Clients \ {c}
        PROVE  /\ Unannounced(e)' <=> Unannounced(e)
               /\ Coming(e, d)' <=> Coming(e, d)
    BY <2>2 DEF Unannounced, Coming
  <2>6. \A d, e \in Clients : Told(d, e)' <=> Told(d, e)
    BY <2>2 DEF Told
  <2> QED
    BY <2>1, <2>3, <2>4, <2>5, <2>6 DEF KnowInv, Acquainted
<1>6. ASSUME NEW c \in Clients, Send(c)
      PROVE  KnowInv'
  <2>1. PICK f \in todo[c] :
          Deliver(c, owner[f]) /\ todo' = [todo EXCEPT ![c] = @ \ {f}]
    BY <1>6 DEF Send
  <2>2. pc[c] \in News /\ f \in Fds /\ owner[f] \in Clients \cup {None}
    BY <2>1 DEF Inv, TodoInv, TypeOK
  <2>3. /\ UNCHANGED <<table, fd>>
        /\ todo'[c] = todo[c] \ {f}
        /\ \A d \in Clients \ {c} : pc'[d] = pc[d] /\ todo'[d] = todo[d]
        /\ todo'[c] # {} => pc'[c] = pc[c]
    <3>1. Continue(c) /\ UNCHANGED <<table, fd>>
      BY <1>6 DEF Send
    <3>2. /\ \A d \in Clients \ {c} : pc'[d] = pc[d]
          /\ todo'[c] # {} => pc'[c] = pc[c]
      BY <2>2, <3>1, ContinueMoves DEF Inv
    <3>3. todo'[c] = todo[c] \ {f} /\ \A d \in Clients \ {c} : todo'[d] = todo[d]
      BY <2>1 DEF Inv, TypeOK
    <3> QED
      BY <3>1, <3>2, <3>3
  <2>4. \A d \in Clients : Entered(d)' => Entered(d)
    BY <2>1, <2>2, <2>3 DEF Deliver, Entered, Registered, Inv, TypeOK
  <2>5. \A d, e \in Clients : Told(d, e) => Told(d, e)'
    BY <2>1, <2>2 DEF Deliver, Told, Inv, TypeOK
  <2>6. ASSUME NEW d \in Clients \ {c}, Entered(d), Coming(c, d)
        PROVE  Coming(c, d)' \/ Told(c, d)'
    <3>1. CASE fd[d] = f
      <4>1. owner[f] = d /\ client[d] = "open"
        BY <2>6, <3>1, RegisteredHas DEF Entered
      <4> QED
        BY <2>1, <2>2, <2>6, <4>1 DEF Deliver, Told, Coming, Inv, TypeOK
    <3>2. CASE fd[d] # f
      BY <2>3, <2>6, <3>2 DEF Coming
    <3> QED
      BY <3>1, <3>2
  <2>7. ~Unannounced(c)
    BY <2>1 DEF Unannounced
  <2>8. ASSUME NEW d \in Clients, NEW e \in Clients \ {c}
        PROVE  /\ Unannounced(e)' <=> Unannounced(e)
               /\ Coming(e, d)' <=> Coming(e, d)
    BY <2>3 DEF Unannounced, Coming
  <2> QED
    BY <2>4, <2>5, <2>6, <2>7, <2>8 DEF KnowInv, Acquainted
<1>7. ASSUME NEW c \in Clients, RecvLine(c) \/ RecvEnd(c)
      PROVE  KnowInv'
  <2>1. pc[c] = "recv" /\ \A d \in Clients \ {c} : pc'[d] = pc[d]
    BY <1>7 DEF RecvLine, RecvEnd, Inv, TypeOK
  <2>2. UNCHANGED <<client, heard, table, fd, todo>>
    BY <1>7 DEF RecvLine, RecvEnd
  <2> QED
    BY <2>1, <2>2, KnowKept DEF Entered, Registered
<1>8. ASSUME NEW c \in Clients, Erase(c)
      PROVE  KnowInv'
  <2>1. pc[c] = "erase" /\ \A d \in Clients \ {c} : pc'[d] = pc[d]
    BY <1>8 DEF Erase, Inv, TypeOK
  <2>2. UNCHANGED <<client, heard, fd, todo>> /\ \A d \in Clients : Registered(d)' => Registered(d)
    BY <1>8 DEF Erase, people, Registered, Inv, TypeOK
  <2> QED
    BY <2>1, <2>2, KnowKept DEF Entered
<1>9. ASSUME NEW c \in Clients, Close(c)
      PROVE  KnowInv'
  <2>1. ~Registered(c)
    BY <1>9, RegisteredHas DEF Close, InRoom
  <2> QED
    BY <1>9, <2>1, KnowKept DEF Close, people, Entered, Registered, Inv, TypeOK
<1>10. ASSUME UNCHANGED vars
       PROVE  KnowInv'
  BY <1>10, KnowKept DEF vars, people, handler, Entered, Registered
<1> QED
  BY <1>1, <1>2, <1>3, <1>4, <1>5, <1>6, <1>7, <1>8, <1>9, <1>10 DEF Next, Handler

(* Of two clients that are in the room at least one was told that the      *)
(* other joined, always: handle_client registers before it announces, and  *)
(* a copied descriptor that is still registered still leads to its client. *)
THEOREM NobodyIsMissed == Spec => []EachKnowsOther
<1>1. Init => KnowInv
  BY ChatAssumption DEF Init, KnowInv, Entered, Registered
<1>2. Inv /\ KnowInv => EachKnowsOther
  BY RegisteredHas
  DEF KnowInv, EachKnowsOther, Present, Entered, Acquainted, Unannounced, Coming, Told
<1> QED
  BY <1>1, <1>2, InitInv, NextInv, KnowNext, PTL DEF Spec

=============================================================================
