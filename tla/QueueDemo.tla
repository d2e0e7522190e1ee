------------------------------ MODULE QueueDemo ------------------------------
(***************************************************************************)
(* blocking_queue/src/main.cpp: producers that push a fixed number of      *)
(* frames, consumers that pop until they are refused, and a main thread    *)
(* that joins the producers, shuts the queue down, joins the consumers and *)
(* prints the two counters.  The queue is BlockingQueue; the program only  *)
(* decides which of its calls a thread makes next.                         *)
(***************************************************************************)
EXTENDS BlockingQueue

CONSTANTS
  Producers,  \* the producer threads
  Consumers,  \* the consumer threads
  Main,       \* the main thread
  Frames      \* FRAMES_PER_PRODUCER

\* main.cpp starts at least one thread of each kind, all different ones.
ASSUME ProgramAssumption ==
  /\ Threads = Producers \cup Consumers \cup {Main}
  /\ Producers # {} /\ Consumers # {} /\ Producers \cap Consumers = {}
  /\ Main \notin Producers \cup Consumers
  /\ Items = Producers \X (0 .. Frames - 1)
  /\ Frames \in Nat \ {0}

VARIABLES
  at,        \* where each thread is in its function
  produced,  \* g_produced
  consumed,  \* g_consumed
  sent,      \* i of each producer's loop
  handled    \* the frames consumers have processed

program == <<at, produced, consumed, sent, handled>>
vars == <<queueVars, program>>

Init ==
  /\ queue = <<>> /\ closed = FALSE
  /\ pc = [t \in Threads |-> "idle"]
  /\ ret = [t \in Threads |-> "none"]
  /\ item = [t \in Threads |-> CHOOSE x \in Items : TRUE]
  /\ at = [t \in Threads |-> CASE t \in Producers -> "push"
                               [] t \in Consumers -> "pop"
                               [] t = Main        -> "joinProducers"]
  /\ produced = 0 /\ consumed = 0
  /\ sent = [p \in Producers |-> 0]
  /\ handled = {}

GoesTo(t, p) == at' = [at EXCEPT ![t] = p]

\* q.push(frame) and q.pop(frame) have returned.
Returned(t) == pc[t] = "idle"

-----------------------------------------------------------------------------
ProducerPushes(p) ==
  /\ at[p] = "push"
  /\ StartPush(p, <<p, sent[p]>>)
  /\ GoesTo(p, "pushed")
  /\ UNCHANGED <<produced, consumed, sent, handled>>

\* ++g_produced only after the push has returned; a refused push would break
\* out of the loop.
ProducerReturns(p) ==
  /\ at[p] = "pushed" /\ Returned(p)
  /\ IF ret[p] = Accepted
     THEN /\ produced' = produced + 1
          /\ sent' = [sent EXCEPT ![p] = sent[p] + 1]
          /\ GoesTo(p, IF sent[p] + 1 < Frames THEN "push" ELSE "done")
     ELSE GoesTo(p, "done") /\ UNCHANGED <<produced, sent>>
  /\ UNCHANGED <<queueVars, consumed, handled>>

ConsumerPops(c) ==
  /\ at[c] = "pop"
  /\ StartPop(c)
  /\ GoesTo(c, "popped")
  /\ UNCHANGED <<produced, consumed, sent, handled>>

ConsumerCounts(c) ==
  /\ at[c] = "popped" /\ Returned(c) /\ ret[c] = Accepted
  /\ consumed' = consumed + 1
  /\ handled' = handled \cup {item[c]}
  /\ GoesTo(c, "pop")
  /\ UNCHANGED <<queueVars, produced, sent>>

ConsumerEnds(c) ==
  /\ at[c] = "popped" /\ Returned(c) /\ ret[c] = Refused
  /\ GoesTo(c, "done")
  /\ UNCHANGED <<queueVars, produced, consumed, sent, handled>>

\* Mutant: the queue is shut down without waiting for the producers.
JoinNobody ==
  /\ at[Main] = "joinProducers"
  /\ GoesTo(Main, "shutdown")
  /\ UNCHANGED <<queueVars, produced, consumed, sent, handled>>

JoinProducers ==
  /\ at[Main] = "joinProducers"
  /\ \A p \in Producers : at[p] = "done"
  /\ GoesTo(Main, "shutdown")
  /\ UNCHANGED <<queueVars, produced, consumed, sent, handled>>

ShutdownQueue ==
  /\ at[Main] = "shutdown"
  /\ Shutdown(Main)
  /\ GoesTo(Main, "joinConsumers")
  /\ UNCHANGED <<produced, consumed, sent, handled>>

JoinConsumers ==
  /\ at[Main] = "joinConsumers" /\ Returned(Main)
  /\ \A c \in Consumers : at[c] = "done"
  /\ GoesTo(Main, "done")
  /\ UNCHANGED <<queueVars, produced, consumed, sent, handled>>

-----------------------------------------------------------------------------
InQueue(t) == Proceed(t) /\ UNCHANGED program

Wakes(t) == SpuriousWakeup(t) /\ UNCHANGED program

Step(t) ==
  \/ InQueue(t)
  \/ t \in Producers /\ (ProducerPushes(t) \/ ProducerReturns(t))
  \/ t \in Consumers /\ (ConsumerPops(t) \/ ConsumerCounts(t) \/ ConsumerEnds(t))
  \/ t = Main /\ (JoinProducers \/ ShutdownQueue \/ JoinConsumers)

Run == \E t \in Threads : Step(t) \/ Wakes(t)

\* The operating system runs every thread that can run; it need not wake a
\* sleeping one that nobody notified.
DemoSpec == Init /\ [][Run]_vars /\ \A t \in Threads : WF_vars(Step(t))

-----------------------------------------------------------------------------
(* The two counters, each incremented after the call it counts, never      *)
(* drift further apart than the queue and the threads between them allow:  *)
(* the bound that makes the fast producers wait for the slow consumers.    *)
Backpressure ==
  /\ produced <= consumed + Capacity + Cardinality(Consumers)
  /\ consumed <= produced + Cardinality(Producers)

(* When main prints its totals every frame of every producer has been      *)
(* processed once, although the queue was shut down with frames in it.     *)
NothingLeftBehind ==
  at[Main] = "done" =>
    /\ handled = Items
    /\ produced = Cardinality(Items) /\ consumed = Cardinality(Items)

\* A thread that has not ended and waits neither on a condition variable nor in
\* a join for a thread that has not ended.
GoesOn(t) ==
  /\ at[t] # "done" /\ pc[t] \notin {"not_full_", "not_empty_"}
  /\ at[t] = "joinProducers" => \A p \in Producers : at[p] = "done"
  /\ at[t] = "joinConsumers" /\ Returned(t) => \A c \in Consumers : at[c] = "done"

(* The threads never all wait for each other: producers for consumers that *)
(* sleep themselves, or main for a thread that nobody will wake.           *)
SomebodyGoesOn == at[Main] # "done" => \E t \in Threads : GoesOn(t)

(* Every thread comes to its end and main joins them all.                  *)
Termination == <>(at[Main] = "done")

=============================================================================
