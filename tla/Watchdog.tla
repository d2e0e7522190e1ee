------------------------------ MODULE Watchdog ------------------------------
(***************************************************************************)
(* watchdog_node.cpp and what it listens to: nodes that publish a          *)
(* heartbeat a second, the /runtime/heartbeat topic, the table of last     *)
(* heartbeats, the check a second, and the asynchronous apply_event call   *)
(* that sends SensorTimeout to the runtime node.  The runtime node itself  *)
(* is the lifecycle that RuntimeNode implements.                           *)
(*                                                                         *)
(* Time is counted in the one-second periods that all the timers share: an *)
(* age is the number of periods since a heartbeat was stamped, and ages    *)
(* past the limit are one.                                                 *)
(***************************************************************************)
EXTENDS Integers, Sequences

CONSTANTS
  Nodes,        \* the nodes that publish heartbeats
  RuntimeName,  \* the one of them that serves apply_event
  Limit,        \* timeout_ms_, in periods
  Depth,        \* the keep_last depth of heartbeatQos
  MaxCalls      \* bound of the model: apply_event calls not yet answered

ASSUME NodesAssumption == RuntimeName \in Nodes
ASSUME BoundsAssumption ==
  Limit \in Nat /\ Depth \in Nat \ {0} /\ MaxCalls \in Nat \ {0}

VARIABLES
  alive,      \* the nodes that run
  last,       \* age of the last heartbeat each node published, or Never
  lost,       \* nodes whose last heartbeat was dropped from the full topic
  topic,      \* heartbeats the watchdog has not handled yet, oldest first
  table,      \* heartbeat_table_: age of the recorded stamp, or Never
  latched,    \* fault_triggered_
  requests,   \* SensorTimeout calls on their way to the runtime node
  responses,  \* answers on their way back
  due,        \* the timers that have expired and not run
  state,      \* the runtime node's state
  seen        \* whether it has heard both sensors

Runtime == INSTANCE RuntimeLifecycle

publishers == <<alive, last, lost>>
calls == <<requests, responses>>
runtime == <<state, seen>>
vars == <<alive, last, lost, topic, table, latched, requests, responses, due,
          state, seen>>

Check == "check_timer_"   \* the watchdog's own timer

Old == Limit + 1
Never == -1
Ages == 0 .. Old
Heartbeats == [node : Nodes, age : Ages]

\* One period later.
Older(age) == IF age \in {Never, Old} THEN age ELSE age + 1

Init ==
  /\ alive = Nodes
  /\ last = [n \in Nodes |-> Never]
  /\ lost = {}
  /\ topic = <<>>
  /\ table = [n \in Nodes |-> Never]
  /\ latched = FALSE
  /\ requests = 0 /\ responses = 0
  /\ due = {}
  /\ Runtime!Init

-----------------------------------------------------------------------------
(* Time, failures, and the runtime node's own life.                        *)

\* A period passes; a timer that has not run yet does not run twice.
Period ==
  /\ last' = [n \in Nodes |-> Older(last[n])]
  /\ table' = [n \in Nodes |-> Older(table[n])]
  /\ topic' = [i \in DOMAIN topic |-> [node |-> topic[i].node, age |-> Older(topic[i].age)]]
  /\ due' = alive \cup {Check}
  /\ UNCHANGED <<alive, lost, latched, calls, runtime>>

\* A node dies.  The runtime node takes the calls it has not answered with
\* it, and its next incarnation begins anew.
Crash(n) ==
  /\ n \in alive
  /\ alive' = alive \ {n}
  /\ due' = due \ {n}
  /\ IF n = RuntimeName THEN /\ requests' = 0
                             /\ state' = "Idle" /\ seen' = FALSE
                        ELSE UNCHANGED <<requests, runtime>>
  /\ UNCHANGED <<last, lost, topic, table, latched, responses>>

Restart(n) ==
  /\ n \notin alive
  /\ alive' = alive \cup {n}
  /\ UNCHANGED <<last, lost, topic, table, latched, calls, due, runtime>>

RuntimeStep ==
  /\ RuntimeName \in alive
  /\ Runtime!Next
  /\ UNCHANGED <<publishers, topic, table, latched, calls, due>>

-----------------------------------------------------------------------------
(* The heartbeat topic.                                                    *)

Beat(n) == [node |-> n, age |-> 0]

Queued(n, q) == \E i \in DOMAIN q : q[i].node = n

\* Reliable and keep_last(Depth): nothing is lost but the oldest heartbeat
\* of a reader that has fallen behind, whichever node it came from.
Kept(q) == IF Len(q) > Depth THEN Tail(q) ELSE q

\* publishHeartbeat of any of the nodes, run by its one-second timer.
PublishHeartbeat(n) ==
  /\ n \in due
  /\ due' = due \ {n}
  /\ last' = [last EXCEPT ![n] = 0]
  /\ topic' = Kept(Append(topic, Beat(n)))
  /\ lost' = (lost \ {n}) \cup {m \in Nodes : Queued(m, topic) /\ ~Queued(m, topic')}
  /\ UNCHANGED <<alive, table, latched, calls, runtime>>

Recorded(beat) == [table EXCEPT ![beat.node] = beat.age]

\* handleHeartbeat of the watchdog.
HandleHeartbeat ==
  /\ topic # <<>>
  /\ table' = Recorded(Head(topic))
  /\ topic' = Tail(topic)
  /\ UNCHANGED <<publishers, latched, calls, due, runtime>>

-----------------------------------------------------------------------------
(* The check and its call.                                                 *)

\* Mutant: >= for >.
TimedOutEarly(n) == table[n] >= Limit

\* A node the table has no entry for is never judged.
TimedOut(n) == table[n] > Limit

AnyTimeout == \E n \in Nodes : TimedOut(n)

ServiceIsReady == RuntimeName \in alive

\* Mutant: the latch is set when the call is made.
CheckTimeoutsLatches ==
  /\ Check \in due
  /\ requests + responses < MaxCalls
  /\ due' = due \ {Check}
  /\ IF AnyTimeout /\ ~latched /\ ServiceIsReady
     THEN requests' = requests + 1 /\ latched' = TRUE
     ELSE UNCHANGED <<requests, latched>>
  /\ UNCHANGED <<publishers, topic, table, responses, runtime>>

\* checkTimeouts and triggerFault: one more call every period until an answer
\* has set the latch.
CheckTimeouts ==
  /\ Check \in due
  /\ requests + responses < MaxCalls
  /\ due' = due \ {Check}
  /\ requests' = IF AnyTimeout /\ ~latched /\ ServiceIsReady THEN requests + 1 ELSE requests
  /\ UNCHANGED <<publishers, topic, table, latched, responses, runtime>>

\* The runtime node serves a call: process(SensorTimeout) ends in Fault from
\* every state.
HandleRequest ==
  /\ RuntimeName \in alive
  /\ requests > 0
  /\ requests' = requests - 1
  /\ responses' = responses + 1
  /\ Runtime!Fail
  /\ UNCHANGED <<publishers, topic, table, latched, due>>

\* The response callback: nothing ever clears the latch again.
HandleResponse ==
  /\ responses > 0
  /\ responses' = responses - 1
  /\ latched' = TRUE
  /\ UNCHANGED <<publishers, topic, table, requests, due, runtime>>

-----------------------------------------------------------------------------
Next ==
  \/ Period
  \/ \E n \in Nodes : Crash(n) \/ Restart(n) \/ PublishHeartbeat(n)
  \/ RuntimeStep
  \/ HandleHeartbeat
  \/ CheckTimeouts
  \/ HandleRequest
  \/ HandleResponse

Spec == Init /\ [][Next]_vars

(* Fairness: the clock runs, and both executors get to their queues and    *)
(* timers.  Nothing obliges a node to publish, or the runtime to recover.  *)
Fairness ==
  /\ WF_vars(Period)
  /\ WF_vars(HandleHeartbeat)
  /\ WF_vars(CheckTimeouts)
  /\ WF_vars(HandleRequest)
  /\ WF_vars(HandleResponse)

FairSpec == Spec /\ Fairness

-----------------------------------------------------------------------------
(* Every variable has a value the code's types allow, and the topic no     *)
(* more than its depth.                                                    *)
TypeOK ==
  /\ alive \subseteq Nodes /\ lost \subseteq Nodes
  /\ last \in [Nodes -> Ages \cup {Never}]
  /\ table \in [Nodes -> Ages \cup {Never}]
  /\ topic \in Seq(Heartbeats) /\ Len(topic) <= Depth
  /\ latched \in BOOLEAN
  /\ requests \in Nat /\ responses \in Nat /\ requests + responses <= MaxCalls
  /\ due \subseteq alive \cup {Check}

(* The table is behind a node only for a reason: what it records is the     *)
(* age of the node's last heartbeat unless a later one waits in the topic   *)
(* or was dropped from it, however the two nodes' heartbeats interleave.    *)
RecordExplained ==
  \A n \in Nodes : table[n] = last[n] \/ Queued(n, topic) \/ n \in lost

(* The runtime is faulted only for a node that has been silent for longer   *)
(* than the limit or whose heartbeat the watchdog has not got to: never for *)
(* a slow start, and never for a record a later heartbeat has replaced.     *)
NoFalseAlarm ==
  [][requests' > requests =>
       \E n \in Nodes : last[n] = Old \/ Queued(n, topic) \/ n \in lost]_vars

(* An outage of a node the table knows drives the runtime to Fault, though *)
(* calls are lost with a runtime that dies, provided the runtime is not    *)
(* always down again, the latch is not set and no answer that would set it *)
(* is on its way.                                                          *)
OutageFaults ==
  \/ []<>(RuntimeName \notin alive)
  \/ \A n \in Nodes :
       n \notin alive /\ table[n] # Never /\ ~latched /\ responses = 0
         ~> state = "Fault" \/ n \in alive

-----------------------------------------------------------------------------
(* What the documents say and the code does not do.                        *)

(* watchdog_node.cpp:123: any node that times out sends the runtime to     *)
(* Fault.                                                                  *)
AnyTimeoutFaults ==
  [][CheckTimeouts /\ AnyTimeout /\ ServiceIsReady =>
       requests' > requests \/ state = "Fault"]_vars

=============================================================================
