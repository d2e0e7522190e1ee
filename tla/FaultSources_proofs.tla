-------------------------- MODULE FaultSources_proofs --------------------------
(***************************************************************************)
(* Theorems about the two monitors that find a runtime fault: the watchdog *)
(* of the heartbeats, for every set of nodes, every limit and every depth  *)
(* of the topic, and the CAN monitor, for every set of nodes and positions *)
(* and every timeout.  They share no state: the theorems about each are of *)
(* its own specification, Spec and CanSpec.                                *)
(***************************************************************************)
EXTENDS Watchdog, CanBus, SequenceTheorems, TLAPS

LEMMA FunctionIsSequence ==
  ASSUME NEW S, NEW n \in Nat, NEW f \in [1 .. n -> S]
  PROVE  f \in Seq(S) /\ Len(f) = n
OBVIOUS

-----------------------------------------------------------------------------
(* The watchdog: lemmas about ages and about the topic.                    *)

LEMMA OlderType ==
  ASSUME NEW age \in Ages \cup {Never}
  PROVE  /\ Older(age) \in Ages \cup {Never}
         /\ age \in Ages => Older(age) \in Ages
BY BoundsAssumption DEF Ages, Older, Old, Never

LEMMA BeatType ==
  ASSUME NEW n \in Nodes
  PROVE  Beat(n) \in Heartbeats /\ Beat(n).node = n /\ Beat(n).age = 0
BY BoundsAssumption DEF Beat, Heartbeats, Ages, Old

(* What one more heartbeat makes of the topic: at most Depth heartbeats, of *)
(* which the last is the new one and the others are old ones in order.     *)
Shift(q) == IF Len(q) = Depth THEN 1 ELSE 0

LEMMA AppendKept ==
  ASSUME NEW q \in Seq(Heartbeats), Len(q) <= Depth, NEW b \in Heartbeats
  PROVE  LET r == Kept(Append(q, b)) IN
         /\ r \in Seq(Heartbeats)
         /\ Len(r) <= Depth
         /\ Len(r) = Len(q) + 1 - Shift(q)
         /\ r[Len(r)] = b
         /\ \A i \in 1 .. Len(r) - 1 : r[i] = q[i + Shift(q)]
<1> DEFINE a == Append(q, b)
<1>0. Depth \in Nat \ {0} /\ Len(q) \in Nat
  BY BoundsAssumption
<1>1. /\ a \in Seq(Heartbeats) /\ Len(a) = Len(q) + 1
      /\ a[Len(q) + 1] = b
      /\ \A i \in 1 .. Len(q) : a[i] = q[i]
  OBVIOUS
<1>2. CASE Len(q) = Depth
  <2>1. Kept(a) = Tail(a) /\ Shift(q) = 1
    BY <1>0, <1>1, <1>2 DEF Kept, Shift
  <2>2. /\ Tail(a) \in Seq(Heartbeats) /\ Len(Tail(a)) = Len(q)
        /\ \A i \in 1 .. Len(q) : Tail(a)[i] = a[i + 1]
    BY <1>0, <1>1
  <2>3. QED
    BY <1>0, <1>1, <1>2, <2>1, <2>2
<1>3. CASE Len(q) # Depth
  <2>1. Kept(a) = a /\ Shift(q) = 0
    BY <1>0, <1>1, <1>3 DEF Kept, Shift
  <2>2. QED
    BY <1>0, <1>1, <1>3, <2>1
<1>4. QED
  BY <1>2, <1>3

LEMMA TailOf ==
  ASSUME NEW q \in Seq(Heartbeats), q # <<>>
  PROVE  /\ Tail(q) \in Seq(Heartbeats) /\ Len(Tail(q)) = Len(q) - 1
         /\ Len(q) \in Nat \ {0}
         /\ Head(q) = q[1] /\ q[1] \in Heartbeats
         /\ \A i \in 1 .. Len(q) - 1 : Tail(q)[i] = q[i + 1]
OBVIOUS

-----------------------------------------------------------------------------
(* Type correctness.                                                       *)

LEMMA LatchStep == latched \in BOOLEAN /\ [Next]_vars => latched' \in BOOLEAN
BY Zenon DEF Next, vars, Period, Crash, Restart, PublishHeartbeat, RuntimeStep,
   HandleHeartbeat, CheckTimeouts, HandleRequest, HandleResponse

THEOREM TypeCorrect == Spec => []TypeOK
<1>1. Init => TypeOK
  <2>1. ASSUME Init PROVE latched \in BOOLEAN
    BY <2>1, Zenon DEF Init
  <2>2. ASSUME Init PROVE TypeOK
    <3>1. /\ last \in [Nodes -> Ages \cup {Never}] /\ table \in [Nodes -> Ages \cup {Never}]
          /\ alive \subseteq Nodes /\ lost \subseteq Nodes /\ due \subseteq alive \cup {Check}
      BY <2>2 DEF Init
    <3>2. topic \in Seq(Heartbeats) /\ Len(topic) <= Depth
      BY <2>2, BoundsAssumption DEF Init
    <3>3. requests \in Nat /\ responses \in Nat /\ requests + responses <= MaxCalls
      BY <2>2, BoundsAssumption DEF Init
    <3>4. QED
      BY <2>1, <2>2, <3>1, <3>2, <3>3 DEF TypeOK
  <2>3. QED
    BY <2>2
<1>2. TypeOK /\ [Next]_vars => TypeOK'
  <2> SUFFICES ASSUME TypeOK, [Next]_vars PROVE TypeOK'
    OBVIOUS
  <2>0. latched' \in BOOLEAN /\ Depth \in Nat \ {0} /\ MaxCalls \in Nat \ {0}
    BY LatchStep, BoundsAssumption DEF TypeOK
  <2>c. requests \in Nat /\ responses \in Nat /\ requests + responses <= MaxCalls
    BY DEF TypeOK
  <2>d. MaxCalls \in Nat
    BY BoundsAssumption
  <2>1. CASE Period
    <3>1. topic' \in Seq(Heartbeats) /\ Len(topic') <= Depth
      <4>1. topic \in Seq(Heartbeats) /\ Len(topic) \in Nat /\ DOMAIN topic = 1 .. Len(topic)
        BY DEF TypeOK
      <4>2. \A i \in DOMAIN topic :
              [node |-> topic[i].node, age |-> Older(topic[i].age)] \in Heartbeats
        <5>1. \A i \in DOMAIN topic : topic[i].node \in Nodes /\ topic[i].age \in Ages
          <6>1. \A i \in DOMAIN topic : topic[i] \in Heartbeats
            BY <4>1
          <6>2. QED
            BY <6>1 DEF Heartbeats
        <5>2. QED
          BY <5>1, OlderType DEF Heartbeats
      <4>3. topic' = [i \in 1 .. Len(topic) |-> [node |-> topic[i].node, age |-> Older(topic[i].age)]]
        BY <2>1, <4>1 DEF Period
      <4>4. topic' \in Seq(Heartbeats) /\ Len(topic') = Len(topic)
        <5>1. topic' \in [1 .. Len(topic) -> Heartbeats]
          BY <4>1, <4>2, <4>3
        <5>2. QED
          BY <4>1, <5>1, FunctionIsSequence
      <4>5. QED
        BY <4>4 DEF TypeOK
    <3>2. last' \in [Nodes -> Ages \cup {Never}] /\ table' \in [Nodes -> Ages \cup {Never}]
      BY <2>1, OlderType DEF Period, TypeOK
    <3>3. UNCHANGED <<alive, lost, requests, responses>> /\ due' = alive \cup {Check}
      BY <2>1 DEF Period, calls
    <3>4. QED
      BY <2>0, <3>1, <3>2, <3>3 DEF TypeOK
  <2>2. ASSUME NEW n \in Nodes, Crash(n) PROVE TypeOK'
    <3>1. UNCHANGED <<last, lost, topic, table, responses>>
          /\ alive' = alive \ {n} /\ due' = due \ {n} /\ (requests' = 0 \/ requests' = requests)
      BY <2>2 DEF Crash
    <3>2. n # Check \/ due' \subseteq alive' \cup {Check}
      BY <3>1 DEF TypeOK
    <3>3. due' \subseteq alive' \cup {Check}
      BY <3>1, <3>2 DEF TypeOK
    <3>4. requests' \in Nat /\ responses' \in Nat /\ requests' + responses' <= MaxCalls
      BY <2>c, <2>d, <3>1
    <3>5. alive' \subseteq Nodes
      BY <3>1 DEF TypeOK
    <3>6. QED
      BY <2>0, <3>1, <3>3, <3>4, <3>5 DEF TypeOK
  <2>3. ASSUME NEW n \in Nodes, Restart(n) PROVE TypeOK'
    BY <2>0, <2>3 DEF Restart, TypeOK, calls
  <2>4. ASSUME NEW n \in Nodes, PublishHeartbeat(n) PROVE TypeOK'
    <3>1. topic' \in Seq(Heartbeats) /\ Len(topic') <= Depth
      BY <2>4, AppendKept, BeatType DEF PublishHeartbeat, TypeOK
    <3>2. last' \in [Nodes -> Ages \cup {Never}]
      BY <2>4, BoundsAssumption DEF PublishHeartbeat, TypeOK, Ages, Old
    <3>3. /\ UNCHANGED <<alive, table, requests, responses>>
          /\ due' = due \ {n} /\ lost' \subseteq lost \cup Nodes
      BY <2>4 DEF PublishHeartbeat, calls
    <3>4. QED
      BY <2>0, <3>1, <3>2, <3>3 DEF TypeOK
  <2>5. CASE RuntimeStep
    BY <2>0, <2>5 DEF RuntimeStep, TypeOK, publishers, calls
  <2>6. CASE HandleHeartbeat
    <3>1. topic' \in Seq(Heartbeats) /\ Len(topic') <= Depth /\ Head(topic) \in Heartbeats
      <4>1. topic \in Seq(Heartbeats) /\ Len(topic) <= Depth /\ topic # <<>> /\ topic' = Tail(topic)
        BY <2>6 DEF HandleHeartbeat, TypeOK
      <4>2. QED
        BY <2>0, <4>1, TailOf
    <3>2. table' \in [Nodes -> Ages \cup {Never}]
      BY <2>6, <3>1 DEF HandleHeartbeat, Recorded, TypeOK, Heartbeats
    <3>3. UNCHANGED <<alive, last, lost, requests, responses, due>>
      BY <2>6 DEF HandleHeartbeat, publishers, calls
    <3>4. QED
      BY <2>0, <3>1, <3>2, <3>3 DEF TypeOK
  <2>7. CASE CheckTimeouts
    <3>1. UNCHANGED <<alive, last, lost, topic, table, responses>> /\ due' = due \ {Check}
          /\ requests + responses < MaxCalls /\ (requests' = requests \/ requests' = requests + 1)
      BY <2>7 DEF CheckTimeouts, publishers
    <3>2. requests' \in Nat /\ responses' \in Nat /\ requests' + responses' <= MaxCalls
      BY <2>c, <2>d, <3>1
    <3>3. due' \subseteq alive' \cup {Check}
      BY <3>1 DEF TypeOK
    <3>4. QED
      BY <2>0, <3>1, <3>2, <3>3 DEF TypeOK
  <2>8. CASE HandleRequest
    BY <2>0, <2>8 DEF HandleRequest, TypeOK, publishers
  <2>9. CASE HandleResponse
    BY <2>0, <2>9 DEF HandleResponse, TypeOK, publishers
  <2>10. CASE UNCHANGED vars
    BY <2>0, <2>10 DEF vars, TypeOK
  <2>11. QED
    BY <2>1, <2>2, <2>3, <2>4, <2>5, <2>6, <2>7, <2>8, <2>9, <2>10 DEF Next
<1>3. QED
  BY <1>1, <1>2, PTL DEF Spec

-----------------------------------------------------------------------------
(* The table and the topic together hold the last heartbeat of every node. *)

\* The youngest queued heartbeat of a node is the last it published.
Youngest(i, q) == \A j \in DOMAIN q : j > i => q[j].node # q[i].node
NewestQueued == \A i \in DOMAIN topic : Youngest(i, topic) => topic[i].age = last[topic[i].node]

RecordInv == NewestQueued /\ RecordExplained

(* Publishing: the new heartbeat is the youngest of its node, every other  *)
(* youngest one was youngest before, and what is no longer queued is lost. *)
LEMMA PublishKeeps ==
  ASSUME TypeOK, RecordInv, NEW n \in Nodes, PublishHeartbeat(n)
  PROVE  RecordInv'
<1>1. /\ last' = [last EXCEPT ![n] = 0] /\ last \in [Nodes -> Ages \cup {Never}]
      /\ lost' = (lost \ {n}) \cup {m \in Nodes : Queued(m, topic) /\ ~Queued(m, topic')}
      /\ table' = table
      /\ topic' = Kept(Append(topic, Beat(n)))
      /\ topic \in Seq(Heartbeats) /\ Len(topic) <= Depth
  BY DEF PublishHeartbeat, TypeOK
<1> DEFINE s == Shift(topic)
<1>2. /\ topic' \in Seq(Heartbeats)
      /\ Len(topic') = Len(topic) + 1 - s
      /\ topic'[Len(topic')] = Beat(n)
      /\ \A i \in 1 .. Len(topic') - 1 : topic'[i] = topic[i + s]
  BY <1>1, AppendKept, BeatType
<1>3. /\ s \in {0, 1} /\ Len(topic) \in Nat /\ Len(topic') \in Nat \ {0}
      /\ DOMAIN topic = 1 .. Len(topic) /\ DOMAIN topic' = 1 .. Len(topic')
  BY <1>1, <1>2, BoundsAssumption DEF Shift
<1> HIDE DEF s
<1>4. Queued(n, topic')
  BY <1>2, <1>3, BeatType DEF Queued
<1>5. NewestQueued'
  <2> SUFFICES ASSUME NEW i \in 1 .. Len(topic'), Youngest(i, topic')
               PROVE  topic'[i].age = last'[topic'[i].node]
    BY <1>3 DEF NewestQueued
  <2>1. CASE i = Len(topic')
    BY <1>1, <1>2, <2>1, BeatType
  <2>2. CASE i # Len(topic')
    <3>1. i \in 1 .. Len(topic') - 1 /\ i + s \in 1 .. Len(topic)
      BY <1>2, <1>3, <2>2
    <3>2. topic'[i] = topic[i + s] /\ topic[i + s] \in Heartbeats
      BY <1>1, <1>2, <3>1
    <3>3. topic'[i].node # n
      BY <1>2, <1>3, <2>2, <3>1, BeatType DEF Youngest
    <3>4. Youngest(i + s, topic)
      <4> SUFFICES ASSUME NEW j \in 1 .. Len(topic), j > i + s
                   PROVE  topic[j].node # topic[i + s].node
        BY <1>3 DEF Youngest
      <4>1. j - s \in 1 .. Len(topic') - 1 /\ j - s > i /\ (j - s) + s = j
        BY <1>2, <1>3, <3>1
      <4>2. topic'[j - s] = topic[j]
        BY <1>2, <4>1
      <4>3. j - s \in DOMAIN topic'
        BY <1>3, <4>1
      <4>4. topic'[j - s].node # topic'[i].node
        BY <4>1, <4>3 DEF Youngest
      <4>5. QED
        BY <3>2, <4>2, <4>4
    <3>5. topic[i + s].age = last[topic[i + s].node]
      BY <1>3, <3>1, <3>4 DEF RecordInv, NewestQueued
    <3>6. topic[i + s].node \in Nodes
      BY <3>2 DEF Heartbeats
    <3>7. QED
      BY <1>1, <3>2, <3>3, <3>5, <3>6
  <2>3. QED
    BY <2>1, <2>2
<1>6. RecordExplained'
  <2> SUFFICES ASSUME NEW m \in Nodes, m # n
               PROVE  table'[m] = last'[m] \/ Queued(m, topic') \/ m \in lost'
    BY <1>4 DEF RecordExplained
  <2>1. table[m] = last[m] \/ Queued(m, topic) \/ m \in lost
    BY DEF RecordInv, RecordExplained
  <2>2. QED
    BY <1>1, <2>1
<1>7. QED
  BY <1>5, <1>6 DEF RecordInv

(* Handling: the record becomes the youngest heartbeat of its node, or a   *)
(* younger one is still queued.                                            *)
LEMMA HandleKeeps ==
  ASSUME TypeOK, RecordInv, HandleHeartbeat
  PROVE  RecordInv'
<1>1. /\ topic # <<>> /\ topic' = Tail(topic) /\ topic \in Seq(Heartbeats)
      /\ table' = [table EXCEPT ![Head(topic).node] = Head(topic).age]
      /\ table \in [Nodes -> Ages \cup {Never}]
      /\ UNCHANGED <<last, lost>>
  BY DEF HandleHeartbeat, Recorded, TypeOK, publishers
<1>2. /\ Len(topic') = Len(topic) - 1 /\ Len(topic) \in Nat \ {0}
      /\ Head(topic) = topic[1] /\ topic[1] \in Heartbeats
      /\ \A i \in 1 .. Len(topic) - 1 : topic'[i] = topic[i + 1]
      /\ DOMAIN topic = 1 .. Len(topic) /\ DOMAIN topic' = 1 .. Len(topic) - 1
  BY <1>1, TailOf
<1>3. NewestQueued'
  <2> SUFFICES ASSUME NEW i \in 1 .. Len(topic) - 1, Youngest(i, topic')
               PROVE  topic'[i].age = last[topic'[i].node]
    BY <1>1, <1>2 DEF NewestQueued
  <2>1. topic'[i] = topic[i + 1] /\ i + 1 \in DOMAIN topic
    BY <1>2
  <2>2. Youngest(i + 1, topic)
    <3> SUFFICES ASSUME NEW j \in 1 .. Len(topic), j > i + 1
                 PROVE  topic[j].node # topic[i + 1].node
      BY <1>2 DEF Youngest
    <3>1. j - 1 \in 1 .. Len(topic) - 1 /\ j - 1 > i /\ (j - 1) + 1 = j
      BY <1>2
    <3>2. topic'[j - 1] = topic[j]
      BY <1>2, <3>1
    <3>3. topic'[j - 1].node # topic'[i].node
      BY <1>2, <3>1 DEF Youngest
    <3>4. QED
      BY <2>1, <3>2, <3>3
  <2>3. QED
    BY <2>1, <2>2 DEF RecordInv, NewestQueued
<1>4. ASSUME NEW m \in Nodes, Queued(m, topic), m # topic[1].node
      PROVE  Queued(m, topic')
  <2>1. PICK i \in 1 .. Len(topic) : topic[i].node = m
    BY <1>2, <1>4 DEF Queued
  <2>2. i - 1 \in 1 .. Len(topic) - 1 /\ (i - 1) + 1 = i
    BY <1>2, <1>4, <2>1
  <2>3. QED
    BY <1>2, <2>1, <2>2 DEF Queued
<1>5. \/ topic[1].age = last[topic[1].node]
      \/ Queued(topic[1].node, topic')
  <2>1. CASE Youngest(1, topic)
    BY <1>2, <2>1 DEF RecordInv, NewestQueued
  <2>2. CASE ~Youngest(1, topic)
    <3>1. PICK j \in 1 .. Len(topic) : j > 1 /\ topic[j].node = topic[1].node
      BY <1>2, <2>2 DEF Youngest
    <3>2. j - 1 \in 1 .. Len(topic) - 1 /\ (j - 1) + 1 = j
      BY <1>2, <3>1
    <3>3. QED
      BY <1>2, <3>1, <3>2 DEF Queued
  <2>3. QED
    BY <2>1, <2>2
<1>6. RecordExplained'
  <2> SUFFICES ASSUME NEW m \in Nodes
               PROVE  table'[m] = last[m] \/ Queued(m, topic') \/ m \in lost
    BY <1>1 DEF RecordExplained
  <2>1. CASE m = topic[1].node
    BY <1>1, <1>2, <1>5, <2>1
  <2>2. CASE m # topic[1].node
    <3>1. table'[m] = table[m]
      BY <1>1, <1>2, <2>2
    <3>2. table[m] = last[m] \/ Queued(m, topic) \/ m \in lost
      BY DEF RecordInv, RecordExplained
    <3>3. QED
      BY <1>4, <2>2, <3>1, <3>2
  <2>3. QED
    BY <2>1, <2>2
<1>7. QED
  BY <1>3, <1>6 DEF RecordInv

(* A period ages the record, the queue and the truth alike.                *)
LEMMA PeriodKeeps ==
  ASSUME TypeOK, RecordInv, Period
  PROVE  RecordInv'
<1>1. /\ last' = [n \in Nodes |-> Older(last[n])]
      /\ table' = [n \in Nodes |-> Older(table[n])]
      /\ topic' = [i \in DOMAIN topic |-> [node |-> topic[i].node, age |-> Older(topic[i].age)]]
      /\ lost' = lost
      /\ topic \in Seq(Heartbeats)
  BY DEF Period, TypeOK
<1>2. DOMAIN topic' = DOMAIN topic
  BY <1>1
<1>3. \A i \in DOMAIN topic : /\ topic'[i].node = topic[i].node
                              /\ topic'[i].age = Older(topic[i].age)
                              /\ topic[i].node \in Nodes
  <2>1. \A i \in DOMAIN topic : topic[i] \in Heartbeats
    BY <1>1
  <2>2. QED
    BY <1>1, <2>1 DEF Heartbeats
<1>4. NewestQueued'
  <2> SUFFICES ASSUME NEW i \in DOMAIN topic, Youngest(i, topic')
               PROVE  topic'[i].age = last'[topic'[i].node]
    BY <1>2 DEF NewestQueued
  <2>1. Youngest(i, topic)
    BY <1>2, <1>3 DEF Youngest
  <2>2. topic[i].age = last[topic[i].node]
    BY <2>1 DEF RecordInv, NewestQueued
  <2>3. QED
    BY <1>1, <1>3, <2>2
<1>5. \A m \in Nodes : Queued(m, topic) => Queued(m, topic')
  BY <1>2, <1>3 DEF Queued
<1>6. RecordExplained'
  BY <1>1, <1>5 DEF RecordInv, RecordExplained
<1>7. QED
  BY <1>4, <1>6 DEF RecordInv

(* The table is behind a node only for a queued or a dropped heartbeat.    *)
THEOREM RecordsAreExplained == Spec => []RecordExplained
<1>1. Init => RecordInv
  <2> SUFFICES ASSUME Init PROVE RecordInv
    OBVIOUS
  <2>1. topic = <<>> /\ last = [n \in Nodes |-> Never] /\ table = [n \in Nodes |-> Never]
    BY DEF Init
  <2>2. DOMAIN topic = {}
    BY <2>1
  <2>3. QED
    BY <2>1, <2>2 DEF RecordInv, NewestQueued, RecordExplained
<1>2. TypeOK /\ RecordInv /\ [Next]_vars => RecordInv'
  <2> SUFFICES ASSUME TypeOK, RecordInv, [Next]_vars PROVE RecordInv'
    OBVIOUS
  <2>1. CASE UNCHANGED <<last, lost, topic, table>>
    BY <2>1 DEF RecordInv, NewestQueued, RecordExplained
  <2>2. \/ UNCHANGED <<last, lost, topic, table>>
        \/ Period \/ HandleHeartbeat \/ \E n \in Nodes : PublishHeartbeat(n)
    BY Zenon DEF Next, vars, publishers, Crash, Restart, RuntimeStep, CheckTimeouts,
       HandleRequest, HandleResponse
  <2>3. QED
    BY <2>1, <2>2, PeriodKeeps, HandleKeeps, PublishKeeps
<1>3. QED
  BY <1>1, <1>2, TypeCorrect, PTL DEF Spec, RecordInv

(* A call is made only for a node silent past the limit, or one whose      *)
(* heartbeat is queued or was dropped.                                     *)
THEOREM NoAlarmIsFalse == Spec => NoFalseAlarm
<1> DEFINE Step == requests' > requests =>
                     \E n \in Nodes : last[n] = Old \/ Queued(n, topic) \/ n \in lost
<1>1. TypeOK /\ RecordExplained /\ [Next]_vars => Step
  <2> SUFFICES ASSUME TypeOK, RecordExplained, [Next]_vars, requests' > requests
               PROVE  \E n \in Nodes : last[n] = Old \/ Queued(n, topic) \/ n \in lost
    OBVIOUS
  <2>1. requests \in Nat
    BY DEF TypeOK
  <2>2. CheckTimeouts \/ requests' = requests \/ requests' = 0 \/ requests' = requests - 1
    BY Zenon DEF Next, vars, calls, publishers, Period, Crash, Restart, RuntimeStep,
       PublishHeartbeat, HandleHeartbeat, HandleRequest, HandleResponse
  <2>3. CheckTimeouts
    BY <2>1, <2>2
  <2>4. AnyTimeout
    BY <2>1, <2>3 DEF CheckTimeouts
  <2>5. PICK n \in Nodes : table[n] > Limit
    BY <2>4 DEF AnyTimeout, TimedOut
  <2>6. table[n] \in Ages \cup {Never}
    BY DEF TypeOK
  <2>7. table[n] = Old
    BY <2>5, <2>6, BoundsAssumption DEF Ages, Old, Never
  <2>8. QED
    BY <2>7 DEF RecordExplained
<1>2. QED
  BY <1>1, TypeCorrect, RecordsAreExplained, PTL DEF Spec, NoFalseAlarm

-----------------------------------------------------------------------------
(* Hexadecimal digits.                                                     *)

Bytes == 0 .. 255
Characters == Digits \cup {Junk}
Ids == 0 .. 2047
Counts == 0 .. 8

(* The value of a text of up to three digits.                              *)
LEMMA ValueIs ==
  ASSUME NEW text \in Seq(Int), Len(text) \in 1 .. 3
  PROVE  /\ Len(text) = 1 => HexValue(text) = text[1]
         /\ Len(text) = 2 => HexValue(text) = 16 * text[1] + text[2]
         /\ Len(text) = 3 => HexValue(text) = 256 * text[1] + 16 * text[2] + text[3]
<1> DEFINE G(g) == [n \in 0 .. Len(text) |-> IF n = 0 THEN 0 ELSE 16 * g[n - 1] + text[n]]
           one == text[1]
           two == 16 * one + text[2]
           three == 16 * two + text[3]
           f == [n \in 0 .. Len(text) |->
                   IF n = 0 THEN 0 ELSE IF n = 1 THEN one ELSE IF n = 2 THEN two ELSE three]
           v == CHOOSE g : g = G(g)
<1>1. \A i \in 1 .. Len(text) : text[i] \in Int
  OBVIOUS
<1>2. f = G(f)
  <2>1. ASSUME NEW n \in 0 .. Len(text) PROVE f[n] = G(f)[n]
    <3>1. CASE n = 0
      BY <3>1
    <3>2. CASE n = 1
      BY <1>1, <3>2
    <3>3. CASE n = 2
      BY <1>1, <3>3
    <3>4. CASE n = 3
      BY <1>1, <3>4
    <3>5. QED
      BY <3>1, <3>2, <3>3, <3>4
  <2>2. QED
    BY <2>1
<1>3. v = G(v)
  <2> HIDE DEF f, G
  <2>1. QED
    BY <1>2
<1>4. HexValue(text) = v[Len(text)]
  BY DEF HexValue
<1> HIDE DEF v
<1>5. \A n \in 1 .. Len(text) : v[n] = 16 * v[n - 1] + text[n]
  <2>1. TAKE n \in 1 .. Len(text)
  <2>2. n \in 0 .. Len(text) /\ n # 0
    OBVIOUS
  <2>3. QED
    BY <1>3, <2>2
<1>6. v[0] = 0
  <2>1. 0 \in 0 .. Len(text)
    OBVIOUS
  <2>2. QED
    BY <1>3, <2>1
<1>7. Len(text) >= 1 => v[1] = text[1]
  BY <1>1, <1>5, <1>6
<1>8. Len(text) >= 2 => v[2] = 16 * text[1] + text[2]
  BY <1>1, <1>5, <1>7
<1>9. Len(text) >= 3 => v[3] = 256 * text[1] + 16 * text[2] + text[3]
  BY <1>1, <1>5, <1>8
<1>10. CASE Len(text) = 1
  BY <1>4, <1>7, <1>10
<1>11. CASE Len(text) = 2
  BY <1>4, <1>8, <1>11
<1>12. CASE Len(text) = 3
  BY <1>4, <1>9, <1>12
<1>13. QED
  BY <1>10, <1>11, <1>12

(* Reading ends before the first character that is no digit.               *)
LEMMA PrefixIs ==
  ASSUME NEW text \in Seq(Characters), NEW n \in 0 .. Len(text),
         \A i \in 1 .. n : text[i] # Junk, n < Len(text) => text[n + 1] = Junk
  PROVE  HexPrefix(text) = SubSeq(text, 1, n)
<1> DEFINE End(m) == (\A i \in 1 .. m : text[i] # Junk) /\ (m < Len(text) => text[m + 1] = Junk)
           end == CHOOSE m \in 0 .. Len(text) : End(m)
<1>1. end \in 0 .. Len(text) /\ End(end)
  <2>1. End(n)
    OBVIOUS
  <2>2. QED
    BY <2>1
<1>2. end = n
  <2> HIDE DEF end
  <2>1. ~ (end < n)
    <3>1. end < n => end + 1 \in 1 .. n
      BY <1>1
    <3>2. QED
      BY <1>1, <3>1
  <2>2. ~ (n < end)
    <3>1. n < end => n + 1 \in 1 .. end
      BY <1>1
    <3>2. QED
      BY <1>1, <3>1
  <2>3. QED
    BY <1>1, <2>1, <2>2
<1>3. QED
  BY <1>2 DEF HexPrefix

LEMMA NotEmpty ==
  ASSUME NEW s, Len(s) # 0
  PROVE  s # <<>>
<1>1. Len(<<>>) = 0
  OBVIOUS
<1>2. QED
  BY <1>1

(* Digits are numbers and characters.                                      *)
LEMMA DigitsAre ==
  ASSUME NEW t \in Seq(Characters)
  PROVE  t \in Seq(Int)
<1>1. Characters \subseteq Int
  BY DEF Characters, Digits, Junk
<1>2. QED
  BY <1>1, SeqMonotonic

(* A number of three digits and a byte, there and back.                    *)
LEMMA IdSurvives ==
  ASSUME NEW id \in Ids
  PROVE  ~ Fails(HexId(id)) /\ ReadHex(HexId(id)) = id /\ HexValue(HexId(id)) = id
<1> DEFINE a == id \div 256
           b == (id \div 16) % 16
           c == id % 16
           t == <<a, b, c>>
<1>1. a \in Digits /\ b \in Digits /\ c \in Digits /\ 256 * a + 16 * b + c = id
  BY DEF Digits, Ids
<1>2. HexId(id) = t
  BY DEF HexId
<1> HIDE DEF a, b, c
<1>3. t \in Seq(Characters) /\ Len(t) = 3 /\ t[1] = a /\ t[2] = b /\ t[3] = c
  BY <1>1 DEF Characters
<1>4. a # Junk /\ b # Junk /\ c # Junk
  BY <1>1 DEF Digits, Junk
<1> HIDE DEF t
<1>5. \A i \in 1 .. 3 : t[i] # Junk
  <2>1. \A i \in 1 .. 3 : i = 1 \/ i = 2 \/ i = 3
    OBVIOUS
  <2>2. QED
    BY <1>3, <1>4, <2>1
<1>6. HexPrefix(t) = SubSeq(t, 1, 3)
  <2>1. 3 \in 0 .. Len(t) /\ ~ (3 < Len(t))
    BY <1>3
  <2>2. QED
    BY <1>3, <1>5, <2>1, PrefixIs
<1>7. SubSeq(t, 1, 3) = t
  BY <1>3, SubSeqFull
<1>8. HexValue(t) = id
  <2>1. HexValue(t) = 256 * t[1] + 16 * t[2] + t[3]
    BY <1>3, DigitsAre, ValueIs
  <2>2. QED
    BY <1>1, <1>3, <2>1 DEF Digits
<1>9. t # <<>>
  <2>1. Len(t) # 0
    BY <1>3
  <2>2. QED
    BY <2>1, NotEmpty
<1>10. QED
  BY <1>2, <1>6, <1>7, <1>8, <1>9 DEF Fails, ReadHex

LEMMA ByteSurvives ==
  ASSUME NEW text \in Seq(Characters), Len(text) = 2,
         NEW b \in Bytes, text[1] = b \div 16, text[2] = b % 16
  PROVE  ~ Fails(text) /\ ReadHex(text) = b
<1>1. text[1] # Junk /\ text[2] # Junk /\ text[1] \in Int /\ text[2] \in Int
  BY DEF Junk, Bytes
<1>2. HexPrefix(text) = SubSeq(text, 1, 2)
  BY <1>1, PrefixIs
<1>3. SubSeq(text, 1, 2) = text /\ text # <<>>
  OBVIOUS
<1>4. HexValue(text) = 16 * text[1] + text[2]
  BY DigitsAre, ValueIs
<1>5. b \in Int
  BY DEF Bytes
<1>6. HexValue(text) = b
  BY <1>4, <1>5
<1>7. QED
  BY <1>2, <1>3, <1>6 DEF Fails, ReadHex

-----------------------------------------------------------------------------
(* Lines.                                                                  *)

(* The digits of a payload.                                                *)
LEMMA PayloadIs ==
  ASSUME NEW id, NEW data \in Seq(Bytes)
  PROVE  LET line == FormatCandumpLine(Frame(id, data)) IN
         /\ line = [id |-> HexId(id), payload |-> line.payload]
         /\ line.payload \in Seq(Digits) /\ Len(line.payload) = 2 * Len(data)
         /\ \A i \in 1 .. Len(data) : /\ line.payload[2 * i - 1] = data[i] \div 16
                                      /\ line.payload[2 * i] = data[i] % 16
<1> DEFINE n == Len(data)
           pay == [k \in 1 .. 2 * n |-> HexByte(data[(k + 1) \div 2])[2 - (k % 2)]]
<1>1. FormatCandumpLine(Frame(id, data)) = [id |-> HexId(id), payload |-> pay]
  BY DEF FormatCandumpLine, Frame
<1>2. ASSUME NEW k \in 1 .. 2 * n PROVE pay[k] \in Digits
  <2>1. (k + 1) \div 2 \in 1 .. n /\ k % 2 \in {0, 1}
    OBVIOUS
  <2>2. data[(k + 1) \div 2] \in Bytes
    BY <2>1
  <2>3. ASSUME NEW b \in Bytes, NEW j \in {1, 2} PROVE HexByte(b)[j] \in Digits
    <3>1. b \div 16 \in 0 .. 15 /\ b % 16 \in 0 .. 15
      BY DEF Bytes
    <3>2. HexByte(b)[1] = b \div 16 /\ HexByte(b)[2] = b % 16
      BY DEF HexByte
    <3>3. QED
      BY <3>1, <3>2 DEF Digits
  <2>4. QED
    BY <2>1, <2>2, <2>3
<1>3. pay \in [1 .. 2 * n -> Digits] /\ 2 * n \in Nat
  BY <1>2
<1>4. pay \in Seq(Digits) /\ Len(pay) = 2 * n
  BY <1>3, FunctionIsSequence
<1>5. ASSUME NEW i \in 1 .. n
      PROVE  pay[2 * i - 1] = data[i] \div 16 /\ pay[2 * i] = data[i] % 16
  <2>1. /\ (2 * i - 1) % 2 = 1 /\ (2 * i) % 2 = 0
        /\ (2 * i - 1 + 1) \div 2 = i /\ (2 * i + 1) \div 2 = i
        /\ 2 * i - 1 \in 1 .. 2 * n /\ 2 * i \in 1 .. 2 * n
    OBVIOUS
  <2>2. pay[2 * i - 1] = HexByte(data[i])[1] /\ pay[2 * i] = HexByte(data[i])[2]
    BY <2>1
  <2>3. QED
    BY <2>2 DEF HexByte
<1>6. QED
  <2>1. FormatCandumpLine(Frame(id, data)).payload = pay
    BY <1>1
  <2> HIDE DEF pay
  <2>2. QED
    BY <1>1, <1>4, <1>5, <2>1

(* What is read from a line, when each of its bytes can be read.           *)
LEMMA ParseIs ==
  ASSUME NEW line, NEW n \in Counts, Len(line.payload) = 2 * n,
         NEW id \in Ids, ~ Fails(line.id), ReadHex(line.id) = id,
         NEW data \in Seq(Bytes), Len(data) = n,
         \A i \in 1 .. n : ~ Fails(Pair(line, i)) /\ ReadHex(Pair(line, i)) = data[i]
  PROVE  ParseCandumpLine(line) = Frame(id, data)
<1>1. (2 * n) \div 2 = n /\ (2 * n) % 2 = 0 /\ ~ (2 * n > 16) /\ ~ (id > 2047)
  BY DEF Counts, Ids
<1>2. [i \in 1 .. n |-> ReadHex(Pair(line, i))] = data
  <2>1. data = [i \in 1 .. n |-> data[i]]
    OBVIOUS
  <2>2. QED
    BY <2>1
<1>3. QED
  BY <1>1, <1>2 DEF ParseCandumpLine

(* The bytes of a payload.                                                 *)
LEMMA PairIs ==
  ASSUME NEW line, line.payload \in Seq(Characters),
         NEW n \in Nat, Len(line.payload) = 2 * n, NEW i \in 1 .. n
  PROVE  /\ Pair(line, i) \in Seq(Characters) /\ Len(Pair(line, i)) = 2
         /\ Pair(line, i)[1] = line.payload[2 * i - 1] /\ Pair(line, i)[2] = line.payload[2 * i]
<1> DEFINE p == line.payload
           pair == SubSeq(p, 2 * i - 1, 2 * i)
<1>1. Pair(line, i) = pair
  BY DEF Pair
<1>2. p \in Seq(Characters) /\ Len(p) = 2 * n
  OBVIOUS
<1> HIDE DEF p
<1>3. 2 * i - 1 \in 1 .. Len(p) /\ 2 * i \in 1 .. Len(p)
  BY <1>2
<1>4. pair \in Seq(Characters) /\ Len(pair) = 2 /\ pair[1] = p[2 * i - 1] /\ pair[2] = p[2 * i]
  BY <1>2, <1>3
<1>5. QED
  BY <1>1, <1>4, Zenon DEF p

(* A frame survives being written as text and read back: any 11-bit id,    *)
(* any bytes, up to eight of them.                                         *)
LEMMA FrameSurvives ==
  ASSUME NEW id \in Ids, NEW data \in Seq(Bytes), Len(data) \in Counts
  PROVE  ParseCandumpLine(FormatCandumpLine(Frame(id, data))) = Frame(id, data)
<1> DEFINE line == FormatCandumpLine(Frame(id, data))
           n == Len(data)
<1>1. /\ line = [id |-> HexId(id), payload |-> line.payload]
      /\ line.payload \in Seq(Digits) /\ Len(line.payload) = 2 * n
      /\ \A i \in 1 .. n : /\ line.payload[2 * i - 1] = data[i] \div 16
                           /\ line.payload[2 * i] = data[i] % 16
  BY PayloadIs
<1> HIDE DEF line
<1>2. line.payload \in Seq(Characters) /\ line.id = HexId(id)
  <2>1. Digits \subseteq Characters
    BY DEF Characters
  <2>2. line.payload \in Seq(Characters)
    BY <1>1, <2>1, SeqMonotonic
  <2>3. QED
    BY <1>1, <2>2
<1>3. ASSUME NEW i \in 1 .. n
      PROVE  ~ Fails(Pair(line, i)) /\ ReadHex(Pair(line, i)) = data[i]
  <2>1. /\ Pair(line, i) \in Seq(Characters) /\ Len(Pair(line, i)) = 2
        /\ Pair(line, i)[1] = line.payload[2 * i - 1] /\ Pair(line, i)[2] = line.payload[2 * i]
    <3>1. n \in Nat
      OBVIOUS
    <3>2. QED
      BY <1>1, <1>2, <3>1, PairIs
  <2>2. data[i] \in Bytes
    OBVIOUS
  <2>3. Pair(line, i)[1] = data[i] \div 16 /\ Pair(line, i)[2] = data[i] % 16
    BY <1>1, <2>1
  <2>4. QED
    BY <2>1, <2>2, <2>3, ByteSurvives
<1>4. ~ Fails(line.id) /\ ReadHex(line.id) = id
  BY <1>2, IdSurvives
<1> HIDE DEF n
<1>5. n \in Counts /\ Len(data) = n
  BY DEF n
<1>6. ParseCandumpLine(line) = Frame(id, data)
  BY <1>1, <1>3, <1>4, <1>5, ParseIs
<1>7. QED
  BY <1>6 DEF line

(* Pieces and changes of a payload.                                        *)
LEMMA CutIs ==
  ASSUME NEW S, NEW s \in Seq(S), NEW m \in 0 .. Len(s)
  PROVE  /\ SubSeq(s, 1, m) \in Seq(S) /\ Len(SubSeq(s, 1, m)) = m
         /\ \A j \in 1 .. m : SubSeq(s, 1, m)[j] = s[j]
OBVIOUS

LEMMA ChangeIs ==
  ASSUME NEW S, NEW s \in Seq(S), NEW i \in 1 .. Len(s), NEW e \in S
  PROVE  LET t == [s EXCEPT ![i] = e] IN
         /\ t \in Seq(S) /\ Len(t) = Len(s) /\ t[i] = e
         /\ \A j \in 1 .. Len(s) : j # i => t[j] = s[j]
OBVIOUS

LEMMA NewPayload ==
  ASSUME NEW id, NEW pay, NEW new
  PROVE  [[id |-> id, payload |-> pay] EXCEPT !.payload = new] = [id |-> id, payload |-> new]
OBVIOUS

(* One byte that cannot be read spoils the line.                           *)
LEMMA OneByteFails ==
  ASSUME NEW line, NEW i \in 1 .. Len(line.payload) \div 2, Fails(Pair(line, i))
  PROVE  ParseCandumpLine(line) = Error
<1> DEFINE n == Len(line.payload) \div 2
           long == Len(line.payload) > 16
           odd == Len(line.payload) % 2 # 0
           high == ReadHex(line.id) > 2047
           data == [j \in 1 .. n |-> ReadHex(Pair(line, j))]
<1>1. \E j \in 1 .. n : Fails(Pair(line, j))
  OBVIOUS
<1>2. ParseCandumpLine(line)
        = IF Fails(line.id) \/ high \/ odd \/ long \/ \E j \in 1 .. n : Fails(Pair(line, j))
          THEN Error ELSE Frame(ReadHex(line.id), data)
  BY DEF ParseCandumpLine
<1> HIDE DEF n, long, odd, high, data
<1>3. QED
  BY <1>1, <1>2

(* A byte whose first, or whose second, character is no digit.             *)
LEMMA JunkFirst ==
  ASSUME NEW text \in Seq(Characters), Len(text) = 2, text[1] = Junk
  PROVE  Fails(text)
<1>1. HexPrefix(text) = SubSeq(text, 1, 0)
  BY PrefixIs
<1>2. SubSeq(text, 1, 0) = <<>>
  OBVIOUS
<1>3. QED
  BY <1>1, <1>2 DEF Fails

LEMMA JunkSecond ==
  ASSUME NEW text \in Seq(Characters), Len(text) = 2,
         NEW b \in Bytes, text[1] = b \div 16, text[2] = Junk
  PROVE  ~ Fails(text) /\ ReadHex(text) = b \div 16 /\ b \div 16 \in Bytes
<1> DEFINE one == SubSeq(text, 1, 1)
<1>1. text[1] # Junk /\ b \div 16 \in Bytes
  BY DEF Junk, Bytes
<1>2. HexPrefix(text) = one
  <2>1. 1 \in 0 .. Len(text) /\ text[1 + 1] = Junk /\ \A i \in 1 .. 1 : text[i] # Junk
    BY <1>1
  <2>2. QED
    BY <2>1, PrefixIs
<1>3. one \in Seq(Characters) /\ Len(one) = 1 /\ one[1] = text[1]
  OBVIOUS
<1> HIDE DEF one
<1>4. HexValue(one) = text[1]
  BY <1>3, DigitsAre, ValueIs
<1>5. one # <<>>
  <2>1. Len(one) # 0
    BY <1>3
  <2>2. QED
    BY <2>1, NotEmpty, Zenon
<1>6. QED
  BY <1>1, <1>2, <1>4, <1>5 DEF Fails, ReadHex

(* What the bus makes of a line of five bytes or more is refused, too      *)
(* short, or has the byte with the fault bit that the line had.            *)
LEMMA GarbledParse ==
  ASSUME NEW id \in Ids, NEW n \in Counts, n >= 5, NEW data \in Seq(Bytes), Len(data) = n,
         NEW l \in Garbled(FormatCandumpLine(Frame(id, data)))
  PROVE  /\ l.id = HexId(id)
         /\ LET frame == ParseCandumpLine(l) IN
            \/ frame = Error
            \/ frame.ok /\ frame.id = id /\ TooShort(frame)
            \/ frame.ok /\ frame.id = id /\ ~ TooShort(frame) /\ frame.data[5] = data[5]
<1> DEFINE line == FormatCandumpLine(Frame(id, data))
           frame == ParseCandumpLine(l)
           pay == line.payload
<1>0. n \in 0 .. 8 /\ n \in Nat
  BY DEF Counts
<1>1. /\ line = [id |-> HexId(id), payload |-> pay]
      /\ pay \in Seq(Digits) /\ Len(pay) = 2 * n
      /\ \A i \in 1 .. n : pay[2 * i - 1] = data[i] \div 16 /\ pay[2 * i] = data[i] % 16
  <2>1. LET f == FormatCandumpLine(Frame(id, data)) IN
         /\ f = [id |-> HexId(id), payload |-> f.payload]
         /\ f.payload \in Seq(Digits) /\ Len(f.payload) = 2 * Len(data)
         /\ \A i \in 1 .. Len(data) : /\ f.payload[2 * i - 1] = data[i] \div 16
                                      /\ f.payload[2 * i] = data[i] % 16
    BY PayloadIs
  <2>2. QED
    BY <2>1
<1>4. PICK p : l = [id |-> HexId(id), payload |-> p]
               /\ \/ p = SubSeq(pay, 1, 4) \/ p = SubSeq(pay, 1, Len(pay) - 1)
                  \/ p = [pay EXCEPT ![1] = Junk] \/ p = [pay EXCEPT ![2] = Junk]
  <2> HIDE DEF line
  <2>2. \A new : [line EXCEPT !.payload = new] = [id |-> HexId(id), payload |-> new]
    BY <1>1, NewPayload
  <2>3. \E p \in {SubSeq(pay, 1, 4), SubSeq(pay, 1, Len(pay) - 1),
                  [pay EXCEPT ![1] = Junk], [pay EXCEPT ![2] = Junk]} :
          l = [line EXCEPT !.payload = p]
    BY DEF Garbled, line
  <2>4. QED
    BY <2>2, <2>3
<1> HIDE DEF pay, line
<1>2. pay \in Seq(Characters)
  <2>1. Digits \subseteq Characters
    BY DEF Characters
  <2>2. QED
    BY <1>1, <2>1, SeqMonotonic
<1>3. ~ Fails(HexId(id)) /\ ReadHex(HexId(id)) = id
  BY IdSurvives
<1>5. l.id = HexId(id) /\ l.payload = p
  BY <1>4
<1>6. ASSUME NEW m \in Counts, Len(p) = 2 * m, NEW new \in Seq(Bytes), Len(new) = m,
             \A i \in 1 .. m : ~ Fails(Pair(l, i)) /\ ReadHex(Pair(l, i)) = new[i]
      PROVE  frame = Frame(id, new)
  BY <1>3, <1>5, <1>6, ParseIs
<1>7. ASSUME NEW i \in 1 .. n, Pair(l, i) \in Seq(Characters), Len(Pair(l, i)) = 2,
             Pair(l, i)[1] = pay[2 * i - 1], Pair(l, i)[2] = pay[2 * i]
      PROVE  ~ Fails(Pair(l, i)) /\ ReadHex(Pair(l, i)) = data[i]
  <2>1. data[i] \in Bytes
    BY ElementOfSeq
  <2>2. Pair(l, i)[1] = data[i] \div 16 /\ Pair(l, i)[2] = data[i] % 16
    BY <1>1, <1>7
  <2>3. QED
    BY <1>7, <2>1, <2>2, ByteSurvives
<1>13. ASSUME NEW m \in Nat, p \in Seq(Characters), Len(p) = 2 * m, NEW i \in 1 .. m
       PROVE  /\ Pair(l, i) \in Seq(Characters) /\ Len(Pair(l, i)) = 2
              /\ Pair(l, i)[1] = p[2 * i - 1] /\ Pair(l, i)[2] = p[2 * i]
  BY <1>5, <1>13, PairIs
<1>8. CASE p = SubSeq(pay, 1, 4)
  <2>1. p \in Seq(Characters) /\ Len(p) = 4 /\ \A j \in 1 .. 4 : p[j] = pay[j]
    <3>1. 4 \in 0 .. Len(pay)
      BY <1>0, <1>1
    <3>2. QED
      BY <1>2, <1>8, <3>1, CutIs
  <2>2. ASSUME NEW i \in 1 .. 2 PROVE ~ Fails(Pair(l, i)) /\ ReadHex(Pair(l, i)) = data[i]
    <3>1. /\ Pair(l, i) \in Seq(Characters) /\ Len(Pair(l, i)) = 2
          /\ Pair(l, i)[1] = p[2 * i - 1] /\ Pair(l, i)[2] = p[2 * i]
      <4> DEFINE m == 2
      <4>1. m \in Nat /\ Len(p) = 2 * m /\ i \in 1 .. m
        BY <2>1
      <4> HIDE DEF m
      <4>2. QED
        BY <1>13, <2>1, <4>1
    <3>2. i \in 1 .. n /\ p[2 * i - 1] = pay[2 * i - 1] /\ p[2 * i] = pay[2 * i]
      <4>1. i \in 1 .. n /\ 2 * i - 1 \in 1 .. 4 /\ 2 * i \in 1 .. 4
        BY <1>0
      <4>2. QED
        BY <2>1, <4>1
    <3>3. QED
      BY <1>7, <3>1, <3>2
  <2> DEFINE new == SubSeq(data, 1, 2)
  <2>3. new \in Seq(Bytes) /\ Len(new) = 2 /\ \A i \in 1 .. 2 : new[i] = data[i]
    <3>1. 2 \in 0 .. Len(data)
      BY <1>0
    <3>2. QED
      BY <3>1, CutIs
  <2> HIDE DEF new
  <2>4. frame = Frame(id, new)
    <3> DEFINE m == 2
    <3>1. m \in Counts /\ Len(p) = 2 * m /\ Len(new) = m
      BY <2>1, <2>3 DEF Counts
    <3>2. \A i \in 1 .. m : ~ Fails(Pair(l, i)) /\ ReadHex(Pair(l, i)) = new[i]
      BY <2>2, <2>3
    <3> HIDE DEF m
    <3>3. QED
      BY <1>6, <2>3, <3>1, <3>2
  <2>5. frame.ok /\ frame.id = id /\ Len(frame.data) = 2
    BY <2>3, <2>4 DEF Frame
  <2>6. TooShort(frame)
    BY <2>5 DEF TooShort
  <2>7. QED
    BY <1>5, <2>5, <2>6
<1>9. CASE p = SubSeq(pay, 1, Len(pay) - 1)
  <2>1. Len(p) = 2 * n - 1
    <3>1. Len(pay) - 1 \in 0 .. Len(pay) /\ Len(pay) - 1 = 2 * n - 1
      BY <1>0, <1>1
    <3>2. QED
      BY <1>2, <1>9, <3>1, CutIs
  <2>2. Len(l.payload) % 2 # 0
    BY <1>0, <1>5, <2>1
  <2>3. frame = Error
    BY <2>2 DEF ParseCandumpLine
  <2>4. QED
    BY <1>5, <2>3
<1>10. CASE p = [pay EXCEPT ![1] = Junk]
  <2>1. p \in Seq(Characters) /\ Len(p) = 2 * n /\ p[1] = Junk
    <3>1. Junk \in Characters /\ 1 \in 1 .. Len(pay)
      BY <1>0, <1>1 DEF Characters
    <3>2. QED
      BY <1>1, <1>2, <1>10, <3>1, ChangeIs
  <2>2. Pair(l, 1) \in Seq(Characters) /\ Len(Pair(l, 1)) = 2 /\ Pair(l, 1)[1] = Junk
    <3>1. 1 \in 1 .. n /\ 2 * 1 - 1 = 1
      BY <1>0
    <3>2. QED
      BY <1>0, <1>13, <2>1, <3>1
  <2>3. Fails(Pair(l, 1))
    BY <2>2, JunkFirst
  <2>4. 1 \in 1 .. Len(l.payload) \div 2
    BY <1>0, <1>5, <2>1
  <2>5. frame = Error
    BY <2>3, <2>4, OneByteFails
  <2>6. QED
    BY <1>5, <2>5
<1>11. CASE p = [pay EXCEPT ![2] = Junk]
  <2> DEFINE digit == data[1] \div 16
             new == [data EXCEPT ![1] = digit]
  <2>0. 1 \in 1 .. n /\ 5 \in 1 .. n /\ 2 * 1 - 1 = 1 /\ 2 * 1 = 2
    BY <1>0
  <2>1. p \in Seq(Characters) /\ Len(p) = 2 * n /\ p[2] = Junk
        /\ \A j \in 1 .. 2 * n : j # 2 => p[j] = pay[j]
    <3>1. Junk \in Characters /\ 2 \in 1 .. Len(pay)
      BY <1>0, <1>1 DEF Characters
    <3>2. QED
      BY <1>1, <1>2, <1>11, <3>1, ChangeIs
  <2>2. /\ Pair(l, 1) \in Seq(Characters) /\ Len(Pair(l, 1)) = 2
        /\ Pair(l, 1)[1] = p[1] /\ Pair(l, 1)[2] = p[2]
    BY <1>0, <1>13, <2>0, <2>1
  <2>3. p[1] = digit
    <3>1. 1 \in 1 .. 2 * n
      BY <1>0
    <3>2. QED
      BY <1>1, <2>0, <2>1, <3>1
  <2>4. ~ Fails(Pair(l, 1)) /\ ReadHex(Pair(l, 1)) = digit /\ digit \in Bytes
    <3>1. data[1] \in Bytes
      BY <2>0, ElementOfSeq
    <3>2. QED
      BY <2>1, <2>2, <2>3, <3>1, JunkSecond
  <2>5. new \in Seq(Bytes) /\ Len(new) = n /\ new[1] = digit
        /\ \A i \in 1 .. n : i # 1 => new[i] = data[i]
    BY <2>0, <2>4, ChangeIs
  <2> HIDE DEF new, digit
  <2>6. ASSUME NEW i \in 1 .. n PROVE ~ Fails(Pair(l, i)) /\ ReadHex(Pair(l, i)) = new[i]
    <3>1. CASE i = 1
      BY <2>4, <2>5, <3>1
    <3>2. CASE i # 1
      <4>1. /\ Pair(l, i) \in Seq(Characters) /\ Len(Pair(l, i)) = 2
            /\ Pair(l, i)[1] = p[2 * i - 1] /\ Pair(l, i)[2] = p[2 * i]
        BY <1>0, <1>13, <2>1
      <4>2. /\ 2 * i - 1 \in 1 .. 2 * n /\ 2 * i \in 1 .. 2 * n
            /\ 2 * i - 1 # 2 /\ 2 * i # 2
        BY <1>0, <3>2
      <4>3. p[2 * i - 1] = pay[2 * i - 1] /\ p[2 * i] = pay[2 * i]
        BY <2>1, <4>2
      <4>4. QED
        BY <1>7, <2>5, <3>2, <4>1, <4>3
    <3>3. QED
      BY <3>1, <3>2
  <2>7. frame = Frame(id, new)
    BY <1>6, <2>1, <2>5, <2>6
  <2>8. frame.ok /\ frame.id = id /\ frame.data = new
    BY <2>7 DEF Frame
  <2>9. ~ TooShort(frame)
    BY <1>0, <2>5, <2>8 DEF TooShort
  <2>10. frame.data[5] = data[5]
    BY <2>0, <2>5, <2>8
  <2>11. QED
    BY <1>5, <2>8, <2>9, <2>10
<1>12. QED
  BY <1>4, <1>8, <1>9, <1>10, <1>11

-----------------------------------------------------------------------------
(* Commands and their answers.                                             *)

LEMMA Int16Is ==
  ASSUME NEW p \in Int
  PROVE  LET v == Int16(p) IN
         /\ v \in Int /\ v % 256 \in Bytes /\ (v % 65536) \div 256 \in Bytes
         /\ Int16((v % 256) + 256 * ((v % 65536) \div 256)) = v
<1> DEFINE v == Int16(p)
<1>1. v \in Int /\ -32768 <= v /\ v <= 32767
  <2>1. (p + 32768) % 65536 >= 0 /\ (p + 32768) % 65536 < 65536 /\ (p + 32768) % 65536 \in Int
    OBVIOUS
  <2>2. QED
    BY <2>1 DEF Int16
<1> HIDE DEF v
<1>2. v % 256 \in 0 .. 255
  BY <1>1
<1>3. (v % 65536) \div 256 \in 0 .. 255
  <2> DEFINE u == v % 65536
  <2>1. u \in Int /\ 0 <= u /\ u < 65536
    BY <1>1
  <2> HIDE DEF u
  <2>2. u \div 256 \in Int /\ 0 <= u \div 256 /\ u \div 256 <= 255
    BY <2>1
  <2>3. QED
    BY <2>2 DEF u
<1>4. (v % 256) + 256 * ((v % 65536) \div 256) = v % 65536
  BY <1>1
<1>5. Int16(v % 65536) = v
  <2>1. (((v % 65536) + 32768) % 65536) - 32768 = v
    BY <1>1
  <2>2. QED
    BY <2>1 DEF Int16
<1>6. QED
  BY <1>1, <1>2, <1>3, <1>4, <1>5 DEF v, Bytes

Eight == [1 .. 8 -> Bytes]

(* The bytes of a command with a position and the opposite velocity, and   *)
(* of an answer to it.                                                     *)
Values(p) == CommandFrame(0, p, -p).data
Answered(data, fault) ==
  [data EXCEPT ![5] = IF fault THEN 1 ELSE 0, ![6] = IF fault THEN 7 ELSE 0]
Answer(p, fault) == Answered(Values(p), fault)

LEMMA ValuesAre ==
  ASSUME NEW p \in Int
  PROVE  /\ Values(p) \in Eight
         /\ ReadInt16Le(Values(p), 1) = Int16(p) /\ ReadInt16Le(Values(p), 3) = Int16(-p)
         /\ \A n : CommandFrame(n, p, -p) = Frame(512 + n, Values(p))
<1> DEFINE v == Int16(p)
           w == Int16(-p)
           zero == [i \in 1 .. 8 |-> 0]
           one == WriteInt16Le(zero, 1, v)
           both == WriteInt16Le(one, 3, w)
           all == [both EXCEPT ![5] = 1]
<1>1. -p \in Int
  OBVIOUS
<1>2. /\ v \in Int /\ v % 256 \in Bytes /\ (v % 65536) \div 256 \in Bytes
      /\ Int16((v % 256) + 256 * ((v % 65536) \div 256)) = v
  BY Int16Is
<1>3. /\ w \in Int /\ w % 256 \in Bytes /\ (w % 65536) \div 256 \in Bytes
      /\ Int16((w % 256) + 256 * ((w % 65536) \div 256)) = w
  BY <1>1, Int16Is
<1> HIDE DEF v, w
<1>4. zero \in Eight
  BY DEF Bytes, Eight
<1> HIDE DEF zero
<1>5. one \in Eight /\ one[1] = v % 256 /\ one[2] = (v % 65536) \div 256
  BY <1>2, <1>4 DEF WriteInt16Le, Eight
<1> HIDE DEF one
<1>6. /\ both \in Eight /\ both[1] = v % 256 /\ both[2] = (v % 65536) \div 256
      /\ both[3] = w % 256 /\ both[4] = (w % 65536) \div 256
  BY <1>3, <1>5 DEF WriteInt16Le, Eight
<1> HIDE DEF both
<1>7. /\ all \in Eight /\ all[1] = v % 256 /\ all[2] = (v % 65536) \div 256
      /\ all[3] = w % 256 /\ all[4] = (w % 65536) \div 256
  <2>1. 1 \in Bytes
    BY DEF Bytes
  <2>2. QED
    BY <1>6, <2>1 DEF Eight
<1> HIDE DEF all
<1>8. \A n : CommandFrame(n, p, -p) = Frame(512 + n, all)
  BY DEF CommandFrame, all, both, one, zero, v, w
<1>9. Values(p) = all
  <2>1. CommandFrame(0, p, -p) = Frame(512 + 0, all)
    BY <1>8
  <2>2. Frame(512 + 0, all).data = all
    BY DEF Frame
  <2>3. QED
    BY <2>1, <2>2 DEF Values
<1>10. ReadInt16Le(all, 1) = v /\ ReadInt16Le(all, 3) = w
  BY <1>2, <1>3, <1>7 DEF ReadInt16Le
<1>11. QED
  BY <1>7, <1>8, <1>9, <1>10 DEF v, w

LEMMA AnswerIs ==
  ASSUME NEW p \in Int, NEW fault \in BOOLEAN
  PROVE  /\ Answer(p, fault) \in Eight
         /\ ReadInt16Le(Answer(p, fault), 1) = Int16(p)
         /\ ReadInt16Le(Answer(p, fault), 3) = Int16(-p)
         /\ (Answer(p, fault)[5] % 2 = 1) = fault
<1> DEFINE x == Values(p)
           a == Answer(p, fault)
<1>1. /\ x \in Eight
      /\ ReadInt16Le(x, 1) = Int16(p) /\ ReadInt16Le(x, 3) = Int16(-p)
  BY ValuesAre
<1> HIDE DEF x
<1>2. 0 \in Bytes /\ 1 \in Bytes /\ 7 \in Bytes
  BY DEF Bytes
<1>3. /\ a \in Eight /\ a[5] = (IF fault THEN 1 ELSE 0)
      /\ a[1] = x[1] /\ a[2] = x[2] /\ a[3] = x[3] /\ a[4] = x[4]
  BY <1>1, <1>2 DEF Answer, Answered, x, Eight
<1> HIDE DEF a
<1>4. ReadInt16Le(a, 1) = ReadInt16Le(x, 1) /\ ReadInt16Le(a, 3) = ReadInt16Le(x, 3)
  BY <1>3 DEF ReadInt16Le
<1>5. (a[5] % 2 = 1) = fault
  BY <1>3
<1>6. QED
  BY <1>1, <1>3, <1>4, <1>5 DEF a

-----------------------------------------------------------------------------
(* What is on the bus: commands, answers, and what it has made of answers. *)

Sent(n, p, fault) ==
  [ok |-> TRUE, node |-> n, position |-> Int16(p), velocity |-> Int16(-p), fault |-> fault]

Command(n, p) ==
  [line |-> FormatCandumpLine(CommandFrame(n, p, -p)), sent |-> Sent(n, p, FALSE)]

Status(n, p, fault) ==
  [line |-> FormatCandumpLine(Frame(384 + n, Answer(p, fault))), sent |-> Sent(n, p, fault)]

Changed(e, l) == [line |-> l, sent |-> [e.sent EXCEPT !.ok = FALSE]]

CommandEntries == {Command(n, p) : n \in NodeIds, p \in Positions}
StatusEntries == {Status(n, p, fault) : n \in NodeIds, p \in Positions, fault \in BOOLEAN}
GarbledEntries == UNION {{Changed(e, l) : l \in Garbled(e.line)} : e \in StatusEntries}

Entries == CommandEntries \cup StatusEntries \cup GarbledEntries

States == {"STANDBY", "FAULT"}
Faults == {"CAN_ACTUATOR_FAULT", "CAN_TIMEOUT"}
Times == Nat \cup {-1}

CanTypeOK ==
  /\ now \in Nat /\ life \in Times
  /\ bus \in Seq(Entries)
  /\ monitor \in [state : States, last_rx : Times, error : Faults \cup {"NONE"}]
  /\ causes \subseteq Faults

(* The monitor's time is that of the last frame, and its state and error   *)
(* are what the causes make of them.                                       *)
CanInv == CanTypeOK /\ monitor.last_rx = life /\ FaultHasCause /\ StatusSurvivesTheBus

LEMMA NodeIs ==
  ASSUME NEW n \in NodeIds
  PROVE  /\ n \in 0 .. 15
         /\ 384 + n \in Ids /\ 384 + n \in 384 .. 399 /\ ~ (384 + n \in 512 .. 527)
         /\ 512 + n \in Ids /\ 512 + n \in 512 .. 527 /\ ~ (512 + n \in 384 .. 399)
         /\ 384 + n - 384 = n /\ 512 + n - 128 = 384 + n
<1>1. n \in 0 .. 15
  BY BusAssumption DEF Digits
<1>2. QED
  BY <1>1 DEF Ids

LEMMA EightIs ==
  ASSUME NEW data \in Eight
  PROVE  data \in Seq(Bytes) /\ Len(data) = 8 /\ 8 \in Counts
<1> DEFINE m == 8
<1>1. m \in Nat /\ m \in Counts /\ data \in [1 .. m -> Bytes]
  BY DEF Counts, Eight
<1> HIDE DEF m
<1>2. data \in Seq(Bytes) /\ Len(data) = m
  BY <1>1, FunctionIsSequence
<1>3. QED
  BY <1>1, <1>2 DEF m

(* Eight bytes with an id come back.                                       *)
LEMMA EightSurvive ==
  ASSUME NEW id \in Ids, NEW data \in Eight
  PROVE  /\ ParseCandumpLine(FormatCandumpLine(Frame(id, data))) = Frame(id, data)
         /\ HexValue(FormatCandumpLine(Frame(id, data)).id) = id
<1>1. data \in Seq(Bytes) /\ Len(data) \in Counts
  BY EightIs
<1>2. FormatCandumpLine(Frame(id, data)).id = HexId(id)
  BY DEF FormatCandumpLine, Frame
<1>3. HexValue(HexId(id)) = id
  BY IdSurvives
<1>4. QED
  BY <1>1, <1>2, <1>3, FrameSurvives

LEMMA FrameParts ==
  ASSUME NEW id, NEW data
  PROVE  Frame(id, data).ok /\ Frame(id, data).id = id /\ Frame(id, data).data = data
BY DEF Frame

LEMMA CommandIs ==
  ASSUME NEW e \in CommandEntries
  PROVE  \E n \in NodeIds, p \in Positions :
           /\ ParseCandumpLine(e.line) = Frame(512 + n, Values(p))
           /\ ~ IsStatus(e.line) /\ e.sent = Sent(n, p, FALSE)
<1>1. PICK n \in NodeIds, p \in Positions : e = Command(n, p)
  BY DEF CommandEntries
<1>2. p \in Int
  BY BusAssumption
<1>3. Values(p) \in Eight /\ CommandFrame(n, p, -p) = Frame(512 + n, Values(p))
  BY <1>2, ValuesAre
<1>4. e.line = FormatCandumpLine(Frame(512 + n, Values(p))) /\ e.sent = Sent(n, p, FALSE)
  BY <1>1, <1>3 DEF Command
<1>5. 512 + n \in Ids /\ ~ (512 + n \in 384 .. 399)
  BY NodeIs
<1>6. /\ ParseCandumpLine(e.line) = Frame(512 + n, Values(p))
      /\ HexValue(e.line.id) = 512 + n
  BY <1>3, <1>4, <1>5, EightSurvive
<1>7. ~ IsStatus(e.line)
  BY <1>5, <1>6, SMTT(20) DEF IsStatus
<1>8. QED
  BY <1>4, <1>6, <1>7

LEMMA StatusIs ==
  ASSUME NEW e \in StatusEntries
  PROVE  \E n \in NodeIds, p \in Positions, fault \in BOOLEAN :
           /\ e.line = FormatCandumpLine(Frame(384 + n, Answer(p, fault)))
           /\ ParseCandumpLine(e.line) = Frame(384 + n, Answer(p, fault))
           /\ IsStatus(e.line) /\ e.sent = Sent(n, p, fault)
<1>1. PICK n \in NodeIds, p \in Positions, fault \in BOOLEAN :
             e = Status(n, p, fault)
  BY DEF StatusEntries
<1>2. p \in Int
  BY BusAssumption
<1>3. Answer(p, fault) \in Eight
  BY <1>2, AnswerIs
<1>4. /\ e.line = FormatCandumpLine(Frame(384 + n, Answer(p, fault)))
      /\ e.sent = Sent(n, p, fault)
  BY <1>1 DEF Status
<1>5. 384 + n \in Ids /\ 384 + n \in 384 .. 399
  BY NodeIs
<1>6. /\ ParseCandumpLine(e.line) = Frame(384 + n, Answer(p, fault))
      /\ HexValue(e.line.id) = 384 + n
  BY <1>3, <1>4, <1>5, EightSurvive
<1>7. IsStatus(e.line)
  BY <1>5, <1>6, SMTT(20) DEF IsStatus
<1>8. QED
  BY <1>4, <1>6, <1>7

(* A frame an actuator answers, and one whose fault bit is what was set.   *)
IsCommand(frame) == frame.ok /\ frame.id \in 512 .. 527
Honest(frame, fault) ==
  frame = Error \/ (frame.ok /\ (~ TooShort(frame) => (HasFault(frame) <=> fault)))

LEMMA GarbledIs ==
  ASSUME NEW g \in GarbledEntries
  PROVE  /\ g.sent.ok = FALSE /\ g.sent.fault \in BOOLEAN
         /\ ~ IsCommand(ParseCandumpLine(g.line))
         /\ Honest(ParseCandumpLine(g.line), g.sent.fault)
<1> DEFINE frame == ParseCandumpLine(g.line)
<1>1. PICK e \in StatusEntries : \E l \in Garbled(e.line) : g = Changed(e, l)
  BY DEF GarbledEntries
<1>0. PICK l \in Garbled(e.line) : g = Changed(e, l)
  BY <1>1
<1>2. PICK n \in NodeIds, p \in Positions, fault \in BOOLEAN :
             /\ e.line = FormatCandumpLine(Frame(384 + n, Answer(p, fault)))
             /\ e.sent = Sent(n, p, fault)
  BY StatusIs
<1>3. g.line = l /\ g.sent.ok = FALSE /\ g.sent.fault = fault
  BY <1>0, <1>2 DEF Changed, Sent
<1>4. 384 + n \in Ids /\ ~ (384 + n \in 512 .. 527)
  BY NodeIs
<1>5. p \in Int
  BY BusAssumption
<1>6. Answer(p, fault) \in Eight /\ (Answer(p, fault)[5] % 2 = 1) = fault
  BY <1>5, AnswerIs
<1>7. Answer(p, fault) \in Seq(Bytes) /\ Len(Answer(p, fault)) = 8 /\ 8 \in Counts /\ 8 >= 5
  BY <1>6, EightIs
<1>8. \/ frame = Error
      \/ frame.ok /\ frame.id = 384 + n /\ TooShort(frame)
      \/ /\ frame.ok /\ frame.id = 384 + n /\ ~ TooShort(frame)
         /\ frame.data[5] = Answer(p, fault)[5]
  <2> DEFINE id == 384 + n
             data == Answer(p, fault)
             m == 8
  <2>1. id \in Ids /\ data \in Seq(Bytes) /\ Len(data) = m /\ m \in Counts /\ m >= 5
        /\ l \in Garbled(FormatCandumpLine(Frame(id, data)))
    BY <1>2, <1>4, <1>7
  <2> HIDE DEF id, data, m
  <2>2. LET f == ParseCandumpLine(l) IN
        \/ f = Error
        \/ f.ok /\ f.id = id /\ TooShort(f)
        \/ f.ok /\ f.id = id /\ ~ TooShort(f) /\ f.data[5] = data[5]
    BY <2>1, GarbledParse
  <2>3. QED
    BY <1>3, <2>2 DEF id, data
<1> HIDE DEF frame
<1>9. ASSUME frame.ok, frame.id = 384 + n, ~ TooShort(frame),
             frame.data[5] = Answer(p, fault)[5]
      PROVE  Honest(frame, fault) /\ ~ IsCommand(frame)
  <2>1. HasFault(frame) <=> fault
    BY <1>6, <1>9 DEF HasFault
  <2>2. QED
    BY <1>4, <1>9, <2>1 DEF Honest, IsCommand
<1>10. ASSUME frame = Error PROVE Honest(frame, fault) /\ ~ IsCommand(frame)
  BY <1>10 DEF Honest, IsCommand, Error
<1>11. ASSUME frame.ok, frame.id = 384 + n, TooShort(frame)
       PROVE  Honest(frame, fault) /\ ~ IsCommand(frame)
  BY <1>4, <1>11 DEF Honest, IsCommand
<1>12. Honest(frame, fault) /\ ~ IsCommand(frame)
  BY <1>8, <1>9, <1>10, <1>11
<1>13. QED
  BY <1>3, <1>12 DEF frame

(* What a receiver makes of a line with a status id.                       *)
LEMMA ReceivedIs ==
  ASSUME NEW e \in Entries, IsStatus(e.line)
  PROVE  /\ e.sent.ok \in BOOLEAN /\ e.sent.fault \in BOOLEAN
         /\ LET frame == ParseCandumpLine(e.line) IN
            Honest(frame, e.sent.fault) /\ (e.sent.ok => frame.ok /\ DecodeStatus(frame) = e.sent)
<1> DEFINE frame == ParseCandumpLine(e.line)
<1>1. e \in StatusEntries \/ e \in GarbledEntries
  BY CommandIs DEF Entries
<1>2. CASE e \in StatusEntries
  <2>1. PICK n \in NodeIds, p \in Positions, fault \in BOOLEAN :
               frame = Frame(384 + n, Answer(p, fault)) /\ e.sent = Sent(n, p, fault)
    BY <1>2, StatusIs
  <2> HIDE DEF frame
  <2>2. p \in Int
    BY BusAssumption
  <2>3. /\ Answer(p, fault) \in Eight
        /\ ReadInt16Le(Answer(p, fault), 1) = Int16(p)
        /\ ReadInt16Le(Answer(p, fault), 3) = Int16(-p)
        /\ (Answer(p, fault)[5] % 2 = 1) = fault
    BY <2>2, AnswerIs
  <2>4. 384 + n \in 384 .. 399 /\ 384 + n - 384 = n
    BY NodeIs
  <2>5. Len(Answer(p, fault)) = 8
    BY <2>3, EightIs
  <2>6. frame.ok /\ frame.id = 384 + n /\ frame.data = Answer(p, fault)
    BY <2>1, FrameParts
  <2>7. HasFault(frame) <=> fault
    BY <2>3, <2>6 DEF HasFault
  <2>8. DecodeStatus(frame) = Sent(n, p, fault)
    <3>1. DecodeStatus(frame)
            = [ok |-> TRUE, node |-> frame.id - 384,
               position |-> ReadInt16Le(frame.data, 1), velocity |-> ReadInt16Le(frame.data, 3),
               fault |-> frame.data[5] % 2 = 1]
      <4>1. frame.id \in 384 .. 399 /\ Len(frame.data) = 8
        BY <2>4, <2>5, <2>6
      <4>2. QED
        BY <4>1 DEF DecodeStatus
    <3>2. frame.id - 384 = n
      BY <2>6, NodeIs
    <3>3. /\ ReadInt16Le(frame.data, 1) = Int16(p) /\ ReadInt16Le(frame.data, 3) = Int16(-p)
          /\ (frame.data[5] % 2 = 1) = fault
      BY <2>3, <2>6
    <3>4. QED
      BY <3>1, <3>2, <3>3, Zenon DEF Sent
  <2>9. Sent(n, p, fault).ok = TRUE /\ Sent(n, p, fault).fault = fault
    BY DEF Sent
  <2>10. Honest(frame, fault)
    BY <2>6, <2>7 DEF Honest
  <2>11. QED
    BY <2>1, <2>6, <2>8, <2>9, <2>10 DEF frame
<1>3. CASE e \in GarbledEntries
  BY <1>3, GarbledIs
<1>4. QED
  BY <1>1, <1>2, <1>3

-----------------------------------------------------------------------------
(* The invariant.                                                          *)

LEMMA CanInitHolds == CanInit => CanInv
BY DEF CanInit, CanInv, CanTypeOK, FaultHasCause, StatusSurvivesTheBus, NoStatus, Error,
       Times, States

LEMMA HeadOnBus ==
  ASSUME bus \in Seq(Entries), bus # <<>>
  PROVE  Head(bus) \in Entries /\ Tail(bus) \in Seq(Entries) /\ 1 \in 1 .. Len(bus)
OBVIOUS

LEMMA SendKeeps == CanInv /\ SendCommand => CanInv'
<1> SUFFICES ASSUME CanInv, SendCommand PROVE CanInv'
  OBVIOUS
<1>1. PICK n \in NodeIds, p \in Positions :
        Put(FormatCandumpLine(CommandFrame(n, p, -p)), Sent(n, p, FALSE))
  BY DEF SendCommand, Sent
<1>2. Command(n, p) \in Entries
  BY DEF Entries, CommandEntries
<1>3. bus' \in Seq(Entries)
  <2>1. bus' = Append(bus, Command(n, p))
    BY <1>1 DEF Put, Command
  <2>2. QED
    BY <1>2, <2>1 DEF CanInv, CanTypeOK
<1>4. UNCHANGED <<now, monitor, life, causes>> /\ status' = NoStatus
  BY <1>1 DEF Put
<1>5. QED
  BY <1>3, <1>4 DEF CanInv, CanTypeOK, FaultHasCause, StatusSurvivesTheBus, NoStatus, Error

LEMMA NewFault ==
  ASSUME NEW s, NEW ok, NEW n, NEW x, NEW y, NEW f, NEW g,
         s = [ok |-> ok, node |-> n, position |-> x, velocity |-> y, fault |-> f]
  PROVE  [s EXCEPT !.fault = g]
           = [ok |-> ok, node |-> n, position |-> x, velocity |-> y, fault |-> g]
OBVIOUS

LEMMA OtherFault ==
  ASSUME NEW n, NEW p, NEW fault
  PROVE  [Sent(n, p, FALSE) EXCEPT !.fault = fault] = Sent(n, p, fault)
<1> DEFINE x == Int16(p)
           y == Int16(-p)
           yes == TRUE
           no == FALSE
           s == Sent(n, p, no)
<1>1. s = [ok |-> yes, node |-> n, position |-> x, velocity |-> y, fault |-> no]
  BY DEF Sent
<1>2. Sent(n, p, fault) = [ok |-> yes, node |-> n, position |-> x, velocity |-> y, fault |-> fault]
  BY DEF Sent
<1> HIDE DEF x, y, yes, no, s
<1>3. [s EXCEPT !.fault = fault]
        = [ok |-> yes, node |-> n, position |-> x, velocity |-> y, fault |-> fault]
  BY <1>1, NewFault
<1>4. QED
  BY <1>2, <1>3 DEF s, no

(* An answer replaces a command, and nothing else on the bus is one.       *)
LEMMA ActuatorKeeps ==
  ASSUME CanInv, NEW fault \in BOOLEAN, Actuator(fault)
  PROVE  CanInv'
<1> DEFINE e == Head(bus)
           command == ParseCandumpLine(e.line)
           data == [command.data EXCEPT ![5] = IF fault THEN 1 ELSE 0, ![6] = IF fault THEN 7 ELSE 0]
           answer == [line |-> FormatCandumpLine(Frame(command.id - 128, data)),
                      sent |-> [e.sent EXCEPT !.fault = fault]]
<1>1. e \in Entries /\ bus \in Seq(Entries) /\ 1 \in 1 .. Len(bus)
  BY HeadOnBus DEF Actuator, CanInv, CanTypeOK
<1>2. command.ok /\ command.id \in 512 .. 527 /\ bus' = [bus EXCEPT ![1] = answer]
  BY DEF Actuator
<1>3. e \in CommandEntries
  <2>1. CASE e \in StatusEntries
    <3>1. PICK n \in NodeIds : command.id = 384 + n
      BY <2>1, StatusIs, FrameParts
    <3>2. QED
      BY <1>2, <3>1, NodeIs
  <2>2. CASE e \in GarbledEntries
    <3>1. ~ IsCommand(command)
      BY <2>2, GarbledIs
    <3>2. QED
      BY <1>2, <3>1 DEF IsCommand
  <2>3. QED
    BY <1>1, <2>1, <2>2 DEF Entries
<1>4. PICK n \in NodeIds, p \in Positions :
        command = Frame(512 + n, Values(p)) /\ e.sent = Sent(n, p, FALSE)
  BY <1>3, CommandIs
<1>5. command.id - 128 = 384 + n /\ data = Answer(p, fault)
  <2>1. command.id = 512 + n /\ command.data = Values(p)
    BY <1>4, FrameParts
  <2>2. 512 + n - 128 = 384 + n
    BY NodeIs
  <2>3. data = Answered(command.data, fault)
    BY Zenon DEF Answered
  <2> HIDE DEF command, data
  <2>4. command.id - 128 = 384 + n
    BY <2>1, NodeIs
  <2>5. data = Answer(p, fault)
    BY <2>1, <2>3 DEF Answer
  <2>6. QED
    BY <2>4, <2>5
<1>6. [e.sent EXCEPT !.fault = fault] = Sent(n, p, fault)
  <2>1. p \in Int
    BY BusAssumption
  <2>2. [Sent(n, p, FALSE) EXCEPT !.fault = fault] = Sent(n, p, fault)
    BY <2>1, OtherFault
  <2>3. QED
    BY <1>4, <2>2
<1>7. answer \in Entries
  <2>1. answer = Status(n, p, fault)
    BY <1>5, <1>6 DEF Status
  <2>2. QED
    BY <2>1 DEF Entries, StatusEntries
<1>8. bus' \in Seq(Entries)
  <2> HIDE DEF answer
  <2>1. QED
    BY <1>1, <1>2, <1>7, ChangeIs
<1>9. UNCHANGED <<now, monitor, life, causes>> /\ status' = NoStatus
  BY DEF Actuator
<1>10. QED
  BY <1>8, <1>9 DEF CanInv, CanTypeOK, FaultHasCause, StatusSurvivesTheBus, NoStatus, Error

LEMMA GarbleKeeps == CanInv /\ Garble => CanInv'
<1> SUFFICES ASSUME CanInv, Garble PROVE CanInv'
  OBVIOUS
<1> DEFINE e == Head(bus)
<1>1. PICK l \in Garbled(e.line) : bus' = [bus EXCEPT ![1] = Changed(e, l)]
  BY DEF Garble, Changed
<1>2. e \in Entries /\ bus \in Seq(Entries) /\ 1 \in 1 .. Len(bus) /\ e.sent.ok /\ IsStatus(e.line)
  BY HeadOnBus DEF Garble, CanInv, CanTypeOK
<1>3. e \in StatusEntries
  <2>1. ~ (e \in CommandEntries)
    BY <1>2, CommandIs
  <2>2. ~ (e \in GarbledEntries)
    BY <1>2, GarbledIs
  <2>3. QED
    BY <1>2, <2>1, <2>2 DEF Entries
<1>4. Changed(e, l) \in Entries
  BY <1>3 DEF Entries, GarbledEntries
<1>5. bus' \in Seq(Entries)
  BY <1>1, <1>2, <1>4, ChangeIs
<1>6. UNCHANGED <<now, monitor, life, causes>> /\ status' = NoStatus
  BY DEF Garble
<1>7. QED
  BY <1>5, <1>6 DEF CanInv, CanTypeOK, FaultHasCause, StatusSurvivesTheBus, NoStatus, Error

LEMMA ObserveKeeps == CanInv /\ ObserveStatus => CanInv'
<1> SUFFICES ASSUME CanInv, ObserveStatus PROVE CanInv'
  OBVIOUS
<1> DEFINE e == Head(bus)
           frame == ParseCandumpLine(e.line)
<1>1. e \in Entries /\ Tail(bus) \in Seq(Entries) /\ IsStatus(e.line)
  BY HeadOnBus DEF ObserveStatus, CanInv, CanTypeOK
<1>2. /\ e.sent.ok \in BOOLEAN /\ e.sent.fault \in BOOLEAN
      /\ Honest(frame, e.sent.fault)
      /\ e.sent.ok => frame.ok /\ DecodeStatus(frame) = e.sent
  BY <1>1, ReceivedIs
<1>3. bus' \in Seq(Entries) /\ now' = now
  BY <1>1 DEF ObserveStatus
<1>4. IF frame.ok
      THEN /\ monitor' = Observed(monitor, frame)
           /\ status' = [sent |-> e.sent, got |-> DecodeStatus(frame)]
           /\ life' = now
           /\ causes' = IF ~ TooShort(frame) /\ e.sent.fault
                        THEN causes \cup {"CAN_ACTUATOR_FAULT"} ELSE causes
      ELSE /\ UNCHANGED <<monitor, life, causes>>
           /\ status' = [sent |-> e.sent, got |-> Error]
  BY DEF ObserveStatus
<1> HIDE DEF frame, e
<1>5. StatusSurvivesTheBus'
  BY <1>2, <1>4 DEF StatusSurvivesTheBus
<1>6. CASE ~ frame.ok
  BY <1>3, <1>4, <1>5, <1>6 DEF CanInv, CanTypeOK, FaultHasCause
<1>7. CASE frame.ok /\ (TooShort(frame) \/ ~ HasFault(frame))
  <2>1. causes' = causes
    BY <1>2, <1>4, <1>7 DEF Honest, Error
  <2>2. monitor' = [monitor EXCEPT !.last_rx = now] /\ life' = now
    BY <1>4, <1>7 DEF Observed
  <2>3. QED
    BY <1>3, <1>5, <2>1, <2>2 DEF CanInv, CanTypeOK, FaultHasCause, Times
<1>8. CASE frame.ok /\ ~ TooShort(frame) /\ HasFault(frame)
  <2>1. causes' = causes \cup {"CAN_ACTUATOR_FAULT"}
    BY <1>2, <1>4, <1>8 DEF Honest, Error
  <2>2. /\ monitor' = [[monitor EXCEPT !.last_rx = now]
                         EXCEPT !.state = "FAULT", !.error = "CAN_ACTUATOR_FAULT"]
        /\ life' = now
    BY <1>4, <1>8 DEF Observed
  <2>3. QED
    BY <1>3, <1>5, <2>1, <2>2 DEF CanInv, CanTypeOK, FaultHasCause, Times, States, Faults
<1>9. QED
  BY <1>6, <1>7, <1>8

LEMMA CheckKeeps == CanInv /\ CheckTimeout => CanInv'
<1> SUFFICES ASSUME CanInv, CheckTimeout PROVE CanInv'
  OBVIOUS
<1>1. UNCHANGED <<now, bus, life>> /\ status' = NoStatus
  BY DEF CheckTimeout
<1>2. Age(monitor) = now - (IF life < 0 THEN 0 ELSE life)
  BY DEF Age, CanInv, CanTypeOK, Times
<1>3. CASE Age(monitor) > Timeout
  <2>1. /\ monitor' = [monitor EXCEPT !.state = "FAULT", !.error = "CAN_TIMEOUT"]
        /\ causes' = causes \cup {"CAN_TIMEOUT"}
    BY <1>2, <1>3 DEF CheckTimeout
  <2>2. QED
    BY <1>1, <2>1 DEF CanInv, CanTypeOK, FaultHasCause, StatusSurvivesTheBus, NoStatus, Error,
                      States, Faults
<1>4. CASE ~ (Age(monitor) > Timeout)
  <2>1. monitor' = monitor /\ causes' = causes
    BY <1>2, <1>4 DEF CheckTimeout
  <2>2. QED
    BY <1>1, <2>1 DEF CanInv, CanTypeOK, FaultHasCause, StatusSurvivesTheBus, NoStatus, Error
<1>5. QED
  BY <1>3, <1>4

(* CanInv is inductive: the monitor notes the time of the last frame, and  *)
(* the fault bit of whatever it parses is the one the actuator set.        *)
THEOREM CanInvHolds == CanSpec => []CanInv
<1>1. CanInv /\ [CanNext]_canVars => CanInv'
  <2> SUFFICES ASSUME CanInv, [CanNext]_canVars PROVE CanInv'
    OBVIOUS
  <2>1. CASE Tick
    <3>1. now' \in Nat /\ UNCHANGED <<bus, monitor, life, causes>> /\ status' = NoStatus
      BY <2>1 DEF Tick, CanInv, CanTypeOK
    <3>2. QED
      BY <3>1 DEF CanInv, CanTypeOK, FaultHasCause, StatusSurvivesTheBus, NoStatus, Error
  <2>2. CASE SendCommand
    BY <2>2, SendKeeps
  <2>3. CASE \E fault \in BOOLEAN : Actuator(fault)
    BY <2>3, ActuatorKeeps
  <2>4. CASE Garble
    BY <2>4, GarbleKeeps
  <2>5. CASE Lose
    <3>1. bus' \in Seq(Entries)
      BY <2>5, HeadOnBus DEF Lose, CanInv, CanTypeOK
    <3>2. UNCHANGED <<now, monitor, life, causes>> /\ status' = NoStatus
      BY <2>5 DEF Lose
    <3>3. QED
      BY <3>1, <3>2 DEF CanInv, CanTypeOK, FaultHasCause, StatusSurvivesTheBus, NoStatus, Error
  <2>6. CASE ObserveStatus
    BY <2>6, ObserveKeeps
  <2>7. CASE CheckTimeout
    BY <2>7, CheckKeeps
  <2>8. CASE UNCHANGED canVars
    BY <2>8 DEF canVars, CanInv, CanTypeOK, FaultHasCause, StatusSurvivesTheBus
  <2>9. QED
    BY <2>1, <2>2, <2>3, <2>4, <2>5, <2>6, <2>7, <2>8 DEF CanNext
<1>2. QED
  BY CanInitHolds, <1>1, PTL DEF CanSpec

(* What a receiver decodes from the text of a status line is what the      *)
(* sender put into its command, for any positions: what does not fit into  *)
(* 16 bits comes back as the cast of makeCommandFrame left it.             *)
THEOREM StatusIsSent == CanSpec => []StatusSurvivesTheBus
<1>1. CanInv => StatusSurvivesTheBus
  BY DEF CanInv
<1>2. QED
  BY CanInvHolds, <1>1, PTL

(* A fault of the monitor has a cause that really happened, and a cause is *)
(* never missed by observeStatus or checkTimeout, for every timeout.       *)
THEOREM FaultsAreCaused == CanSpec => []FaultHasCause
<1>1. CanInv => FaultHasCause
  BY DEF CanInv
<1>2. QED
  BY CanInvHolds, <1>1, PTL
=============================================================================
