---------------------------- MODULE Robots_proofs ----------------------------
(***************************************************************************)
(* Theorems about the exercises with one robot: the two robot arms, for    *)
(* any set of observers, and the robot console, for all times of its       *)
(* simulation.  They share no state: the theorems about each are of its    *)
(* own specification, ArmsSpec and Spec.                                   *)
(***************************************************************************)
EXTENDS RobotArms, Robocon, FiniteSetTheorems, WellFoundedInduction, TLAPS

(* Induction over the numbers for a set of them: what holds of 0 and is    *)
(* handed on to the next holds of all.                                     *)
LEMMA NatSetInduction ==
  ASSUME NEW S, S \subseteq Nat, 0 \in S, \A n \in S : n + 1 \in S
  PROVE  S = Nat
<1> DEFINE T == Nat \ S
<1>1. SUFFICES ASSUME T # {} PROVE FALSE
  OBVIOUS
<1>2. PICK less : less = OpToRel(<, Nat)
  OBVIOUS
<1>3. IsWellFoundedOn(less, Nat)
  BY <1>2, NatLessThanWellFounded
<1>4. \A x, y \in Nat : x < y => <<x, y>> \in less
  BY <1>2 DEF OpToRel
<1>5. PICK x \in T : \A y \in T : ~ (<<y, x>> \in less)
  <2> HIDE DEF T
  <2>1. T \subseteq Nat
    BY DEF T
  <2>2. QED
    BY <1>1, <1>3, <2>1, WFMin
<1>6. x # 0 /\ x - 1 \in Nat /\ x - 1 < x
  OBVIOUS
<1>7. x - 1 \in S
  BY <1>4, <1>5, <1>6
<1>8. QED
  BY <1>6, <1>7

-----------------------------------------------------------------------------
(* Both machines.                                                          *)
LEMMA StatesAre ==
  /\ ArmStates = {IDLE, MOVING, GRASPING, HOLDING, RETURNING}
  /\ ArmEvents = {START, ARRIVED, GRASPED, RELEASE, HOME, ERROR}
  /\ IDLE = 0 /\ MOVING = 1 /\ GRASPING = 2 /\ HOLDING = 3 /\ RETURNING = 4
  /\ START = 0 /\ ARRIVED = 1 /\ GRASPED = 2 /\ RELEASE = 3 /\ HOME = 4 /\ ERROR = 5
BY DEF ArmStates, ArmEvents, IDLE, MOVING, GRASPING, HOLDING, RETURNING,
       START, ARRIVED, GRASPED, RELEASE, HOME, ERROR

(* The two halves of a key do not overlap.                                 *)
LEMMA KeysDiffer ==
  ASSUME NEW s \in ArmStates, NEW r \in ArmStates, NEW e \in ArmEvents, NEW f \in ArmEvents,
         TransitionKey(s, e) = TransitionKey(r, f)
  PROVE  s = r /\ e = f
<1>1. /\ s \in 0 .. 4 /\ r \in 0 .. 4 /\ e \in 0 .. 5 /\ f \in 0 .. 5
      /\ s * 65536 + e = r * 65536 + f
  BY DEF TransitionKey, ArmStates, ArmEvents, IDLE, RETURNING, START, ERROR
<1>2. QED
  BY <1>1

(* What the table says of a state and an event.                            *)
Leads(s, e, r) == <<s, e, r>> \in Route \/ (s \in Active /\ e = ERROR /\ r = IDLE)

LEMMA RowsAre ==
  ASSUME NEW s \in ArmStates, NEW e \in ArmEvents, NEW row \in Rows, row.key = TransitionKey(s, e)
  PROVE  /\ Leads(s, e, row.to) /\ row.to \in ArmStates /\ row.stop \in BOOLEAN
<1>1. CASE \E r \in Route : row = [key |-> TransitionKey(r[1], r[2]), to |-> r[3], stop |-> FALSE]
  <2>1. PICK r \in Route : row = [key |-> TransitionKey(r[1], r[2]), to |-> r[3], stop |-> FALSE]
    BY <1>1
  <2>2. r[1] \in ArmStates /\ r[2] \in ArmEvents /\ r[3] \in ArmStates /\ r = <<r[1], r[2], r[3]>>
    BY StatesAre DEF Route
  <2>3. r[1] = s /\ r[2] = e
    BY <2>1, <2>2, KeysDiffer
  <2>4. QED
    BY <2>1, <2>2, <2>3 DEF Leads
<1>2. CASE \E q \in Active : row = [key |-> TransitionKey(q, ERROR), to |-> IDLE, stop |-> TRUE]
  <2>1. PICK q \in Active : row = [key |-> TransitionKey(q, ERROR), to |-> IDLE, stop |-> TRUE]
    BY <1>2
  <2>2. q \in ArmStates /\ ERROR \in ArmEvents /\ IDLE \in ArmStates
    BY StatesAre DEF Active
  <2>3. q = s /\ ERROR = e
    BY <2>1, <2>2, KeysDiffer
  <2>4. QED
    BY <2>1, <2>2, <2>3 DEF Leads
<1>3. QED
  BY <1>1, <1>2 DEF Rows

LEMMA RowsExist ==
  ASSUME NEW s \in ArmStates, NEW e \in ArmEvents, NEW r, Leads(s, e, r)
  PROVE  \E row \in Rows : row.key = TransitionKey(s, e)
<1>1. CASE <<s, e, r>> \in Route
  <2>1. [key |-> TransitionKey(s, e), to |-> r, stop |-> FALSE] \in Rows
    <3>1. /\ <<s, e, r>>[1] = s /\ <<s, e, r>>[2] = e /\ <<s, e, r>>[3] = r
      OBVIOUS
    <3>2. \A q \in Route : [key |-> TransitionKey(q[1], q[2]), to |-> q[3], stop |-> FALSE] \in Rows
      BY DEF Rows
    <3>3. QED
      BY <1>1, <3>1, <3>2, Zenon
  <2>2. QED
    BY <2>1
<1>2. CASE s \in Active /\ e = ERROR
  <2>1. [key |-> TransitionKey(s, e), to |-> IDLE, stop |-> TRUE] \in Rows
    BY <1>2 DEF Rows
  <2>2. QED
    BY <2>1
<1>3. QED
  BY <1>1, <1>2 DEF Leads

(* The chain of conditions says the same.                                  *)
LEMMA TransitionAgrees ==
  ASSUME NEW s \in ArmStates, NEW e \in ArmEvents
  PROVE  \A r : r \in Transition(s, e) <=> Leads(s, e, r)
BY StatesAre DEF Transition, Leads, Route, Active

-----------------------------------------------------------------------------
(* The table machine: where a transition is, and what the callbacks have   *)
(* reported by then.                                                       *)
MachineOK ==
  /\ current \in ArmStates
  /\ at \in {"ready", "exit", "action", "enter"}
  /\ firing \in Rows \cup {None}
  /\ at # "ready" => firing \in Rows /\ firing.to \in ArmStates
  /\ motion \in BOOLEAN

MotionInv ==
  /\ at \in {"ready", "exit"} => (motion <=> Moves(current))
  /\ at \in {"action", "enter"} => ~motion

(* The observed arm, apart from its observers.                             *)
Changes == [from : ArmStates, to : ArmStates, trigger : ArmEvents]

ArmOK == state \in ArmStates /\ change \in Changes \cup {None}

(* The state each arm is on its way to.                                    *)
TableTarget == IF at = "ready" THEN current ELSE firing.to
SubjectTarget == IF change = None THEN state ELSE change.to

Targets == TableTarget = SubjectTarget

ArmsInv == MachineOK /\ MotionInv /\ ArmOK /\ Targets

LEMMA NoneIsNoChange == None \notin Changes
<1>1. SUFFICES ASSUME None \in Changes PROVE FALSE
  OBVIOUS
<1>2. DOMAIN None = {"from", "to", "trigger"}
  BY <1>1 DEF Changes
<1>3. DOMAIN None = {"none"}
  BY DEF None
<1>4. QED
  BY <1>2, <1>3

LEMMA ArmsInvInit == ArmsInit => ArmsInv
<1> SUFFICES ASSUME ArmsInit PROVE ArmsInv
  OBVIOUS
<1>1. IDLE \in ArmStates /\ ~Moves(IDLE)
  BY StatesAre DEF Moves
<1>2. QED
  BY <1>1 DEF ArmsInit, ArmsInv, MachineOK, MotionInv, ArmOK, Targets, TableTarget, SubjectTarget

LEMMA ArmsTableStep == ArmsInv /\ TableStep => ArmsInv'
<1> SUFFICES ASSUME ArmsInv, TableStep PROVE ArmsInv'
  OBVIOUS
<1> USE DEF ArmsInv, MachineOK, MotionInv, ArmOK, Targets, TableTarget, SubjectTarget
<1>0. UNCHANGED <<state, change>>
  BY DEF TableStep, subjectVars
<1>1. CASE CallExit
  BY <1>0, <1>1 DEF CallExit
<1>2. CASE RunAction
  BY <1>0, <1>2 DEF RunAction
<1>3. CASE MoveAndEnter
  BY <1>0, <1>3 DEF MoveAndEnter
<1>4. QED
  BY <1>1, <1>2, <1>3 DEF TableStep

LEMMA ArmsSubjectStep == ArmsInv /\ SubjectStep => ArmsInv'
<1> SUFFICES ASSUME ArmsInv, SubjectStep PROVE ArmsInv'
  OBVIOUS
<1> USE DEF ArmsInv, MachineOK, MotionInv, ArmOK, Targets, TableTarget, SubjectTarget
<1>0. UNCHANGED <<current, at, firing, motion>>
  BY DEF SubjectStep, tableVars
<1>1. CASE UNCHANGED <<state, change>>
  BY <1>0, <1>1
<1>2. CASE Assign
  <2>1. change \in Changes /\ change.to \in ArmStates
    BY <1>2 DEF Assign, Changes
  <2>2. QED
    BY <1>0, <1>2, <2>1 DEF Assign
<1>3. QED
  BY <1>1, <1>2 DEF SubjectStep, Notify, Subscribe, Unsubscribe

(* An event leads both arms the same way, or neither anywhere.             *)
LEMMA ArmsEvent == ASSUME ArmsInv, NEW ev \in ArmEvents, Event(ev) PROVE ArmsInv'
<1>0. /\ at = "ready" /\ change = None /\ current = state /\ current \in ArmStates
      /\ UNCHANGED <<current, motion, state>>
  BY DEF Event, AtRest, Process, Send, ArmsInv, MachineOK, Targets, TableTarget, SubjectTarget
<1>1. CASE Found(ev) = {}
  <2>1. \A r : ~Leads(current, ev, r)
    BY <1>0, <1>1, RowsExist DEF Found
  <2>2. Transition(state, ev) = {}
    BY <1>0, <2>1, TransitionAgrees
  <2>3. UNCHANGED <<at, firing, change>>
    BY <1>1, <2>2 DEF Event, Process, Send
  <2>4. QED
    BY <1>0, <2>3
       DEF ArmsInv, MachineOK, MotionInv, ArmOK, Targets, TableTarget, SubjectTarget
<1>2. CASE Found(ev) # {}
  <2>1. firing' \in Found(ev) /\ at' = "exit"
    BY <1>2 DEF Event, Process
  <2>2. firing' \in Rows /\ Leads(current, ev, firing'.to) /\ firing'.to \in ArmStates
    BY <1>0, <2>1, RowsAre DEF Found
  <2>3. Transition(state, ev) # {}
    BY <1>0, <2>2, TransitionAgrees
  <2>4. PICK next \in Transition(state, ev) :
          change' = [from |-> state, to |-> next, trigger |-> ev]
    BY <2>3 DEF Event, Send
  <2>5. Leads(current, ev, next)
    BY <1>0, <2>4, TransitionAgrees
  <2>6. next = firing'.to
    BY <1>0, <2>2, <2>5, StatesAre DEF Leads, Route, Active
  <2>7. change' \in Changes /\ change'.to = next
    BY <1>0, <2>2, <2>4, <2>6 DEF Changes
  <2>8. change' # None
    BY <2>7, NoneIsNoChange
  <2>9. MachineOK' /\ ArmOK' /\ Targets'
    BY <1>0, <2>1, <2>2, <2>6, <2>7, <2>8
       DEF ArmsInv, MachineOK, ArmOK, Targets, TableTarget, SubjectTarget
  <2>10. MotionInv'
    BY <1>0, <2>1 DEF ArmsInv, MotionInv
  <2>11. QED
    BY <2>9, <2>10 DEF ArmsInv
<1>3. QED
  BY <1>1, <1>2

LEMMA ArmsUnchanged == ArmsInv /\ UNCHANGED armsVars => ArmsInv'
BY DEF armsVars, tableVars, subjectVars,
       ArmsInv, MachineOK, MotionInv, ArmOK, Targets, TableTarget, SubjectTarget

(* Both arms are on the way to the same state at every step of a           *)
(* transition, and the callbacks have reported the motion that is left.    *)
THEOREM ArmsInvHolds == ArmsSpec => []ArmsInv
<1>1. ArmsInv /\ [ArmsNext]_armsVars => ArmsInv'
  BY ArmsTableStep, ArmsSubjectStep, ArmsEvent, ArmsUnchanged DEF ArmsNext
<1>2. QED
  BY <1>1, ArmsInvInit, PTL DEF ArmsSpec

(* The table of state_machine.hpp and the conditions of                    *)
(* observer/robot_arm.hpp make one arm: at rest they are in one state.     *)
THEOREM ArmsAgree == ArmsSpec => []SameArm
<1>1. ArmsInv => SameArm
  BY DEF ArmsInv, Targets, TableTarget, SubjectTarget, SameArm, AtRest
<1>2. QED
  BY <1>1, ArmsInvHolds, PTL

(* When the action of an emergency transition runs, the exit callback has  *)
(* stopped the motion, and at rest what was reported is true.              *)
THEOREM MotionStopsFirst == ArmsSpec => []StopsBeforeEmergency
<1>1. ArmsInv => StopsBeforeEmergency
  BY DEF ArmsInv, MotionInv, StopsBeforeEmergency
<1>2. QED
  BY <1>1, ArmsInvHolds, PTL

-----------------------------------------------------------------------------
(* How often something occurs in a sequence.                               *)
Places(q, s, n) == {j \in 1 .. n : s[j] = q}
Count(q, s) == Cardinality(Places(q, s, Len(s)))

LEMMA PlacesFinite ==
  ASSUME NEW q, NEW s, NEW n \in Nat
  PROVE  /\ IsFiniteSet(Places(q, s, n))
         /\ Cardinality(Places(q, s, n)) \in Nat
         /\ Cardinality(Places(q, s, n)) <= n
<1>1. IsFiniteSet(1 .. n) /\ Cardinality(1 .. n) = n
  BY FS_Interval
<1>2. Places(q, s, n) \in SUBSET (1 .. n)
  BY DEF Places
<1>3. QED
  BY <1>1, <1>2, FS_Subset, FS_CardinalityType

LEMMA PlacesNext ==
  ASSUME NEW q, NEW s, NEW n \in Nat
  PROVE  Cardinality(Places(q, s, n + 1))
           = IF s[n + 1] = q THEN Cardinality(Places(q, s, n)) + 1 ELSE Cardinality(Places(q, s, n))
<1>1. \A j : j \in 1 .. n + 1 <=> j \in 1 .. n \/ j = n + 1
  OBVIOUS
<1>2. n + 1 \notin 1 .. n
  OBVIOUS
<1>3. CASE s[n + 1] = q
  <2>1. Places(q, s, n + 1) = Places(q, s, n) \cup {n + 1}
    BY <1>1, <1>3 DEF Places
  <2>2. n + 1 \notin Places(q, s, n)
    BY <1>2 DEF Places
  <2>3. QED
    BY <1>3, <2>1, <2>2, PlacesFinite, FS_AddElement
<1>4. CASE s[n + 1] # q
  <2>1. Places(q, s, n + 1) = Places(q, s, n)
    BY <1>1, <1>4 DEF Places
  <2>2. QED
    BY <1>4, <2>1
<1>5. QED
  BY <1>3, <1>4

LEMMA CountEmpty == ASSUME NEW q PROVE Count(q, <<>>) = 0
<1>1. Places(q, <<>>, Len(<<>>)) = {}
  BY DEF Places
<1>2. QED
  BY <1>1, FS_EmptySet DEF Count

LEMMA CountAppend ==
  ASSUME NEW S, NEW s \in Seq(S), NEW x \in S, NEW q
  PROVE  Count(q, Append(s, x)) = IF x = q THEN Count(q, s) + 1 ELSE Count(q, s)
<1> DEFINE n == Len(s)
           t == Append(s, x)
<1>1. n \in Nat /\ Len(t) = n + 1 /\ t[n + 1] = x /\ \A i \in 1 .. n : t[i] = s[i]
  OBVIOUS
<1>2. Places(q, t, n) = Places(q, s, n)
  BY <1>1 DEF Places
<1>3. Count(q, t) = Cardinality(Places(q, t, n + 1)) /\ Count(q, s) = Cardinality(Places(q, s, n))
  BY <1>1 DEF Count
<1> HIDE DEF n, t
<1>4. Cardinality(Places(q, t, n + 1)) = IF x = q THEN Cardinality(Places(q, s, n)) + 1
                                         ELSE Cardinality(Places(q, s, n))
  BY <1>1, <1>2, PlacesNext
<1>5. QED
  BY <1>3, <1>4 DEF t

LEMMA CountTail ==
  ASSUME NEW S, NEW s \in Seq(S), s # <<>>, NEW q
  PROVE  Count(q, s) = Count(q, Tail(s)) + (IF Head(s) = q THEN 1 ELSE 0)
<1> DEFINE n == Len(s)
           t == Tail(s)
           P == Places(q, s, n) \ {1}
           T == Places(q, t, Len(t))
           f == [i \in P |-> i - 1]
<1>1. /\ n \in Nat \ {0} /\ Len(t) = n - 1 /\ Len(t) \in Nat /\ Head(s) = s[1]
      /\ \A i \in 1 .. n - 1 : t[i] = s[i + 1]
  OBVIOUS
<1>2. f \in Bijection(P, T)
  <2>1. \A i \in P : i \in 2 .. n /\ s[i] = q
    BY <1>1 DEF Places
  <2>2. \A i \in P : i - 1 \in T
    BY <1>1, <2>1 DEF Places
  <2>3. f \in [P -> T]
    BY <2>2
  <2>4. \A i, j \in P : f[i] = f[j] => i = j
    BY <2>1
  <2>5. \A j \in T : j + 1 \in P /\ f[j + 1] = j
    <3> SUFFICES ASSUME NEW j \in T PROVE j + 1 \in P /\ f[j + 1] = j
      OBVIOUS
    <3>1. j \in 1 .. n - 1 /\ t[j] = q
      BY <1>1 DEF Places
    <3>2. j + 1 \in P
      BY <1>1, <3>1 DEF Places
    <3>3. QED
      BY <3>1, <3>2
  <2>6. QED
    BY <2>3, <2>4, <2>5 DEF Bijection, Injection, Surjection, IsInjective
<1>3. IsFiniteSet(Places(q, s, n)) /\ Cardinality(Places(q, s, n)) \in Nat
  BY <1>1, PlacesFinite
<1>4. Cardinality(T) = Cardinality(P)
  <2>1. IsFiniteSet(P)
    BY <1>3, FS_RemoveElement
  <2>2. ExistsBijection(P, T)
    BY <1>2 DEF ExistsBijection
  <2>3. QED
    BY <2>1, <2>2, FS_Bijection
<1>5. Cardinality(P) = IF 1 \in Places(q, s, n) THEN Cardinality(Places(q, s, n)) - 1
                       ELSE Cardinality(Places(q, s, n))
  BY <1>3, FS_RemoveElement
<1>6. 1 \in Places(q, s, n) <=> Head(s) = q
  BY <1>1 DEF Places
<1>7. Cardinality(T) \in Nat
  BY <1>1, PlacesFinite
<1>8. QED
  BY <1>3, <1>4, <1>5, <1>6, <1>7 DEF Count

-----------------------------------------------------------------------------
(* What unsubscribe leaves in the vector.                                  *)

\* k lists what is kept of the first n places of s.
Keeps(k, s, o, n) ==
  k = [i \in 0 .. n |-> IF i = 0 THEN <<>>
                        ELSE IF s[i] = o THEN k[i - 1] ELSE Append(k[i - 1], s[i])]

LEMMA KeepsExists ==
  ASSUME NEW s, NEW o, NEW n \in Nat
  PROVE  \E k : Keeps(k, s, o, n)
<1> DEFINE N == {m \in Nat : \E k : Keeps(k, s, o, m)}
<1>1. 0 \in N
  <2>1. Keeps([i \in 0 .. 0 |-> <<>>], s, o, 0)
    BY DEF Keeps
  <2>2. QED
    BY <2>1
<1>2. ASSUME NEW m \in N PROVE m + 1 \in N
  <2>1. PICK k : Keeps(k, s, o, m)
    OBVIOUS
  <2> DEFINE g == [i \in 0 .. m + 1 |->
                     IF i <= m THEN k[i] ELSE IF s[i] = o THEN k[m] ELSE Append(k[m], s[i])]
  <2>2. \A i \in 0 .. m : g[i] = k[i]
    OBVIOUS
  <2>3. \A i \in 0 .. m : k[i] = IF i = 0 THEN <<>>
                                 ELSE IF s[i] = o THEN k[i - 1] ELSE Append(k[i - 1], s[i])
    BY <2>1 DEF Keeps
  <2>4. \A i \in 0 .. m + 1 :
          g[i] = IF i = 0 THEN <<>> ELSE IF s[i] = o THEN g[i - 1] ELSE Append(g[i - 1], s[i])
    <3> SUFFICES ASSUME NEW i \in 0 .. m + 1
                 PROVE  g[i] = IF i = 0 THEN <<>>
                               ELSE IF s[i] = o THEN g[i - 1] ELSE Append(g[i - 1], s[i])
      OBVIOUS
    <3>1. CASE i = m + 1
      <4>1. i # 0 /\ i - 1 = m /\ ~(i <= m) /\ m \in 0 .. m
        BY <3>1
      <4>2. g[i] = IF s[i] = o THEN k[m] ELSE Append(k[m], s[i])
        BY <4>1
      <4>3. g[i - 1] = k[m]
        BY <2>2, <4>1
      <4>4. QED
        BY <4>1, <4>2, <4>3
    <3>2. CASE i \in 0 .. m
      <4>1. i # 0 => i - 1 \in 0 .. m
        BY <3>2
      <4>2. QED
        BY <2>2, <2>3, <3>2, <4>1
    <3>3. QED
      BY <3>1, <3>2
  <2>5. Keeps(g, s, o, m + 1)
    <3> HIDE DEF g
    <3>1. g = [i \in 0 .. m + 1 |-> g[i]]
      BY DEF g
    <3>2. QED
      BY <2>4, <3>1 DEF Keeps
  <2>6. QED
    BY <2>5
<1>3. N = Nat
  <2> HIDE DEF N
  <2>1. N \subseteq Nat
    BY DEF N
  <2>2. QED
    BY <1>1, <1>2, <2>1, NatSetInduction
<1>4. QED
  BY <1>3

LEMMA WithoutKeeps ==
  ASSUME NEW S, NEW s \in Seq(S), NEW o
  PROVE  \E k : Keeps(k, s, o, Len(s)) /\ Without(s, o) = k[Len(s)]
<1> DEFINE kept == CHOOSE k : Keeps(k, s, o, Len(s))
<1>1. Len(s) \in Nat
  OBVIOUS
<1>2. Keeps(kept, s, o, Len(s))
  BY <1>1, KeepsExists
<1>3. Without(s, o) = kept[Len(s)]
  BY DEF Without, Keeps
<1>4. QED
  BY <1>2, <1>3

(* Of whom is removed nothing stays, and of the others everything.         *)
LEMMA WithoutCounts ==
  ASSUME NEW S, NEW s \in Seq(S), NEW o
  PROVE  /\ Without(s, o) \in Seq(S) /\ Len(Without(s, o)) <= Len(s)
         /\ \A q : Count(q, Without(s, o)) = IF q = o THEN 0 ELSE Count(q, s)
<1>1. PICK k : Keeps(k, s, o, Len(s)) /\ Without(s, o) = k[Len(s)]
  BY WithoutKeeps
<1> DEFINE Good(m) == /\ k[m] \in Seq(S) /\ Len(k[m]) <= m
                      /\ \A q : Count(q, k[m]) = IF q = o THEN 0 ELSE Cardinality(Places(q, s, m))
           N == {m \in Nat : m <= Len(s) => Good(m)}
<1>2. Len(s) \in Nat
  OBVIOUS
<1>3. \A i \in 0 .. Len(s) : k[i] = IF i = 0 THEN <<>>
                                    ELSE IF s[i] = o THEN k[i - 1] ELSE Append(k[i - 1], s[i])
  BY <1>1 DEF Keeps
<1>4. 0 \in N
  <2>1. k[0] = <<>>
    BY <1>2, <1>3
  <2>2. \A q : Places(q, s, 0) = {}
    BY DEF Places
  <2>3. \A q : Count(q, k[0]) = 0 /\ Cardinality(Places(q, s, 0)) = 0
    BY <2>1, <2>2, CountEmpty, FS_EmptySet
  <2>4. k[0] \in Seq(S) /\ Len(k[0]) <= 0
    BY <2>1
  <2>5. Good(0)
    BY <2>3, <2>4
  <2>6. QED
    BY <2>5
<1>5. ASSUME NEW m \in N PROVE m + 1 \in N
  <2> SUFFICES ASSUME m + 1 <= Len(s) PROVE Good(m + 1)
    OBVIOUS
  <2>1. m \in Nat /\ Good(m) /\ m + 1 \in 0 .. Len(s) /\ m + 1 \in 1 .. Len(s)
    BY <1>2
  <2>2. s[m + 1] \in S
    BY <2>1
  <2>3. k[m + 1] = IF s[m + 1] = o THEN k[m] ELSE Append(k[m], s[m + 1])
    BY <1>3, <2>1
  <2>4. CASE s[m + 1] = o
    <3>1. \A q : q # o => Cardinality(Places(q, s, m + 1)) = Cardinality(Places(q, s, m))
      BY <2>1, <2>4, PlacesNext
    <3>2. QED
      BY <2>1, <2>3, <2>4, <3>1
  <2>5. CASE s[m + 1] # o
    <3>1. k[m + 1] = Append(k[m], s[m + 1])
      BY <2>3, <2>5
    <3>2. k[m + 1] \in Seq(S) /\ Len(k[m + 1]) <= m + 1
      BY <2>1, <2>2, <3>1
    <3>3. ASSUME NEW q
          PROVE  Count(q, k[m + 1]) = IF q = o THEN 0 ELSE Cardinality(Places(q, s, m + 1))
      <4>1. Count(q, k[m + 1]) = IF s[m + 1] = q THEN Count(q, k[m]) + 1 ELSE Count(q, k[m])
        BY <2>1, <2>2, <3>1, CountAppend
      <4>2. Cardinality(Places(q, s, m + 1))
              = IF s[m + 1] = q THEN Cardinality(Places(q, s, m)) + 1 ELSE Cardinality(Places(q, s, m))
        BY <2>1, PlacesNext
      <4>3. QED
        BY <2>1, <2>5, <4>1, <4>2
    <3>4. QED
      BY <3>2, <3>3
  <2>6. QED
    BY <2>4, <2>5
<1>6. N = Nat
  <2> HIDE DEF N
  <2>1. N \subseteq Nat
    BY DEF N
  <2>2. QED
    BY <1>4, <1>5, <2>1, NatSetInduction
<1>7. Good(Len(s))
  <2> HIDE DEF Good
  <2>1. Len(s) \in N /\ Len(s) <= Len(s)
    BY <1>2, <1>6
  <2>2. QED
    BY <2>1
<1>8. QED
  BY <1>1, <1>7 DEF Count

-----------------------------------------------------------------------------
(* The observers: whoever the loop of notify has not told is still in the  *)
(* list it walks, and the list was the vector when the event came.         *)
TellOK ==
  /\ observers \in Seq(Observers) /\ Len(observers) <= MaxSubs
  /\ pending \in Seq(Observers) /\ Len(pending) <= MaxSubs
  /\ wanted \in [Observers -> Nat] /\ notified \in [Observers -> 0 .. MaxSubs]
  /\ shown \in [Observers -> ArmStates \cup {Untold}]

WantedInv == \A o \in Observers : wanted[o] = Count(o, observers)

ToldInv ==
  change # None =>
    \A o \in Observers : /\ notified[o] + Count(o, pending) = wanted[o]
                         /\ notified[o] > 0 => shown[o] = change.to

TellInv == ArmsInv /\ TellOK /\ WantedInv /\ ToldInv

LEMMA CountBound ==
  ASSUME NEW S, NEW s \in Seq(S), NEW q
  PROVE  Count(q, s) \in Nat /\ Count(q, s) <= Len(s)
<1>1. Len(s) \in Nat
  OBVIOUS
<1>2. QED
  BY <1>1, PlacesFinite DEF Count

LEMMA TellInvInit == ArmsInit => TellInv
<1> SUFFICES ASSUME ArmsInit PROVE TellInv
  OBVIOUS
<1>1. TellOK
  <2>1. <<>> \in Seq(Observers) /\ Len(<<>>) = 0
    OBVIOUS
  <2>2. QED
    BY <2>1, ArmsAssumption DEF ArmsInit, TellOK
<1>2. WantedInv /\ ToldInv
  BY CountEmpty DEF ArmsInit, WantedInv, ToldInv
<1>3. QED
  BY <1>1, <1>2, ArmsInvInit DEF TellInv

LEMMA TellSubscribe ==
  ASSUME TellInv, NEW o \in Observers, Subscribe(o) PROVE TellOK' /\ WantedInv' /\ ToldInv'
<1>1. /\ observers' \in Seq(Observers) /\ Len(observers') = Len(observers) + 1
      /\ Len(observers) \in Nat
  BY DEF TellInv, TellOK, Subscribe
<1>2. TellOK'
  BY <1>1, ArmsAssumption DEF TellInv, TellOK, Subscribe
<1>3. WantedInv'
  <2> SUFFICES ASSUME NEW q \in Observers PROVE wanted'[q] = Count(q, observers')
    BY DEF WantedInv
  <2>1. Count(q, observers') = IF o = q THEN Count(q, observers) + 1 ELSE Count(q, observers)
    BY CountAppend DEF TellInv, TellOK, Subscribe
  <2>2. wanted'[q] = IF o = q THEN wanted[q] + 1 ELSE wanted[q]
    BY DEF TellInv, TellOK, Subscribe
  <2>3. QED
    BY <2>1, <2>2 DEF TellInv, WantedInv
<1>4. ToldInv'
  BY DEF ToldInv, Subscribe
<1>5. QED
  BY <1>2, <1>3, <1>4

LEMMA TellUnsubscribe ==
  ASSUME TellInv, NEW o \in Observers, Unsubscribe(o) PROVE TellOK' /\ WantedInv' /\ ToldInv'
<1>1. /\ Without(observers, o) \in Seq(Observers) /\ Len(Without(observers, o)) <= Len(observers)
      /\ \A q : Count(q, Without(observers, o)) = IF q = o THEN 0 ELSE Count(q, observers)
  BY WithoutCounts DEF TellInv, TellOK
<1>2. Len(observers) \in Nat /\ Len(Without(observers, o)) \in Nat
  BY <1>1 DEF TellInv, TellOK
<1>3. TellOK'
  BY <1>1, <1>2, ArmsAssumption DEF TellInv, TellOK, Unsubscribe
<1>4. WantedInv'
  BY <1>1 DEF TellInv, TellOK, WantedInv, Unsubscribe
<1>5. ToldInv'
  BY DEF ToldInv, Unsubscribe
<1>6. QED
  BY <1>3, <1>4, <1>5

LEMMA TellNotify == ASSUME TellInv, Notify PROVE TellOK' /\ WantedInv' /\ ToldInv'
<1> DEFINE h == Head(pending)
<1>1. /\ h \in Observers /\ Tail(pending) \in Seq(Observers)
      /\ Len(Tail(pending)) = Len(pending) - 1 /\ Len(pending) \in Nat
  BY DEF TellInv, TellOK, Notify
<1>2. change \in Changes /\ change.to \in ArmStates
  BY DEF TellInv, ArmsInv, ArmOK, Notify, Changes
<1>3. \A q : Count(q, pending) = Count(q, Tail(pending)) + (IF h = q THEN 1 ELSE 0)
  BY CountTail DEF TellInv, TellOK, Notify
<1>4. \A q \in Observers : Count(q, pending) \in Nat /\ Count(q, Tail(pending)) \in Nat
  BY <1>1, CountBound DEF TellInv, TellOK
<1>5. \A q \in Observers : wanted[q] <= MaxSubs
  BY CountBound, ArmsAssumption DEF TellInv, TellOK, WantedInv
<1> HIDE DEF h
<1>6. \A q \in Observers : /\ notified'[q] = (IF h = q THEN notified[q] + 1 ELSE notified[q])
                           /\ shown'[q] = (IF h = q THEN change.to ELSE shown[q])
  BY <1>1 DEF TellInv, TellOK, Notify, h
<1>7. notified' \in [Observers -> Nat] /\ shown' \in [Observers -> ArmStates \cup {Untold}]
  BY <1>1, <1>2, ArmsAssumption DEF TellInv, TellOK, Notify, h
<1>8. ToldInv'
  <2> SUFFICES ASSUME NEW q \in Observers
               PROVE  /\ notified'[q] + Count(q, Tail(pending)) = wanted[q]
                      /\ notified'[q] > 0 => shown'[q] = change.to
    BY DEF ToldInv, Notify
  <2>1. /\ notified[q] \in Nat /\ notified[q] + Count(q, pending) = wanted[q]
        /\ notified[q] > 0 => shown[q] = change.to
    BY ArmsAssumption DEF TellInv, TellOK, ToldInv, Notify
  <2>2. CASE h = q
    BY <1>3, <1>4, <1>6, <2>1, <2>2
  <2>3. CASE h # q
    BY <1>3, <1>4, <1>6, <2>1, <2>3
  <2>4. QED
    BY <2>2, <2>3
<1>9. notified' \in [Observers -> 0 .. MaxSubs]
  <2>1. ASSUME NEW q \in Observers PROVE notified'[q] \in 0 .. MaxSubs
    <3>1. notified[q] \in Nat /\ notified[q] + Count(q, pending) = wanted[q]
      BY ArmsAssumption DEF TellInv, TellOK, ToldInv, Notify
    <3>2. CASE h = q
      BY <1>3, <1>4, <1>5, <1>6, <3>1, <3>2, ArmsAssumption
    <3>3. CASE h # q
      BY <1>4, <1>5, <1>6, <3>1, <3>3, ArmsAssumption
    <3>4. QED
      BY <3>2, <3>3
  <2>2. QED
    BY <1>7, <2>1
<1>10. TellOK'
  BY <1>1, <1>7, <1>9, ArmsAssumption DEF TellInv, TellOK, Notify
<1>11. WantedInv'
  BY DEF TellInv, WantedInv, Notify
<1>12. QED
  BY <1>8, <1>10, <1>11

LEMMA TellAssign == ASSUME TellInv, Assign PROVE TellOK' /\ WantedInv' /\ ToldInv'
BY DEF TellInv, TellOK, WantedInv, ToldInv, Assign

LEMMA TellEvent ==
  ASSUME TellInv, NEW ev \in ArmEvents, Event(ev) PROVE TellOK' /\ WantedInv' /\ ToldInv'
<1>1. /\ change = None /\ UNCHANGED <<observers, wanted, shown>>
      /\ \/ UNCHANGED <<change, pending, notified>>
         \/ pending' = observers /\ notified' = [o \in Observers |-> 0]
  BY DEF Event, Send
<1>2. \A o \in Observers : wanted[o] \in Nat /\ wanted[o] = Count(o, observers)
  BY DEF TellInv, TellOK, WantedInv
<1>3. CASE UNCHANGED <<change, pending, notified>>
  BY <1>1, <1>3 DEF TellInv, TellOK, WantedInv, ToldInv
<1>4. CASE pending' = observers /\ notified' = [o \in Observers |-> 0]
  BY <1>1, <1>2, <1>4, ArmsAssumption DEF TellInv, TellOK, WantedInv, ToldInv
<1>5. QED
  BY <1>1, <1>3, <1>4

LEMMA TellUnchanged ==
  ASSUME TellInv, UNCHANGED subjectVars PROVE TellOK' /\ WantedInv' /\ ToldInv'
BY DEF subjectVars, TellInv, TellOK, WantedInv, ToldInv

(* During a notification, how often an observer was told and how often it  *)
(* is still in the rest of the list add up to its subscriptions.           *)
THEOREM TellInvHolds == ArmsSpec => []TellInv
<1>1. ASSUME TellInv, [ArmsNext]_armsVars PROVE TellOK' /\ WantedInv' /\ ToldInv'
  <2>1. CASE UNCHANGED subjectVars
    BY <1>1, <2>1, TellUnchanged
  <2>2. ASSUME NEW o \in Observers, Subscribe(o) PROVE TellOK' /\ WantedInv' /\ ToldInv'
    BY <1>1, <2>2, TellSubscribe
  <2>3. ASSUME NEW o \in Observers, Unsubscribe(o) PROVE TellOK' /\ WantedInv' /\ ToldInv'
    BY <1>1, <2>3, TellUnsubscribe
  <2>4. CASE Notify
    BY <1>1, <2>4, TellNotify
  <2>5. CASE Assign
    BY <1>1, <2>5, TellAssign
  <2>6. ASSUME NEW ev \in ArmEvents, Event(ev) PROVE TellOK' /\ WantedInv' /\ ToldInv'
    BY <1>1, <2>6, TellEvent
  <2>7. QED
    BY <1>1, <2>1, <2>2, <2>3, <2>4, <2>5, <2>6 DEF ArmsNext, TableStep, SubjectStep, armsVars
<1>2. ArmsInv /\ [ArmsNext]_armsVars => ArmsInv'
  BY ArmsTableStep, ArmsSubjectStep, ArmsEvent, ArmsUnchanged DEF ArmsNext
<1>3. TellInv /\ [ArmsNext]_armsVars => TellInv'
  BY <1>1, <1>2 DEF TellInv
<1>4. QED
  BY <1>3, TellInvInit, PTL DEF ArmsSpec

(* When the loop of notify is through, every observer was told as often as *)
(* it is subscribed, for any number of observers and any order of          *)
(* subscribe and unsubscribe.                                              *)
THEOREM ObserversAreTold == ArmsSpec => []EveryoneTold
<1>1. TellInv => EveryoneTold
  <2> SUFFICES ASSUME TellInv, change # None, pending = <<>>, NEW o \in Observers
               PROVE  notified[o] = wanted[o] /\ (wanted[o] > 0 => shown[o] = change.to)
    BY DEF EveryoneTold
  <2>1. Count(o, pending) = 0 /\ notified[o] \in Nat
    BY CountEmpty, ArmsAssumption DEF TellInv, TellOK
  <2>2. QED
    BY <2>1 DEF TellInv, ToldInv
<1>2. QED
  BY <1>1, TellInvHolds, PTL

(* Both arms keep their types: among them that no observer is counted more *)
(* often than the vector has entries.                                      *)
THEOREM ArmsTypeCorrect == ArmsSpec => []ArmsTypeOK
<1>1. TellInv => ArmsTypeOK
  <2> SUFFICES ASSUME TellInv PROVE ArmsTypeOK
    OBVIOUS
  <2>1. ASSUME NEW o \in Observers PROVE wanted[o] \in 0 .. MaxSubs
    BY CountBound, ArmsAssumption DEF TellInv, TellOK, WantedInv
  <2>2. wanted \in [Observers -> 0 .. MaxSubs]
    BY <2>1 DEF TellInv, TellOK
  <2>3. QED
    BY <2>2 DEF TellInv, TellOK, ArmsInv, MachineOK, ArmOK, Changes, ArmsTypeOK
<1>2. QED
  BY <1>1, TellInvHolds, PTL
-----------------------------------------------------------------------------
(* The robot console.  A hint is printed after the mutex is released; what *)
(* makes it true when it is read is that it is only computed while the     *)
(* user has no hint left to follow.                                        *)

(* The output waits only between a tick and its emit.                      *)
OutInv == sim.at # "emit" => sim.out = "none"

(* Who follows the hints has answered the last one while the next is in    *)
(* the making, and the state is the one the hint speaks of.                *)
FollowInv ==
  follows =>
    /\ ~refused
    /\ ~answered => robot.state = From(told)
    /\ sim.out \in Transitions =>
         /\ answered /\ robot.state = From(sim.out)
         /\ robot.state = "MOVING" => robot.hinted
    /\ robot.state \in {"GRASPING", "RETURNING"} => answered
    /\ robot.state = "MOVING" /\ ~robot.hinted => answered

(* The target stays reached, because the age of a state only grows.        *)
HintedInv == robot.hinted => robot.age > Approach

ConsoleInv == TypeOK /\ OutInv /\ FollowInv /\ HintedInv /\ ReadingsMatchState

-----------------------------------------------------------------------------

LEMMA CapIsEnough == Cap \in Nat /\ Cap > Approach /\ Cap > Grip
  BY TimesAssumption DEF Cap

LEMMA FromTo ==
  /\ From("start") = "IDLE" /\ From("grasp") = "MOVING" /\ From("release") = "HOLDING"
  /\ To("start") = "MOVING" /\ To("grasp") = "GRASPING" /\ To("release") = "RETURNING"
  BY DEF From, To

(* What one tick makes of the robot, state by state.                       *)
LEMMA AdvanceMoves ==
  ASSUME TypeOK, HintedInv, ReadingsMatchState,
         NEW r, r = Advance(robot), NEW h, h = Hint(robot)
  PROVE  /\ r \in [state : States, age : 0 .. Cap, lidar : 0 .. Approach,
                   force : 0 .. Grip, hinted : BOOLEAN, running : BOOLEAN]
         /\ h \in Transitions \cup {"none"}
         /\ r.state = "IDLE" => r.lidar = Approach /\ r.force = 0
         /\ r.state = "MOVING" => r.force = 0
         /\ r.state = "HOLDING" => r.force = Grip
         /\ r.hinted => r.state = "MOVING" /\ r.lidar = 0 /\ r.age > Approach
         /\ h \in Transitions => r.state = From(h) /\ (r.state = "MOVING" => r.hinted)
         /\ h \in Transitions => \/ robot.state \in {"GRASPING", "RETURNING"}
                                 \/ robot.state = "MOVING" /\ ~robot.hinted
         /\ h = "none" => r.state = robot.state
         /\ h = "none" /\ r.state = "MOVING" => r.hinted = robot.hinted
<1> USE TimesAssumption, CapIsEnough, FromTo
<1>0. /\ robot \in [state : States, age : 0 .. Cap, lidar : 0 .. Approach,
                    force : 0 .. Grip, hinted : BOOLEAN, running : BOOLEAN]
      /\ robot.state = "IDLE" => robot.lidar = Approach /\ robot.force = 0
      /\ robot.state = "MOVING" => robot.force = 0
      /\ robot.state = "HOLDING" => robot.force = Grip
      /\ robot.hinted => robot.state = "MOVING" /\ robot.lidar = 0
      /\ robot.hinted => robot.age > Approach
  BY DEF TypeOK, HintedInv, ReadingsMatchState
<1>1. CASE robot.state = "MOVING"
  <2>1. r = Approaching(robot)
    BY <1>1 DEF Advance
  <2>2. h = IF robot.age > Approach /\ ~robot.hinted THEN "grasp" ELSE "none"
    BY <1>1 DEF Hint
  <2> DEFINE lidar == IF robot.age >= Approach THEN 0 ELSE Approach - robot.age
             hinted == robot.hinted \/ robot.age > Approach
  <2>3. r = [robot EXCEPT !.lidar = lidar, !.hinted = hinted]
    BY <2>1 DEF Approaching
  <2>4. /\ lidar \in 0 .. Approach /\ hinted \in BOOLEAN
        /\ hinted => lidar = 0 /\ robot.age > Approach
    BY <1>0
  <2>5. hinted <=> robot.hinted \/ robot.age > Approach
    OBVIOUS
  <2> HIDE DEF lidar, hinted
  <2>6. /\ r \in [state : States, age : 0 .. Cap, lidar : 0 .. Approach,
                   force : 0 .. Grip, hinted : BOOLEAN, running : BOOLEAN]
        /\ r.state = robot.state /\ r.lidar = lidar /\ r.hinted = hinted
        /\ r.age = robot.age /\ r.force = robot.force
    BY <1>0, <2>3, <2>4
  <2> QED
    BY <1>0, <1>1, <2>2, <2>4, <2>5, <2>6 DEF Transitions
<1>2. CASE robot.state = "GRASPING"
  <2>1. r = Gripping(robot)
    BY <1>2 DEF Advance
  <2>2. h = IF robot.age > Grip THEN "release" ELSE "none"
    BY <1>2 DEF Hint
  <2>3. CASE robot.age > Grip
    <3>1. r = [[robot EXCEPT !.state = "HOLDING", !.hinted = FALSE, !.age = 0] EXCEPT !.force = Grip]
      BY <2>1, <2>3 DEF Gripping, Enter
    <3> DEFINE e == [robot EXCEPT !.state = "HOLDING", !.hinted = FALSE, !.age = 0]
    <3>3. /\ 0 \in 0 .. Cap /\ 0 \in 0 .. Grip /\ Grip \in 0 .. Grip
          /\ Approach \in 0 .. Approach /\ "HOLDING" \in States
      BY DEF States
    <3>4. /\ e \in [state : States, age : 0 .. Cap, lidar : 0 .. Approach,
                   force : 0 .. Grip, hinted : BOOLEAN, running : BOOLEAN]
          /\ e.state = "HOLDING" /\ e.hinted = FALSE
      BY <1>0, <3>3
    <3> HIDE DEF e
    <3>5. r = [e EXCEPT !.force = Grip]
      BY <3>1 DEF e
    <3>6. r \in [state : States, age : 0 .. Cap, lidar : 0 .. Approach,
                   force : 0 .. Grip, hinted : BOOLEAN, running : BOOLEAN]
      BY <3>3, <3>4, <3>5
    <3>7. r.state = "HOLDING" /\ r.force = Grip /\ r.hinted = FALSE
      BY <3>4, <3>5
    <3> QED
      BY <1>2, <2>2, <2>3, <3>6, <3>7 DEF Transitions
  <2>4. CASE ~(robot.age > Grip)
    <3> DEFINE force == AtMost(Grip, robot.age)
    <3>1. r = [robot EXCEPT !.force = force]
      BY <2>1, <2>4 DEF Gripping
    <3>2. force \in 0 .. Grip
      BY <1>0 DEF AtMost
    <3> HIDE DEF force
    <3>3. /\ r \in [state : States, age : 0 .. Cap, lidar : 0 .. Approach,
                     force : 0 .. Grip, hinted : BOOLEAN, running : BOOLEAN]
          /\ r.state = robot.state /\ r.hinted = robot.hinted
      BY <1>0, <3>1, <3>2
    <3> QED
      BY <1>0, <1>2, <2>2, <2>4, <3>3 DEF Transitions
  <2> QED
    BY <2>3, <2>4
<1>3. CASE robot.state = "RETURNING"
  <2>1. r = Returning(robot)
    BY <1>3 DEF Advance
  <2>2. h = IF robot.age > Approach THEN "start" ELSE "none"
    BY <1>3 DEF Hint
  <2>3. CASE robot.age > Approach
    <3>1. r = [[robot EXCEPT !.state = "IDLE", !.hinted = FALSE, !.age = 0]
                 EXCEPT !.force = 0, !.lidar = Approach]
      BY <2>1, <2>3 DEF Returning, Enter
    <3> DEFINE e == [robot EXCEPT !.state = "IDLE", !.hinted = FALSE, !.age = 0]
    <3>3. /\ 0 \in 0 .. Cap /\ 0 \in 0 .. Grip /\ Grip \in 0 .. Grip
          /\ Approach \in 0 .. Approach /\ "IDLE" \in States
      BY DEF States
    <3>4. /\ e \in [state : States, age : 0 .. Cap, lidar : 0 .. Approach,
                   force : 0 .. Grip, hinted : BOOLEAN, running : BOOLEAN]
          /\ e.state = "IDLE" /\ e.hinted = FALSE
      BY <1>0, <3>3
    <3> HIDE DEF e
    <3>5. r = [e EXCEPT !.force = 0, !.lidar = Approach]
      BY <3>1 DEF e
    <3>6. r \in [state : States, age : 0 .. Cap, lidar : 0 .. Approach,
                   force : 0 .. Grip, hinted : BOOLEAN, running : BOOLEAN]
      BY <3>3, <3>4, <3>5
    <3>7. r.state = "IDLE" /\ r.force = 0 /\ r.lidar = Approach /\ r.hinted = FALSE
      BY <3>4, <3>5
    <3> QED
      BY <1>3, <2>2, <2>3, <3>6, <3>7 DEF Transitions
  <2>4. CASE ~(robot.age > Approach)
    <3> DEFINE lidar == AtMost(Approach, robot.age)
    <3>1. r = [robot EXCEPT !.force = 0, !.lidar = lidar]
      BY <2>1, <2>4 DEF Returning
    <3>2. lidar \in 0 .. Approach
      BY <1>0 DEF AtMost
    <3> HIDE DEF lidar
    <3>3. /\ r \in [state : States, age : 0 .. Cap, lidar : 0 .. Approach,
                     force : 0 .. Grip, hinted : BOOLEAN, running : BOOLEAN]
          /\ r.state = robot.state /\ r.hinted = robot.hinted
      <4>1. 0 \in 0 .. Grip
        OBVIOUS
      <4> QED
        BY <1>0, <3>1, <3>2, <4>1
    <3> QED
      BY <1>0, <1>3, <2>2, <2>4, <3>3 DEF Transitions
  <2> QED
    BY <2>3, <2>4
<1>4. CASE robot.state \in {"IDLE", "HOLDING"}
  <2>1. r = robot /\ h = "none"
    BY <1>4 DEF Advance, Hint
  <2> QED
    BY <1>0, <1>4, <2>1 DEF States, Transitions
<1> QED
  BY <1>0, <1>1, <1>2, <1>3, <1>4 DEF States

LEMMA ConsoleInvInit == Init => ConsoleInv
<1> SUFFICES ASSUME Init PROVE ConsoleInv
  OBVIOUS
<1> USE TimesAssumption, CapIsEnough, FromTo DEF Init
<1>1. TypeOK
  <2>1. /\ robot \in [state : States, age : 0 .. Cap, lidar : 0 .. Approach,
                       force : 0 .. Grip, hinted : BOOLEAN, running : BOOLEAN]
        /\ told \in Transitions
    BY DEF States, Transitions
  <2>2. 0 \in 0 .. Every - 1
    OBVIOUS
  <2>3. sim \in [at : {"sleep", "emit", "done"}, rested : BOOLEAN, tick : 0 .. Every - 1,
                 out : Transitions \cup {"none", "readout"}]
    BY <2>2
  <2>4. user \in [at : {"getline", "emit", "join", "done"},
                  out : {"none", "done", "cannot", "text"}]
    OBVIOUS
  <2> QED
    BY <2>1, <2>3, <2>4 DEF TypeOK
<1>2. OutInv /\ FollowInv /\ HintedInv /\ ReadingsMatchState
  BY DEF OutInv, FollowInv, HintedInv, ReadingsMatchState, Transitions
<1> QED
  BY <1>1, <1>2 DEF ConsoleInv

LEMMA ConsoleInvNext == ConsoleInv /\ [Next]_vars => ConsoleInv'
<1> SUFFICES ASSUME ConsoleInv, [Next]_vars PROVE ConsoleInv'
  OBVIOUS
<1> USE TimesAssumption, CapIsEnough, FromTo
<1>0. TypeOK /\ OutInv /\ FollowInv /\ HintedInv /\ ReadingsMatchState
  BY DEF ConsoleInv
<1>1. CASE Elapse
  <2>1. /\ robot' = [robot EXCEPT !.age = AtMost(robot.age + 1, Cap)]
        /\ sim' = [sim EXCEPT !.rested = TRUE]
        /\ UNCHANGED <<user, told, answered, follows, refused>>
    BY <1>1 DEF Elapse
  <2>2. TypeOK'
    <3> DEFINE age == AtMost(robot.age + 1, Cap)
    <3>1. robot.age \in 0 .. Cap
      BY <1>0 DEF TypeOK
    <3>2. age \in 0 .. Cap
      BY <3>1 DEF AtMost
    <3> HIDE DEF age
    <3>3. robot' = [robot EXCEPT !.age = age]
      BY <2>1 DEF age
    <3>4. robot' \in [state : States, age : 0 .. Cap, lidar : 0 .. Approach,
                      force : 0 .. Grip, hinted : BOOLEAN, running : BOOLEAN]
      BY <1>0, <3>2, <3>3 DEF TypeOK
    <3>5. sim' \in [at : {"sleep", "emit", "done"}, rested : BOOLEAN, tick : 0 .. Every - 1,
                    out : Transitions \cup {"none", "readout"}]
      BY <1>0, <2>1 DEF TypeOK
    <3> QED
      BY <1>0, <2>1, <3>4, <3>5 DEF TypeOK
  <2>3. /\ robot'.state = robot.state /\ robot'.lidar = robot.lidar
        /\ robot'.force = robot.force /\ robot'.hinted = robot.hinted
        /\ robot'.age = AtMost(robot.age + 1, Cap)
        /\ sim'.at = sim.at /\ sim'.out = sim.out
        /\ robot.age \in Nat
    BY <1>0, <2>1 DEF TypeOK
  <2>4. OutInv' /\ FollowInv' /\ ReadingsMatchState'
    BY <1>0, <2>1, <2>3 DEF OutInv, FollowInv, ReadingsMatchState
  <2>5. HintedInv'
    BY <1>0, <2>3 DEF HintedInv, AtMost
  <2> QED
    BY <2>2, <2>4, <2>5 DEF ConsoleInv
<1>2. CASE SimTicks
  <2> DEFINE tick == (sim.tick + 1) % Every
             h == Hint(robot)
             out == Output(h, tick)
  <2>1. /\ sim.at = "sleep"
        /\ sim' = [at |-> IF out = "none" THEN "sleep" ELSE "emit",
                   rested |-> FALSE, tick |-> tick, out |-> out]
        /\ robot' = Advance(robot)
        /\ UNCHANGED <<user, told, answered, follows, refused>>
    BY <1>2 DEF SimTicks
  <2>2. tick \in 0 .. Every - 1
    BY <1>0 DEF TypeOK
  <2> HIDE DEF tick, h
  <2>3. /\ robot' \in [state : States, age : 0 .. Cap, lidar : 0 .. Approach,
                       force : 0 .. Grip, hinted : BOOLEAN, running : BOOLEAN]
        /\ h \in Transitions \cup {"none"}
        /\ robot'.state = "IDLE" => robot'.lidar = Approach /\ robot'.force = 0
        /\ robot'.state = "MOVING" => robot'.force = 0
        /\ robot'.state = "HOLDING" => robot'.force = Grip
        /\ robot'.hinted => robot'.state = "MOVING" /\ robot'.lidar = 0 /\ robot'.age > Approach
        /\ h \in Transitions =>
             robot'.state = From(h) /\ (robot'.state = "MOVING" => robot'.hinted)
        /\ h \in Transitions => \/ robot.state \in {"GRASPING", "RETURNING"}
                                \/ robot.state = "MOVING" /\ ~robot.hinted
        /\ h = "none" => robot'.state = robot.state
        /\ h = "none" /\ robot'.state = "MOVING" => robot'.hinted = robot.hinted
    BY <1>0, <2>1, AdvanceMoves DEF h
  <2>4. /\ h \in Transitions => out = h
        /\ h = "none" => out \in {"none", "readout"}
    BY <2>3 DEF Output, Transitions
  <2>5. sim'.out = out /\ (sim'.at # "emit" => out = "none")
    BY <2>1
  <2>6. TypeOK'
    <3>1. sim' \in [at : {"sleep", "emit", "done"}, rested : BOOLEAN, tick : 0 .. Every - 1,
                    out : Transitions \cup {"none", "readout"}]
      BY <2>1, <2>2, <2>3, <2>4
    <3> QED
      BY <1>0, <2>1, <2>3, <3>1 DEF TypeOK
  <2>7. OutInv' /\ HintedInv' /\ ReadingsMatchState'
    BY <2>3, <2>5 DEF OutInv, HintedInv, ReadingsMatchState
  <2>8. FollowInv'
    <3> SUFFICES ASSUME follows' PROVE FollowInv'
      BY DEF FollowInv
    <3>1. follows /\ answered' = answered /\ told' = told /\ refused' = refused
      BY <2>1
    <3>2. CASE h \in Transitions
      <4>1. answered /\ ~refused
        BY <1>0, <2>3, <3>1, <3>2 DEF FollowInv
      <4> QED
        BY <2>3, <2>4, <2>5, <3>1, <3>2, <4>1 DEF FollowInv
    <3>3. CASE h = "none"
      <4>1. sim'.out \notin Transitions
        BY <2>4, <2>5, <3>3 DEF Transitions
      <4> QED
        BY <1>0, <2>3, <3>1, <3>3, <4>1 DEF FollowInv
    <3> QED
      BY <2>3, <3>2, <3>3
  <2> QED
    BY <2>6, <2>7, <2>8 DEF ConsoleInv
<1>3. CASE SimEmits
  <2>1. /\ sim.at = "emit"
        /\ sim' = [sim EXCEPT !.at = "sleep", !.rested = FALSE, !.out = "none"]
        /\ UNCHANGED <<robot, user, follows, refused>>
        /\ IF sim.out \in Transitions
           THEN told' = sim.out /\ answered' = FALSE
           ELSE told' = told /\ answered' = answered
    BY <1>3 DEF SimEmits
  <2>2. TypeOK'
    BY <1>0, <2>1 DEF TypeOK
  <2>3. sim'.at = "sleep" /\ sim'.out = "none" /\ "none" \notin Transitions
    BY <1>0, <2>1 DEF TypeOK, Transitions
  <2>4. OutInv' /\ HintedInv' /\ ReadingsMatchState'
    BY <1>0, <2>1, <2>3 DEF OutInv, HintedInv, ReadingsMatchState
  <2>5. FollowInv'
    <3>1. CASE sim.out \in Transitions
      BY <1>0, <2>1, <2>3, <3>1 DEF FollowInv, Transitions
    <3>2. CASE sim.out \notin Transitions
      BY <1>0, <2>1, <2>3, <3>2 DEF FollowInv
    <3> QED
      BY <3>1, <3>2
  <2> QED
    BY <2>2, <2>4, <2>5 DEF ConsoleInv
<1>4. CASE SimEnds
  <2>1. /\ sim' = [sim EXCEPT !.at = "done"] /\ sim.at = "sleep"
        /\ UNCHANGED <<robot, user, told, answered, follows, refused>>
    BY <1>4 DEF SimEnds
  <2>2. TypeOK'
    BY <1>0, <2>1 DEF TypeOK
  <2>3. sim'.at = "done" /\ sim'.out = sim.out /\ sim.out = "none"
    BY <1>0, <2>1 DEF TypeOK, OutInv
  <2>4. OutInv' /\ FollowInv' /\ HintedInv' /\ ReadingsMatchState'
    BY <1>0, <2>1, <2>3 DEF OutInv, FollowInv, HintedInv, ReadingsMatchState
  <2> QED
    BY <2>2, <2>4 DEF ConsoleInv
<1>5. ASSUME NEW c \in Transitions, UserCommands(c)
      PROVE  ConsoleInv'
  <2>1. /\ user' = [at |-> "emit", out |-> IF Allowed(robot, c) THEN "done" ELSE "cannot"]
        /\ follows' = (follows /\ c = told /\ ~answered)
        /\ answered' = TRUE
        /\ refused' = (refused \/ ~Allowed(robot, c))
        /\ sim' = sim /\ told' = told
    BY <1>5 DEF UserCommands
  <2>2. robot' = IF Allowed(robot, c) THEN Enter(robot, To(c)) ELSE robot
    BY <1>5 DEF UserCommands
  <2>3. CASE Allowed(robot, c)
    <3>1. /\ robot' = [robot EXCEPT !.state = To(c), !.hinted = FALSE, !.age = 0]
          /\ robot.state = From(c)
      BY <2>2, <2>3 DEF Enter, Allowed
    <3>2. To(c) \in States /\ To(c) # "IDLE" /\ To(c) # "HOLDING"
          /\ (To(c) = "MOVING" => From(c) = "IDLE")
      BY DEF Transitions, States
    <3>3. TypeOK'
      <4>1. robot' \in [state : States, age : 0 .. Cap, lidar : 0 .. Approach,
                        force : 0 .. Grip, hinted : BOOLEAN, running : BOOLEAN]
        <5>1. 0 \in 0 .. Cap
          OBVIOUS
        <5> QED
          BY <1>0, <3>1, <3>2, <5>1 DEF TypeOK
      <4>2. user' \in [at : {"getline", "emit", "join", "done"},
                       out : {"none", "done", "cannot", "text"}]
        BY <2>1, <2>3
      <4>3. follows' \in BOOLEAN /\ refused' \in BOOLEAN /\ answered' \in BOOLEAN
        BY <1>0, <2>1, <2>3 DEF TypeOK
      <4> QED
        BY <1>0, <2>1, <4>1, <4>2, <4>3 DEF TypeOK
    <3>4. /\ robot'.state = To(c) /\ robot'.hinted = FALSE /\ robot'.force = robot.force
          /\ robot'.lidar = robot.lidar
      BY <1>0, <3>1 DEF TypeOK
    <3>5. OutInv' /\ HintedInv' /\ ReadingsMatchState'
      BY <1>0, <2>1, <3>1, <3>2, <3>4 DEF OutInv, HintedInv, ReadingsMatchState
    <3>6. FollowInv'
      BY <1>0, <2>1, <2>3 DEF FollowInv
    <3> QED
      BY <3>3, <3>5, <3>6 DEF ConsoleInv
  <2>4. CASE ~Allowed(robot, c)
    <3>1. robot' = robot
      BY <2>2, <2>4
    <3>2. TypeOK'
      BY <1>0, <2>1, <3>1 DEF TypeOK
    <3>3. OutInv' /\ HintedInv' /\ ReadingsMatchState'
      BY <1>0, <2>1, <3>1 DEF OutInv, HintedInv, ReadingsMatchState
    <3>4. ~follows'
      BY <1>0, <2>1, <2>4 DEF FollowInv, Allowed
    <3> QED
      BY <3>2, <3>3, <3>4 DEF ConsoleInv, FollowInv
  <2> QED
    BY <2>3, <2>4
<1>6. CASE UserAsks \/ UserEmits \/ UserQuits \/ MainJoins
  <2>1. /\ UNCHANGED <<sim, told, answered, follows, refused>>
        /\ robot' \in {robot, [robot EXCEPT !.running = FALSE]}
    BY <1>6 DEF UserAsks, UserEmits, UserQuits, MainJoins
  <2>2. TypeOK'
    <3>1. robot' \in [state : States, age : 0 .. Cap, lidar : 0 .. Approach,
                      force : 0 .. Grip, hinted : BOOLEAN, running : BOOLEAN]
      BY <1>0, <2>1 DEF TypeOK
    <3>2. user' \in [at : {"getline", "emit", "join", "done"},
                     out : {"none", "done", "cannot", "text"}]
      BY <1>0, <1>6 DEF UserAsks, UserEmits, UserQuits, MainJoins, TypeOK
    <3> QED
      BY <1>0, <2>1, <3>1, <3>2 DEF TypeOK
  <2>3. /\ robot'.state = robot.state /\ robot'.lidar = robot.lidar
        /\ robot'.force = robot.force /\ robot'.hinted = robot.hinted
        /\ robot'.age = robot.age
    BY <1>0, <2>1 DEF TypeOK
  <2>4. OutInv' /\ FollowInv' /\ HintedInv' /\ ReadingsMatchState'
    BY <1>0, <2>1, <2>3 DEF OutInv, FollowInv, HintedInv, ReadingsMatchState
  <2> QED
    BY <2>2, <2>4 DEF ConsoleInv
<1>7. CASE UNCHANGED vars
  BY <1>0, <1>7 DEF vars, ConsoleInv, TypeOK, OutInv, FollowInv, HintedInv, ReadingsMatchState
<1> QED
  BY <1>1, <1>2, <1>3, <1>4, <1>5, <1>6, <1>7 DEF Next, Simulation, Console

(* In every reachable state the invariant holds.                           *)
THEOREM ConsoleInvHolds == Spec => []ConsoleInv
<1>1. Init => ConsoleInv
  BY ConsoleInvInit
<1>2. ConsoleInv /\ [Next]_vars => ConsoleInv'
  BY ConsoleInvNext
<1> QED
  BY <1>1, <1>2, PTL DEF Spec

(* The variables keep their types: ages, distances and forces stay within  *)
(* the thresholds of the simulation.                                       *)
THEOREM ConsoleTypeCorrect == Spec => []TypeOK
<1>1. ConsoleInv => TypeOK
  BY DEF ConsoleInv
<1> QED
  BY <1>1, ConsoleInvHolds, PTL

(* A user who follows the hints is never refused, however the printing and *)
(* the typing interleave and however long the states last.                 *)
THEOREM FollowersAreServed == Spec => []FollowerIsNeverRefused
<1>1. ConsoleInv => FollowerIsNeverRefused
  BY DEF ConsoleInv, FollowInv, FollowerIsNeverRefused
<1> QED
  BY <1>1, ConsoleInvHolds, PTL

(* The readings between two ticks are those of the robot's state.          *)
THEOREM ReadingsAreRight == Spec => []ReadingsMatchState
<1>1. ConsoleInv => ReadingsMatchState
  BY DEF ConsoleInv
<1> QED
  BY <1>1, ConsoleInvHolds, PTL
=============================================================================
