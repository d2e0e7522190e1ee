----------------------------- MODULE RobotArms -----------------------------
(***************************************************************************)
(* The robot arm is written twice: projects/state_machine drives it from a *)
(* table of transitions with exit, transition and enter callbacks, and     *)
(* projects/observer from a chain of conditions that notifies observers.   *)
(* Here both arms are sent the same events, one step of each callback or   *)
(* notification at a time, so that they can be compared at rest.           *)
(***************************************************************************)
EXTENDS Naturals, Sequences

CONSTANTS Observers,   \* the Logger, the SafetyMonitor, the Dashboard
          MaxSubs      \* bound: entries of the vector of observers

ASSUME ArmsAssumption == Observers # {} /\ MaxSubs \in Nat

\* enum class ArmState and ArmEvent: the keys of the table are made of their values.
IDLE == 0
MOVING == 1
GRASPING == 2
HOLDING == 3
RETURNING == 4

START == 0
ARRIVED == 1
GRASPED == 2
RELEASE == 3
HOME == 4
ERROR == 5

ArmStates == IDLE .. RETURNING
ArmEvents == START .. ERROR
None == [none |-> TRUE]
Untold == RETURNING + 1   \* what an observer shows before its first change

VARIABLES
    current,     \* StateMachine::current_
    at,          \* where process stands: "ready", "exit", "action", "enter"
    firing,      \* the entry of the table that is being carried out
    motion,      \* what the callbacks have reported last: the arm is moving
    state,       \* RobotArm::state_ of the observed arm
    observers,   \* Subject::observers_
    change,      \* the StateChange being notified, None outside send
    pending,     \* the observers the loop of notify has not reached
    wanted,      \* how many subscriptions of each observer stand
    notified,    \* how often each has been told of the last change
    shown        \* the state each has last been told of

tableVars == <<current, at, firing, motion>>
subjectVars == <<state, observers, change, pending, wanted, notified, shown>>
armsVars == <<tableVars, subjectVars>>

-----------------------------------------------------------------------------
(* The table machine.                                                      *)

\* Mutant: the two halves of the key overlap.
KeyUnshifted(from, ev) == from + ev

TransitionKey(from, ev) == from * 65536 + ev

Route == {<<IDLE, START, MOVING>>, <<MOVING, ARRIVED, GRASPING>>,
          <<GRASPING, GRASPED, HOLDING>>, <<HOLDING, RELEASE, RETURNING>>,
          <<RETURNING, HOME, IDLE>>}

Active == {MOVING, GRASPING, HOLDING, RETURNING}

Rows == {[key |-> TransitionKey(r[1], r[2]), to |-> r[3], stop |-> FALSE] : r \in Route}
          \cup {[key |-> TransitionKey(s, ERROR), to |-> IDLE, stop |-> TRUE] : s \in Active}

Moves(s) == s \in {MOVING, RETURNING}

Found(ev) == {row \in Rows : row.key = TransitionKey(current, ev)}

Process(ev) ==
    /\ at = "ready"
    /\ IF Found(ev) = {}
          THEN UNCHANGED <<at, firing>>
          ELSE firing' \in Found(ev) /\ at' = "exit"
    /\ UNCHANGED <<current, motion>>

\* Mutant: the exit callback looks up the state that is being entered.
CallExitOfTarget ==
    /\ at = "exit"
    /\ at' = "action"
    /\ motion' = (motion /\ ~Moves(firing.to))
    /\ UNCHANGED <<current, firing>>

CallExit ==
    /\ at = "exit"
    /\ at' = "action"
    /\ motion' = (motion /\ ~Moves(current))
    /\ UNCHANGED <<current, firing>>

RunAction ==
    /\ at = "action"
    /\ at' = "enter"
    /\ UNCHANGED <<current, firing, motion>>

MoveAndEnter ==
    /\ at = "enter"
    /\ at' = "ready"
    /\ current' = firing.to
    /\ motion' = (motion \/ Moves(firing.to))
    /\ firing' = None

-----------------------------------------------------------------------------
(* The observed arm.                                                       *)

Subscribe(o) ==
    /\ change = None
    /\ Len(observers) < MaxSubs
    /\ observers' = Append(observers, o)
    /\ wanted' = [wanted EXCEPT ![o] = @ + 1]
    /\ UNCHANGED <<state, change, pending, notified, shown>>

\* What std::remove moves to the front and erase leaves.  (SelectSeq says the
\* same; this form can be reasoned about.)
Without(s, o) ==
    LET kept[i \in 0 .. Len(s)] ==
            IF i = 0 THEN <<>>
            ELSE IF s[i] = o THEN kept[i - 1] ELSE Append(kept[i - 1], s[i])
    IN  kept[Len(s)]

\* Mutant: std::remove without erase: the vector keeps its length.
UnsubscribeKeepsTail(o) ==
    /\ change = None
    /\ LET kept == Without(observers, o)
       IN  observers' = kept \o SubSeq(observers, Len(kept) + 1, Len(observers))
    /\ wanted' = [wanted EXCEPT ![o] = 0]
    /\ UNCHANGED <<state, change, pending, notified, shown>>

Unsubscribe(o) ==
    /\ change = None
    /\ observers' = Without(observers, o)
    /\ wanted' = [wanted EXCEPT ![o] = 0]
    /\ UNCHANGED <<state, change, pending, notified, shown>>

\* RobotArm::transition: what the event leads to, nothing for an invalid one.
Transition(s, ev) ==
    CASE s = IDLE      /\ ev = START   -> {MOVING}
      [] s = MOVING    /\ ev = ARRIVED -> {GRASPING}
      [] s = GRASPING  /\ ev = GRASPED -> {HOLDING}
      [] s = HOLDING   /\ ev = RELEASE -> {RETURNING}
      [] s = RETURNING /\ ev = HOME    -> {IDLE}
      [] s # IDLE      /\ ev = ERROR   -> {IDLE}
      [] OTHER -> {}

Send(ev) ==
    /\ change = None
    /\ IF Transition(state, ev) = {}
          THEN UNCHANGED <<change, pending, notified>>
          ELSE /\ \E next \in Transition(state, ev) :
                     change' = [from |-> state, to |-> next, trigger |-> ev]
               /\ pending' = observers
               /\ notified' = [o \in Observers |-> 0]
    /\ UNCHANGED <<state, observers, wanted, shown>>

Notify ==
    /\ change # None
    /\ pending # <<>>
    /\ notified' = [notified EXCEPT ![Head(pending)] = @ + 1]
    /\ shown' = [shown EXCEPT ![Head(pending)] = change.to]
    /\ pending' = Tail(pending)
    /\ UNCHANGED <<state, observers, change, wanted>>

Assign ==
    /\ change # None
    /\ pending = <<>>
    /\ state' = change.to
    /\ change' = None
    /\ UNCHANGED <<observers, pending, wanted, notified, shown>>

-----------------------------------------------------------------------------
ArmsInit ==
    /\ current = IDLE /\ at = "ready" /\ firing = None /\ motion = FALSE
    /\ state = IDLE /\ observers = <<>> /\ change = None /\ pending = <<>>
    /\ wanted = [o \in Observers |-> 0]
    /\ notified = [o \in Observers |-> 0]
    /\ shown = [o \in Observers |-> Untold]

AtRest == at = "ready" /\ change = None

\* Whoever uses the arms gives both the same event once both are done.
Event(ev) == AtRest /\ Process(ev) /\ Send(ev)

TableStep == (CallExit \/ RunAction \/ MoveAndEnter) /\ UNCHANGED subjectVars

SubjectStep ==
    /\ \/ Notify \/ Assign
       \/ \E o \in Observers : Subscribe(o) \/ Unsubscribe(o)
    /\ UNCHANGED tableVars

ArmsNext == TableStep \/ SubjectStep \/ \E ev \in ArmEvents : Event(ev)

ArmsSpec == ArmsInit /\ [][ArmsNext]_armsVars

-----------------------------------------------------------------------------
ArmsTypeOK ==
    /\ current \in ArmStates /\ state \in ArmStates
    /\ at \in {"ready", "exit", "action", "enter"}
    /\ firing \in Rows \cup {None}
    /\ motion \in BOOLEAN
    /\ observers \in Seq(Observers) /\ Len(observers) <= MaxSubs
    /\ pending \in Seq(Observers) /\ Len(pending) <= MaxSubs
    /\ wanted \in [Observers -> 0 .. MaxSubs]
    /\ notified \in [Observers -> 0 .. MaxSubs]
    /\ change \in [from : ArmStates, to : ArmStates, trigger : ArmEvents] \cup {None}
    /\ shown \in [Observers -> ArmStates \cup {Untold}]

\* The two ways of writing the arm are one arm: after any sequence of events,
\* valid or not, the table keyed by the packed (from, event) pair and the
\* chain of conditions have come to the same state (state_machine.hpp:26-50,
\* observer/robot_arm.hpp:78-90).
SameArm == AtRest => current = state

\* An emergency stop is announced only when the motion has been stopped: the
\* exit callback of a moving state comes before the action of the transition,
\* and what the callbacks have reported agrees with the state at rest
\* (state_machine.hpp:32-35).
StopsBeforeEmergency ==
    /\ at = "action" /\ firing.stop => ~motion
    /\ at = "ready" => (motion <=> Moves(current))

\* When the loop of notify is through, each observer has been told as often as
\* it is subscribed, and of the state the arm is about to enter: an observer
\* that was unsubscribed is not told (observer.hpp:21-34).
EveryoneTold ==
    change # None /\ pending = <<>> =>
        \A o \in Observers : /\ notified[o] = wanted[o]
                             /\ wanted[o] > 0 => shown[o] = change.to

=============================================================================
