------------------------------- MODULE Robocon -------------------------------
(***************************************************************************)
(* robocon/src/main.cpp: a thread that simulates an arm and prints hints,  *)
(* and the main thread that reads commands.  Both change the robot under   *)
(* its mutex (one step) and print after they have released it (another),   *)
(* so that a hint may describe a state the robot is no longer in.          *)
(***************************************************************************)
EXTENDS Naturals

CONSTANTS
  Approach,  \* periods of the simulation until the target, or home, is reached
  Grip,      \* periods until the grip force has built up
  Every      \* the simulation prints a readout every so many ticks

ASSUME TimesAssumption ==
  Approach \in Nat \ {0} /\ Grip \in Nat \ {0} /\ Every \in Nat \ {0}

VARIABLES
  robot,   \* state, age (elapsed), lidar, force, hinted and running
  sim,     \* the simulation thread: at, rested (has slept), tick, out
  user,    \* the main thread: at, out
  told,    \* the command the last hint on the screen asks for
  answered, \* history: the user has typed a command since that hint
  follows,  \* history: the user has only typed what a hint asked for, once
  refused   \* history: a command was refused

vars == <<robot, sim, user, told, answered, follows, refused>>

States == {"IDLE", "MOVING", "GRASPING", "HOLDING", "RETURNING"}
Transitions == {"start", "grasp", "release"}

Cap == IF Approach >= Grip THEN Approach + 1 ELSE Grip + 1
AtMost(a, b) == IF a <= b THEN a ELSE b

\* Robot::enter.
Enter(r, s) == [r EXCEPT !.state = s, !.hinted = FALSE, !.age = 0]

Init ==
  /\ robot = [state |-> "IDLE", age |-> 0, lidar |-> Approach, force |-> 0,
              hinted |-> FALSE, running |-> TRUE]
  /\ sim = [at |-> "sleep", rested |-> FALSE, tick |-> 0, out |-> "none"]
  /\ user = [at |-> "getline", out |-> "none"]
  /\ told = "start" /\ answered = FALSE
  /\ follows = TRUE /\ refused = FALSE

\* Time passes: the state gets older and a sleeping simulation has slept.
\* Ages beyond every threshold look alike.
Elapse ==
  /\ robot.age < Cap \/ ~sim.rested
  /\ robot' = [robot EXCEPT !.age = AtMost(@ + 1, Cap)]
  /\ sim' = [sim EXCEPT !.rested = TRUE]
  /\ UNCHANGED <<user, told, answered, follows, refused>>

-----------------------------------------------------------------------------
(* sim_loop.                                                               *)

\* One tick of the simulation: the robot afterwards and the hint, if any.
Approaching(r) ==
  [r EXCEPT !.lidar = IF r.age >= Approach THEN 0 ELSE Approach - r.age,
            !.hinted = r.hinted \/ r.age > Approach]

\* Mutant: the grip is judged by the force the tick before has computed.
GrippingByForce(r) ==
  IF r.force = Grip THEN Enter(r, "HOLDING")
  ELSE [r EXCEPT !.force = AtMost(Grip, r.age)]

Gripping(r) ==
  IF r.age > Grip THEN [Enter(r, "HOLDING") EXCEPT !.force = Grip]
  ELSE [r EXCEPT !.force = AtMost(Grip, r.age)]

Returning(r) ==
  IF r.age > Approach THEN [Enter(r, "IDLE") EXCEPT !.force = 0, !.lidar = Approach]
  ELSE [r EXCEPT !.force = 0, !.lidar = AtMost(Approach, r.age)]

Advance(r) ==
  CASE r.state = "MOVING"    -> Approaching(r)
    [] r.state = "GRASPING"  -> Gripping(r)
    [] r.state = "RETURNING" -> Returning(r)
    [] OTHER                 -> r

Hint(r) ==
  CASE r.state = "MOVING" /\ r.age > Approach /\ ~r.hinted -> "grasp"
    [] r.state = "GRASPING" /\ r.age > Grip                -> "release"
    [] r.state = "RETURNING" /\ r.age > Approach           -> "start"
    [] OTHER                                               -> "none"

\* Mutant: the readout does not look whether there is something to say.
ReadoutFirst(hint, tick) == IF tick = 0 THEN "readout" ELSE hint

\* What the tick prints: the hint, or every so often a readout.
Output(hint, tick) == IF tick = 0 /\ hint = "none" THEN "readout" ELSE hint

SimTicks ==
  /\ sim.at = "sleep" /\ sim.rested
  /\ robot.running
  /\ LET tick == (sim.tick + 1) % Every
         out == Output(Hint(robot), tick)
     IN sim' = [at |-> IF out = "none" THEN "sleep" ELSE "emit",
                rested |-> FALSE, tick |-> tick, out |-> out]
  /\ robot' = Advance(robot)
  /\ UNCHANGED <<user, told, answered, follows, refused>>

SimEmits ==
  /\ sim.at = "emit"
  /\ sim' = [sim EXCEPT !.at = "sleep", !.rested = FALSE, !.out = "none"]
  /\ IF sim.out \in Transitions
     THEN told' = sim.out /\ answered' = FALSE
     ELSE UNCHANGED <<told, answered>>
  /\ UNCHANGED <<robot, user, follows, refused>>

SimEnds ==
  /\ sim.at = "sleep" /\ sim.rested
  /\ ~robot.running
  /\ sim' = [sim EXCEPT !.at = "done"]
  /\ UNCHANGED <<robot, user, told, answered, follows, refused>>

-----------------------------------------------------------------------------
(* handle and main.                                                        *)

From(c) == CASE c = "start" -> "IDLE" [] c = "grasp" -> "MOVING" [] c = "release" -> "HOLDING"
To(c) == CASE c = "start" -> "MOVING" [] c = "grasp" -> "GRASPING" [] c = "release" -> "RETURNING"

Allowed(r, c) == r.state = From(c)

\* try_transition under the robot's mutex; the answer is printed later.
UserCommands(c) ==
  /\ user.at = "getline"
  /\ robot' = IF Allowed(robot, c) THEN Enter(robot, To(c)) ELSE robot
  /\ user' = [at |-> "emit", out |-> IF Allowed(robot, c) THEN "done" ELSE "cannot"]
  /\ follows' = (follows /\ c = told /\ ~answered)
  /\ answered' = TRUE
  /\ refused' = (refused \/ ~Allowed(robot, c))
  /\ UNCHANGED <<sim, told>>

\* status, or a line that is no command; an empty line has nothing to print.
UserAsks ==
  /\ user.at = "getline"
  /\ user' = [at |-> "emit", out |-> "text"]
  /\ UNCHANGED <<robot, sim, told, answered, follows, refused>>

UserEmits ==
  /\ user.at = "emit"
  /\ user' = [at |-> "getline", out |-> "none"]
  /\ UNCHANGED <<robot, sim, told, answered, follows, refused>>

\* quit, exit or the end of the input.
UserQuits ==
  /\ user.at = "getline"
  /\ robot' = [robot EXCEPT !.running = FALSE]
  /\ user' = [user EXCEPT !.at = "join"]
  /\ UNCHANGED <<sim, told, answered, follows, refused>>

MainJoins ==
  /\ user.at = "join" /\ sim.at = "done"
  /\ user' = [user EXCEPT !.at = "done"]
  /\ UNCHANGED <<robot, sim, told, answered, follows, refused>>

-----------------------------------------------------------------------------
Simulation == SimTicks \/ SimEmits \/ SimEnds
Console == UserEmits \/ MainJoins

Next ==
  \/ Elapse \/ Simulation \/ Console
  \/ (\E c \in Transitions : UserCommands(c)) \/ UserAsks \/ UserQuits

Spec == Init /\ [][Next]_vars

\* Time passes and both threads run; nobody has to type.
FairSpec == Spec /\ WF_vars(Elapse) /\ WF_vars(Simulation) /\ WF_vars(Console)

-----------------------------------------------------------------------------
TypeOK ==
  /\ robot \in [state : States, age : 0 .. Cap, lidar : 0 .. Approach,
                force : 0 .. Grip, hinted : BOOLEAN, running : BOOLEAN]
  /\ sim \in [at : {"sleep", "emit", "done"}, rested : BOOLEAN, tick : 0 .. Every - 1,
              out : Transitions \cup {"none", "readout"}]
  /\ user \in [at : {"getline", "emit", "join", "done"},
               out : {"none", "done", "cannot", "text"}]
  /\ told \in Transitions
  /\ answered \in BOOLEAN /\ follows \in BOOLEAN /\ refused \in BOOLEAN

(* A user who types only what the last hint asks for, once, is never       *)
(* refused: although a hint is printed after the mutex is released, it is  *)
(* out of date only for users who did not wait for it.                     *)
FollowerIsNeverRefused == follows => ~refused

(* Whoever looks at the sensors between two ticks finds readings that      *)
(* belong to the state: an arm at rest is home with an open gripper, one   *)
(* that holds something holds it with full force, whenever the commands    *)
(* came between the ticks.                                                 *)
ReadingsMatchState ==
  /\ robot.state = "IDLE" => robot.lidar = Approach /\ robot.force = 0
  /\ robot.state = "MOVING" => robot.force = 0
  /\ robot.state = "HOLDING" => robot.force = Grip
  /\ robot.hinted => robot.state = "MOVING" /\ robot.lidar = 0

(* The user is told what to do: when the robot comes to a state that only  *)
(* a command ends, the hint for that command is printed, unless the user   *)
(* has typed it before or quits.                                           *)
NextStepIsShown ==
  \A c \in Transitions :
    (robot.state = From(c)) ~> (told = c \/ robot.state # From(c) \/ ~robot.running)
=============================================================================
