-------------------------- MODULE RuntimeNode_proofs --------------------------
(***************************************************************************)
(* Theorems about RuntimeNode for every set of goal targets and every set  *)
(* of client events.  First what Process can and cannot do to a machine,   *)
(* then type correctness, then the invariants of the shared state.         *)
(***************************************************************************)
EXTENDS RuntimeNode, TLAPS

-----------------------------------------------------------------------------
(* Lemmas about the transition table.                                      *)

(* process() stays inside the enums.                                       *)
LEMMA ProcessType ==
  ASSUME NEW m \in Machines, NEW e \in RuntimeEvents
  PROVE  Process(m, e) \in Machines
BY DEF Process, Machine, Machines, RuntimeStates, RuntimeErrors

(* Only StartTask leads into Running, and from Standby it does.            *)
LEMMA ProcessToRunning ==
  ASSUME NEW m \in Machines, NEW e \in RuntimeEvents
  PROVE  Process(m, e).state = "Running" => m.state = "Running" \/ e = "StartTask"
BY DEF Process, Machine, Machines, RuntimeStates

(* A sensor fault leads to Fault from every state, or finds it there.      *)
LEMMA ProcessSensorFault ==
  ASSUME NEW m \in Machines, NEW e \in {"SensorTimeout", "JointInvalid"}
  PROVE  Process(m, e).state = "Fault"
BY DEF Process, Machine, Machines, RuntimeStates

(* In Fault every event but ResetFault is ignored, and ResetFault leads to *)
(* Recovery.                                                               *)
LEMMA ProcessInFault ==
  ASSUME NEW m \in Machines, NEW e \in RuntimeEvents, m.state = "Fault"
  PROVE  Process(m, e).state = IF e = "ResetFault" THEN "Recovery" ELSE "Fault"
BY DEF Process, Machine, Machines, RuntimeStates

(* The events of executeTask: ignored in Standby and in Fault, and never   *)
(* ending in Running.                                                      *)
TaskEvents == {"TaskSucceeded", "TaskCanceled", "TaskFailed"}

LEMMA ProcessTaskEvent ==
  ASSUME NEW m \in Machines, NEW e \in TaskEvents
  PROVE  /\ m.state \in {"Standby", "Fault"} => Process(m, e).state = m.state
         /\ Process(m, e).state # "Running"
BY DEF Process, Machine, Machines, RuntimeStates, TaskEvents

(* The error code is None outside Fault and only there.                    *)
ErrorMatches(m) == m.state = "Fault" <=> m.error # "None"

LEMMA ProcessErrorMatches ==
  ASSUME NEW m \in Machines, NEW e \in RuntimeEvents, ErrorMatches(m)
  PROVE  ErrorMatches(Process(m, e))
BY DEF Process, Machine, Machines, RuntimeStates, RuntimeErrors, ErrorMatches

LEMMA FinalEventType ==
  ASSUME NEW o PROVE FinalEvent(o) \in TaskEvents
BY DEF FinalEvent, TaskEvents

LEMMA TaskEventsAreEvents == TaskEvents \subseteq RuntimeEvents
BY DEF TaskEvents, RuntimeEvents

(* updateRuntimeState: an event, or the reset.                             *)
LEMMA SensorVerdictType ==
  /\ SensorVerdict \in Verdicts
  /\ SensorVerdict # "waiting" => SensorVerdict \in RuntimeEvents \ {"StartTask", "ResetFault"}
BY DEF SensorVerdict, Verdicts, RuntimeEvents

LEMMA UpdatedMachineType ==
  ASSUME machine \in Machines
  PROVE  /\ UpdatedMachine \in Machines
         /\ UpdatedMachine.state = "Running" => machine.state = "Running"
         /\ ErrorMatches(machine) => ErrorMatches(UpdatedMachine)
         /\ SensorVerdict \in {"SensorTimeout", "JointInvalid"} =>
              UpdatedMachine.state = "Fault"
<1>1. CASE SensorVerdict = "waiting"
  <2>1. UpdatedMachine = [state |-> "Idle", error |-> "None"]
    BY <1>1 DEF UpdatedMachine, Reset, Machine
  <2>2. QED
    BY <1>1, <2>1 DEF Machines, RuntimeStates, RuntimeErrors, ErrorMatches
<1>2. CASE SensorVerdict # "waiting"
  <2>1. UpdatedMachine = Process(machine, SensorVerdict)
    BY <1>2 DEF UpdatedMachine
  <2>2. SensorVerdict \in RuntimeEvents \ {"StartTask"}
    BY <1>2, SensorVerdictType
  <2>3. QED
    BY <2>1, <2>2, ProcessType, ProcessToRunning, ProcessSensorFault, ProcessErrorMatches
<1>3. QED
  BY <1>1, <1>2

-----------------------------------------------------------------------------
(* Type correctness.                                                       *)

(* The three C++ booleans; a lemma of their own because they are values to *)
(* one prover and formulas to the other.                                   *)
LEMMA FlagsStep == TypeOK /\ [Next]_vars => FlagsOK'
<1> SUFFICES ASSUME FlagsOK, [Next]_vars PROVE FlagsOK'
  BY DEF TypeOK
<1> USE DEF FlagsOK, sensors, taskVars
<1>1. CASE World
  BY <1>1, Zenon DEF World, ImuAges, JointAges, Interrupt
<1>2. CASE Loop
  BY <1>2, Zenon DEF Loop, Spin, WakeUp, SpinReturns, Destroy
<1>3. CASE Callback
  BY <1>3, Zenon DEF Callback, ImuCallback, JointCallback, ResetFaultCallback,
       ApplyEventCallback, HandleCancel, HeartbeatTick, QueryStatus, HandleGoal
<1>4. CASE Continue
  BY <1>4, Zenon DEF Continue, PublishHeartbeat, QueryVerdict, QuerySummary,
       CheckStandby, ClaimSlot, StartTask, HandleAccepted
<1>5. CASE Task
  BY <1>5, Zenon DEF Task, TaskLoop, TaskOkCheck, TaskWork, TaskStore, TaskResult,
       TaskRelease, TaskReport
<1>6. CASE UNCHANGED vars
  BY <1>6, Zenon DEF vars
<1>7. QED
  BY <1>1, <1>2, <1>3, <1>4, <1>5, <1>6 DEF Next

(* Every variable keeps the values the code's types and enums allow.       *)
THEOREM TypeCorrect == Spec => []TypeOK
<1>1. Init => TypeOK
  <2> SUFFICES ASSUME Init PROVE TypeOK
    OBVIOUS
  <2>1. FlagsOK
    BY Zenon DEF Init, FlagsOK
  <2>2. machine \in Machines
    BY DEF Init, Reset, Machine, Machines, RuntimeStates, RuntimeErrors
  <2>3. QED
    BY <2>1, <2>2 DEF Init, TypeOK, SensorAges, TaskStates, GoalStates, ExecPoints,
                      ThreadPoints, Outcomes, Looping
<1>2. TypeOK /\ [Next]_vars => TypeOK'
  <2> SUFFICES ASSUME TypeOK, [Next]_vars PROVE TypeOK'
    OBVIOUS
  <2> FlagsOK'
    BY FlagsStep
  <2> USE DEF TypeOK, ExecPoints, ThreadPoints, Go, Return, Looping, ThreadGo, sensors, taskVars
  <2>1. CASE World
    BY <2>1 DEF World, ImuAges, JointAges, Interrupt, SensorAges
  <2>2. CASE Loop
    BY <2>2 DEF Loop, Spin, WakeUp, SpinReturns, Destroy
  <2>3. CASE Callback
    <3>1. CASE ImuCallback
      BY <3>1 DEF ImuCallback, SensorAges
    <3>2. CASE JointCallback
      BY <3>2 DEF JointCallback, SensorAges
    <3>3. CASE ResetFaultCallback
      <4>1. machine' \in Machines
        BY <3>3, ProcessType DEF ResetFaultCallback, RuntimeEvents
      <4>2. QED
        BY <3>3, <4>1 DEF ResetFaultCallback
    <3>4. ASSUME NEW event \in ClientEvents, ApplyEventCallback(event) PROVE TypeOK'
      <4>1. machine' \in Machines
        BY <3>4, ProcessType, ClientEventsAssumption DEF ApplyEventCallback
      <4>2. QED
        BY <3>4, <4>1 DEF ApplyEventCallback
    <3>5. CASE HandleCancel
      BY <3>5 DEF HandleCancel, GoalStates
    <3>6. CASE HeartbeatTick
      BY <3>6, UpdatedMachineType, SensorVerdictType DEF HeartbeatTick, UpdateRuntimeState
    <3>7. CASE QueryStatus
      BY <3>7, UpdatedMachineType DEF QueryStatus, UpdateRuntimeState
    <3>8. ASSUME NEW target \in Targets, HandleGoal(target) PROVE TypeOK'
      BY <3>8, UpdatedMachineType, TargetsAssumption DEF HandleGoal, UpdateRuntimeState
    <3>9. QED
      BY <2>3, <3>1, <3>2, <3>3, <3>4, <3>5, <3>6, <3>7, <3>8 DEF Callback
  <2>4. CASE Continue
    <3>1. CASE PublishHeartbeat
      BY <3>1 DEF PublishHeartbeat
    <3>2. CASE QueryVerdict \/ QuerySummary
      BY <3>2 DEF QueryVerdict, QuerySummary, Replies
    <3>3. CASE CheckStandby \/ ClaimSlot
      BY <3>3 DEF CheckStandby, ClaimSlot, TaskStates
    <3>4. CASE StartTask
      <4>1. machine' \in Machines
        BY <3>4, ProcessType DEF StartTask, RuntimeEvents
      <4>2. QED
        BY <3>4, <4>1 DEF StartTask, GoalStates
    <3>5. CASE HandleAccepted
      BY <3>5 DEF HandleAccepted, Outcomes
    <3>6. QED
      BY <2>4, <3>1, <3>2, <3>3, <3>4, <3>5 DEF Continue
  <2>5. CASE Task
    <3>1. CASE TaskLoop \/ TaskOkCheck
      BY <3>1 DEF TaskLoop, TaskOkCheck, Finish, Outcomes
    <3>5. CASE TaskWork
      <4>1. thread.step \in Int /\ thread.step + 1 \in Int
        OBVIOUS
      <4>2. thread' \in [at : ThreadPoints, target : Int, step : Int, outcome : Outcomes]
        BY <3>5, <4>1 DEF TaskWork
      <4>3. QED
        BY <3>5, <4>1, <4>2 DEF TaskWork
    <3>6. CASE TaskRelease
      BY <3>6 DEF TaskRelease
    <3>2. CASE TaskStore
      BY <3>2 DEF TaskStore, FinalTaskState, TaskStates
    <3>3. CASE TaskResult
      BY <3>3 DEF TaskResult, FinalGoalState, GoalStates
    <3>4. CASE TaskReport
      <4>1. machine' \in Machines
        BY <3>4, ProcessType, FinalEventType, TaskEventsAreEvents DEF TaskReport
      <4>2. QED
        BY <3>4, <4>1 DEF TaskReport
    <3>7. QED
      BY <2>5, <3>1, <3>2, <3>3, <3>4, <3>5, <3>6 DEF Task
  <2>6. CASE UNCHANGED vars
    BY <2>6 DEF vars
  <2>7. QED
    BY <2>1, <2>2, <2>3, <2>4, <2>5, <2>6 DEF Next
<1>3. QED
  BY <1>1, <1>2, PTL DEF Spec

-----------------------------------------------------------------------------
(* The execution slot.                                                     *)

(* Where a step leaves the executor and the task thread.                   *)
LEMMA GoAt == ASSUME TypeOK, NEW p, Go(p) PROVE exec'.at = p
BY DEF TypeOK, Go

LEMMA ReturnAt == Return => exec'.at = "loop"
BY DEF Return, Looping

LEMMA ThreadGoAt == ASSUME TypeOK, NEW p, ThreadGo(p) PROVE thread'.at = p
BY DEF TypeOK, ThreadGo

LEMMA FinishAt ==
  ASSUME TypeOK, NEW o, Finish(o) PROVE thread'.at = "store" /\ thread'.outcome = o
BY DEF TypeOK, Finish

(* handleGoal's compare_exchange and executeTask's stores keep two goals   *)
(* apart, for every target and every client: SlotHasOneOwner is inductive  *)
(* once the types are known.                                               *)
THEOREM SlotIsExclusive == Spec => []SlotHasOneOwner
<1>1. Init => SlotHasOneOwner
  BY DEF Init, Looping, SlotHasOneOwner, Claimed, Owning
<1>2. TypeOK /\ SlotHasOneOwner /\ [Next]_vars => SlotHasOneOwner'
  <2> SUFFICES ASSUME TypeOK, SlotHasOneOwner, [Next]_vars PROVE SlotHasOneOwner'
    OBVIOUS
  <2> USE DEF SlotHasOneOwner, Claimed, Owning, At, sensors, taskVars
  <2>0. exec.at \in ExecPoints /\ thread.at \in ThreadPoints
    BY DEF TypeOK
  <2>1. CASE World
    BY <2>1 DEF World, ImuAges, JointAges, Interrupt
  <2>2. CASE Loop
    <3>1. ~Claimed /\ exec'.at \notin {"claimed", "accepted"}
      BY <2>2, GoAt, ReturnAt DEF Loop, Spin, WakeUp, SpinReturns, Destroy
    <3>2. UNCHANGED <<thread, taskActive>>
      BY <2>2, Zenon DEF Loop, Spin, WakeUp, SpinReturns, Destroy
    <3>3. QED
      BY <3>1, <3>2
  <2>3. CASE Callback
    <3>1. exec.at = "ready"
      BY <2>3, Zenon DEF Callback, ImuCallback, JointCallback, ResetFaultCallback,
           ApplyEventCallback, HandleCancel, HeartbeatTick, QueryStatus, HandleGoal
    <3>2. exec'.at \in {"loop", "tickPublish", "queryVerdict", "goalCheck"}
      BY <2>3, GoAt, ReturnAt DEF Callback, ImuCallback, JointCallback, ResetFaultCallback,
           ApplyEventCallback, HandleCancel, HeartbeatTick, QueryStatus, HandleGoal, Looping
    <3>3. UNCHANGED <<thread, taskActive>>
      BY <2>3, Zenon DEF Callback, ImuCallback, JointCallback, ResetFaultCallback,
           ApplyEventCallback, HandleCancel, HeartbeatTick, QueryStatus, HandleGoal
    <3>4. QED
      BY <3>1, <3>2, <3>3
  <2>4. CASE Continue
    <3>1. CASE PublishHeartbeat \/ QueryVerdict \/ QuerySummary
      BY <3>1, ReturnAt DEF PublishHeartbeat, QueryVerdict, QuerySummary
    <3>2. CASE CheckStandby
      <4>1. exec.at = "goalCheck" /\ exec'.at \in {"goalClaim", "loop"}
        BY <3>2, GoAt, ReturnAt DEF CheckStandby
      <4>2. UNCHANGED <<thread, taskActive>>
        BY <3>2, Zenon DEF CheckStandby
      <4>3. QED
        BY <4>1, <4>2
    <3>3. CASE ClaimSlot
      <4>1. exec.at = "goalClaim" /\ UNCHANGED thread
        BY <3>3 DEF ClaimSlot
      <4>2. CASE taskActive
        <5>1. exec'.at = "loop"
          BY <3>3, <4>2, ReturnAt DEF ClaimSlot
        <5>2. taskActive' = taskActive
          BY <3>3, <4>2, Zenon DEF ClaimSlot
        <5>3. QED
          BY <4>1, <4>2, <5>1, <5>2
      <4>3. CASE ~taskActive
        <5>1. exec'.at = "claimed"
          BY <3>3, <4>3, GoAt, ReturnAt DEF ClaimSlot
        <5>2. taskActive'
          BY <3>3, <4>3, Zenon DEF ClaimSlot
        <5>3. QED
          BY <4>1, <4>3, <5>1, <5>2
      <4>4. QED
        BY <4>2, <4>3
    <3>4. CASE StartTask
      BY <3>4, GoAt, ReturnAt DEF StartTask
    <3>5. CASE HandleAccepted
      BY <3>5, ReturnAt DEF HandleAccepted
    <3>6. QED
      BY <2>4, <3>1, <3>2, <3>3, <3>4, <3>5 DEF Continue
  <2>5. CASE Task
    <3>1. CASE TaskLoop \/ TaskOkCheck \/ TaskWork
      <4>1. thread.at \in {"loop", "okCheck", "work"} /\ thread'.at \in {"loop", "okCheck", "work", "store"}
        BY <3>1, ThreadGoAt, FinishAt DEF TaskLoop, TaskOkCheck, TaskWork, TypeOK
      <4>2. UNCHANGED <<exec, taskActive>>
        BY <3>1, Zenon DEF TaskLoop, TaskOkCheck, TaskWork
      <4>3. QED
        BY <4>1, <4>2
    <3>2. CASE TaskStore \/ TaskResult
      BY <3>2, ThreadGoAt DEF TaskStore, TaskResult
    <3>3. CASE TaskRelease
      BY <3>3, ThreadGoAt DEF TaskRelease
    <3>4. CASE TaskReport
      BY <3>4, ThreadGoAt DEF TaskReport
    <3>5. QED
      BY <2>5, <3>1, <3>2, <3>3, <3>4 DEF Task
  <2>6. CASE UNCHANGED vars
    BY <2>6 DEF vars
  <2>7. QED
    BY <2>1, <2>2, <2>3, <2>4, <2>5, <2>6 DEF Next
<1>3. QED
  BY <1>1, <1>2, TypeCorrect, PTL DEF Spec

-----------------------------------------------------------------------------
(* The machine: every step of Next changes it in one of four ways, or      *)
(* leaves it alone and is quiet about the rest.                            *)

Alive == thread.at \notin {"none", "done"}

\* The machine is not touched.
Quiet ==
  /\ machine' = machine
  /\ exec'.at \in {"goalClaim", "claimed"} =>
       exec.at \in {"goalClaim", "claimed"} \/ machine.state = "Standby"
  /\ exec'.at = "tickPublish" => exec' = exec
  /\ exec.at = "accepted" => exec'.at = "accepted" \/ thread'.at = "loop"
  /\ Alive => Alive'

\* updateRuntimeState at the start of a callback.
Updates ==
  /\ machine' = UpdatedMachine
  /\ exec.at = "ready"
  /\ exec'.at \in {"loop", "tickPublish", "queryVerdict", "goalCheck"}
  /\ exec'.at = "tickPublish" => exec'.saw = SensorVerdict
  /\ UNCHANGED <<thread, imu, joint>>

\* A service call hands the machine an event.
Serves(e) ==
  /\ machine' = Process(machine, e)
  /\ exec.at = "ready" /\ exec'.at = "loop"
  /\ UNCHANGED thread

Starts ==
  /\ machine' = Process(machine, "StartTask")
  /\ exec.at = "claimed" /\ exec'.at = "accepted"

Reports(e) ==
  /\ machine' = Process(machine, e)
  /\ exec' = exec
  /\ thread.at = "report"

NextCase ==
  \/ Quiet
  \/ Updates
  \/ \E e \in ClientEvents \cup {"ResetFault"} : Serves(e)
  \/ Starts
  \/ \E e \in TaskEvents : Reports(e)

LEMMA NextCases == TypeOK /\ [Next]_vars => NextCase
<1> SUFFICES ASSUME TypeOK, [Next]_vars PROVE NextCase
  OBVIOUS
<1> USE DEF sensors, taskVars, At
<1>1. CASE World
  BY <1>1 DEF World, ImuAges, JointAges, Interrupt, NextCase, Quiet, Alive
<1>2. CASE Loop
  <2>1. /\ exec.at \in {"loop", "ready", "joining"}
        /\ exec'.at \in {"loop", "ready", "joining", "gone"}
    BY <1>2, GoAt, ReturnAt DEF Loop, Spin, WakeUp, SpinReturns, Destroy
  <2>2. UNCHANGED <<machine, thread>>
    BY <1>2, Zenon DEF Loop, Spin, WakeUp, SpinReturns, Destroy
  <2>3. QED
    BY <2>1, <2>2 DEF NextCase, Quiet, Alive
<1>3. CASE Callback
  <2>1. CASE ImuCallback \/ JointCallback \/ HandleCancel
    BY <2>1, ReturnAt DEF ImuCallback, JointCallback, HandleCancel, NextCase, Quiet, Alive
  <2>2. CASE ResetFaultCallback
    BY <2>2, ReturnAt DEF ResetFaultCallback, NextCase, Serves
  <2>3. ASSUME NEW event \in ClientEvents, ApplyEventCallback(event) PROVE NextCase
    BY <2>3, ReturnAt DEF ApplyEventCallback, NextCase, Serves
  <2>4. CASE HeartbeatTick
    BY <2>4 DEF HeartbeatTick, UpdateRuntimeState, NextCase, Updates
  <2>5. CASE QueryStatus
    BY <2>5, GoAt DEF QueryStatus, UpdateRuntimeState, NextCase, Updates
  <2>6. ASSUME NEW target \in Targets, HandleGoal(target) PROVE NextCase
    BY <2>6 DEF HandleGoal, Looping, UpdateRuntimeState, NextCase, Updates
  <2>7. QED
    BY <1>3, <2>1, <2>2, <2>3, <2>4, <2>5, <2>6 DEF Callback
<1>4. CASE Continue
  <2>1. CASE PublishHeartbeat \/ QueryVerdict \/ QuerySummary
    BY <2>1, ReturnAt DEF PublishHeartbeat, QueryVerdict, QuerySummary, NextCase, Quiet, Alive
  <2>2. CASE CheckStandby
    <3>1. /\ exec.at = "goalCheck" /\ UNCHANGED <<machine, thread>>
          /\ exec'.at = "loop" \/ (exec'.at = "goalClaim" /\ machine.state = "Standby")
      BY <2>2, GoAt, ReturnAt DEF CheckStandby
    <3>2. QED
      BY <3>1 DEF NextCase, Quiet, Alive
  <2>3. CASE ClaimSlot
    <3>1. /\ exec.at = "goalClaim" /\ UNCHANGED <<machine, thread>>
          /\ exec'.at \in {"loop", "claimed"}
      BY <2>3, GoAt, ReturnAt DEF ClaimSlot
    <3>2. QED
      BY <3>1 DEF NextCase, Quiet, Alive
  <2>4. CASE StartTask
    BY <2>4, GoAt DEF StartTask, NextCase, Starts
  <2>5. CASE HandleAccepted
    BY <2>5, ReturnAt DEF HandleAccepted, NextCase, Quiet, Alive
  <2>6. QED
    BY <1>4, <2>1, <2>2, <2>3, <2>4, <2>5 DEF Continue
<1>5. CASE Task
  <2>1. CASE TaskLoop \/ TaskOkCheck \/ TaskWork
    <3>1. thread'.at \in {"loop", "okCheck", "work", "store"}
      BY <2>1, ThreadGoAt, FinishAt DEF TaskLoop, TaskOkCheck, TaskWork, TypeOK
    <3>2. UNCHANGED <<exec, machine>>
      BY <2>1, Zenon DEF TaskLoop, TaskOkCheck, TaskWork
    <3>3. QED
      BY <3>1, <3>2 DEF NextCase, Quiet, Alive
  <2>2. CASE TaskStore \/ TaskResult \/ TaskRelease
    BY <2>2, ThreadGoAt DEF TaskStore, TaskResult, TaskRelease, NextCase, Quiet, Alive
  <2>3. CASE TaskReport
    BY <2>3, FinalEventType DEF TaskReport, NextCase, Reports
  <2>4. QED
    BY <1>5, <2>1, <2>2, <2>3 DEF Task
<1>6. CASE UNCHANGED vars
  BY <1>6 DEF vars, NextCase, Quiet, Alive
<1>7. QED
  BY <1>1, <1>2, <1>3, <1>4, <1>5, <1>6 DEF Next

(* The machine at the end of a step that is not quiet is a machine again,  *)
(* and an event the task thread or a service sends is an event.            *)
LEMMA EventsOK ==
  /\ ClientEvents \cup {"ResetFault"} \subseteq RuntimeEvents
  /\ TaskEvents \subseteq RuntimeEvents \ {"StartTask", "ResetFault"}
  /\ "StartTask" \in RuntimeEvents
BY ClientEventsAssumption DEF RuntimeEvents, TaskEvents

(* handleGoal sends StartTask to a machine that is still in STANDBY: only  *)
(* the task thread can come in between, and STANDBY ignores its events.    *)
THEOREM GoalStartsInStandby == Spec => []StandbyUntilStarted
<1>1. Init => StandbyUntilStarted
  BY DEF Init, Looping, StandbyUntilStarted
<1>2. TypeOK /\ StandbyUntilStarted /\ [Next]_vars => StandbyUntilStarted'
  <2> SUFFICES ASSUME TypeOK, StandbyUntilStarted, [Next]_vars
               PROVE  StandbyUntilStarted'
    OBVIOUS
  <2> USE DEF StandbyUntilStarted
  <2>0. NextCase /\ machine \in Machines
    BY NextCases DEF TypeOK
  <2>1. CASE Quiet
    BY <2>1 DEF Quiet
  <2>2. CASE Updates
    BY <2>2 DEF Updates
  <2>3. ASSUME NEW e \in ClientEvents \cup {"ResetFault"}, Serves(e)
        PROVE  StandbyUntilStarted'
    BY <2>3 DEF Serves
  <2>4. CASE Starts
    BY <2>4 DEF Starts
  <2>5. ASSUME NEW e \in TaskEvents, Reports(e) PROVE StandbyUntilStarted'
    BY <2>0, <2>5, ProcessTaskEvent DEF Reports
  <2>6. QED
    BY <2>0, <2>1, <2>2, <2>3, <2>4, <2>5 DEF NextCase
<1>3. QED
  BY <1>1, <1>2, TypeCorrect, PTL DEF Spec

(* RUNNING always has a task that will report, provided no client applies  *)
(* StartTask by hand.                                                      *)
THEOREM NoOrphanRunning ==
  ASSUME "StartTask" \notin ClientEvents
  PROVE  Spec => []RunningHasTask
<1>1. Init => RunningHasTask
  BY DEF Init, Reset, Machine, RunningHasTask
<1>2. TypeOK /\ RunningHasTask /\ [Next]_vars => RunningHasTask'
  <2> SUFFICES ASSUME TypeOK, RunningHasTask, [Next]_vars PROVE RunningHasTask'
    OBVIOUS
  <2> USE DEF RunningHasTask
  <2>0. NextCase /\ machine \in Machines
    BY NextCases DEF TypeOK
  <2>1. CASE Quiet
    BY <2>1 DEF Quiet, Alive
  <2>2. CASE Updates
    BY <2>0, <2>2, UpdatedMachineType DEF Updates
  <2>3. ASSUME NEW e \in ClientEvents \cup {"ResetFault"}, Serves(e)
        PROVE  RunningHasTask'
    <3>1. machine'.state = "Running" => machine.state = "Running"
      BY <2>0, <2>3, EventsOK, ProcessToRunning DEF Serves
    <3>2. QED
      BY <3>1, <2>3 DEF Serves
  <2>4. CASE Starts
    BY <2>4 DEF Starts
  <2>5. ASSUME NEW e \in TaskEvents, Reports(e) PROVE RunningHasTask'
    BY <2>0, <2>5, ProcessTaskEvent DEF Reports
  <2>6. QED
    BY <2>0, <2>1, <2>2, <2>3, <2>4, <2>5 DEF NextCase
<1>3. QED
  BY <1>1, <1>2, TypeCorrect, PTL DEF Spec

(* The error code says FAULT exactly when the state does.                  *)
THEOREM FaultExplained == Spec => []FaultIsExplained
<1>1. Init => ErrorMatches(machine)
  BY DEF Init, Reset, Machine, ErrorMatches
<1>2. TypeOK /\ ErrorMatches(machine) /\ [Next]_vars => ErrorMatches(machine)'
  <2> SUFFICES ASSUME TypeOK, ErrorMatches(machine), [Next]_vars
               PROVE  ErrorMatches(machine')
    BY DEF ErrorMatches
  <2>0. NextCase /\ machine \in Machines
    BY NextCases DEF TypeOK
  <2>1. CASE Quiet
    BY <2>1 DEF Quiet
  <2>2. CASE Updates
    BY <2>0, <2>2, UpdatedMachineType DEF Updates
  <2>3. ASSUME NEW e \in ClientEvents \cup {"ResetFault"}, Serves(e)
        PROVE  ErrorMatches(machine')
    BY <2>0, <2>3, EventsOK, ProcessErrorMatches DEF Serves
  <2>4. CASE Starts
    BY <2>0, <2>4, EventsOK, ProcessErrorMatches DEF Starts
  <2>5. ASSUME NEW e \in TaskEvents, Reports(e) PROVE ErrorMatches(machine')
    BY <2>0, <2>5, EventsOK, ProcessErrorMatches DEF Reports
  <2>6. QED
    BY <2>0, <2>1, <2>2, <2>3, <2>4, <2>5 DEF NextCase
<1>3. TypeOK /\ ErrorMatches(machine) => FaultIsExplained
  BY DEF TypeOK, Machines, RuntimeErrors, ErrorMatches, FaultIsExplained, ErrorInfo
<1>4. QED
  BY <1>1, <1>2, <1>3, TypeCorrect, PTL DEF Spec

(* The heartbeat after a lost sensor says FAULT: FAULT ignores whatever    *)
(* the task thread reports in between.                                     *)
THEOREM LostSensorReported == Spec => []LostSensorHeartbeat
<1>1. Init => LostSensorHeartbeat
  BY DEF Init, Looping, LostSensorHeartbeat, At
<1>2. TypeOK /\ LostSensorHeartbeat /\ [Next]_vars => LostSensorHeartbeat'
  <2> SUFFICES ASSUME TypeOK, LostSensorHeartbeat, [Next]_vars
               PROVE  LostSensorHeartbeat'
    OBVIOUS
  <2> USE DEF LostSensorHeartbeat, HeartbeatStatus, At
  <2>0. NextCase /\ machine \in Machines
    BY NextCases DEF TypeOK
  <2>1. CASE Quiet
    BY <2>1 DEF Quiet
  <2>2. CASE Updates
    BY <2>0, <2>2, UpdatedMachineType DEF Updates
  <2>3. ASSUME NEW e \in ClientEvents \cup {"ResetFault"}, Serves(e)
        PROVE  LostSensorHeartbeat'
    BY <2>3 DEF Serves
  <2>4. CASE Starts
    BY <2>4 DEF Starts
  <2>5. ASSUME NEW e \in TaskEvents, Reports(e) PROVE LostSensorHeartbeat'
    BY <2>0, <2>5, ProcessTaskEvent DEF Reports
  <2>6. QED
    BY <2>0, <2>1, <2>2, <2>3, <2>4, <2>5 DEF NextCase
<1>3. QED
  BY <1>1, <1>2, TypeCorrect, PTL DEF Spec

(* Once both sensors are known only ResetFault ends FAULT.                 *)
THEOREM FaultSticks == Spec => FaultIsSticky
<1>1. TypeOK /\ [Next]_vars =>
        [machine.state = "Fault" /\ imu # "never" /\ joint # "never" =>
           machine'.state \in {"Fault", "Recovery"}]_vars
  <2> SUFFICES ASSUME TypeOK, [Next]_vars, machine.state = "Fault",
                      imu # "never", joint # "never"
               PROVE  machine'.state \in {"Fault", "Recovery"}
    OBVIOUS
  <2>0. NextCase /\ machine \in Machines
    BY NextCases DEF TypeOK
  <2>1. CASE Quiet
    BY <2>1 DEF Quiet
  <2>2. CASE Updates
    <3>1. SensorVerdict # "waiting"
      BY DEF SensorVerdict
    <3>2. machine' = Process(machine, SensorVerdict) /\ SensorVerdict \in RuntimeEvents
      BY <2>2, <3>1, SensorVerdictType DEF Updates, UpdatedMachine
    <3>3. QED
      BY <2>0, <3>2, ProcessInFault
  <2>3. ASSUME NEW e \in ClientEvents \cup {"ResetFault"}, Serves(e)
        PROVE  machine'.state \in {"Fault", "Recovery"}
    BY <2>0, <2>3, EventsOK, ProcessInFault DEF Serves
  <2>4. CASE Starts
    BY <2>0, <2>4, EventsOK, ProcessInFault DEF Starts
  <2>5. ASSUME NEW e \in TaskEvents, Reports(e)
        PROVE  machine'.state \in {"Fault", "Recovery"}
    BY <2>0, <2>5, EventsOK, ProcessInFault DEF Reports
  <2>6. QED
    BY <2>0, <2>1, <2>2, <2>3, <2>4, <2>5 DEF NextCase
<1>2. QED
  BY <1>1, TypeCorrect, PTL DEF Spec, FaultIsSticky

-----------------------------------------------------------------------------
(* What the client's result and query_status say about one task.           *)

Stepping == thread.at \in {"loop", "okCheck", "work"}

\* The slot is new: nothing counted yet, no thread writes the progress.
ClaimInv ==
  /\ exec.at \in {"goalCheck", "goalClaim", "claimed", "accepted"} => exec.target > 0
  /\ Claimed => taskStep = 0
  /\ exec.at = "accepted" => goal = "executing"

\* The counters of the loop, and what is left of them for each outcome.
StepInv ==
  /\ Stepping => /\ thread.step >= 1 /\ thread.step <= thread.target + 1
                 /\ taskStep = thread.step - 1
  /\ thread.at \in {"okCheck", "work"} => thread.step <= thread.target
  /\ thread.at = "store" =>
       /\ thread.outcome = "completed" => taskStep = thread.target
       /\ thread.outcome = "canceled" => thread.step <= thread.target
  /\ thread.at = "result" =>
       /\ taskState = FinalTaskState(thread.outcome)
       /\ thread.outcome = "completed" => taskStep = thread.target
       /\ thread.outcome = "canceled" => taskStep < thread.target

\* No result has been sent while executeTask has not come that far.
GoalInv ==
  Stepping \/ thread.at \in {"store", "result"} => goal \in {"executing", "canceling"}

TaskInv == ClaimInv /\ StepInv /\ GoalInv /\ ResultAfterTaskState

\* Steps that leave the task alone: its variables, and the executor where it
\* does not enter the claim.
TaskUntouched ==
  /\ UNCHANGED <<taskState, taskStep, goal, thread>>
  /\ exec'.at \notin {"claimed", "accepted", "goalClaim"} \/ exec' = exec
       \/ (exec.at = "goalCheck" /\ exec'.at = "goalClaim" /\ exec'.target = exec.target)
  /\ exec'.at = "goalCheck" => exec' = exec \/ exec'.target > 0
  /\ exec.at = "claimed" => exec' = exec

LEMMA UntouchedKeeps ==
  ASSUME TypeOK, TaskInv, TaskUntouched PROVE TaskInv'
BY DEF TaskInv, ClaimInv, StepInv, GoalInv, ResultAfterTaskState, TaskUntouched,
       Stepping, Claimed, At

LEMMA GoTarget == ASSUME TypeOK, NEW p, Go(p) PROVE exec'.target = exec.target
BY DEF TypeOK, Go

LEMMA CallbackUntouched ==
  ASSUME TypeOK, Callback, ~HandleCancel PROVE TaskUntouched
<1>1. UNCHANGED <<taskState, taskStep, goal, thread>>
  BY Zenon DEF Callback, ImuCallback, JointCallback, ResetFaultCallback,
     ApplyEventCallback, HeartbeatTick, QueryStatus, HandleGoal, taskVars
<1>2. /\ exec.at = "ready"
      /\ exec'.at \in {"loop", "tickPublish", "queryVerdict", "goalCheck"}
      /\ exec'.at = "goalCheck" => exec'.target > 0
  <2>1. CASE ImuCallback \/ JointCallback \/ ResetFaultCallback
    BY <2>1, ReturnAt DEF ImuCallback, JointCallback, ResetFaultCallback, At
  <2>2. ASSUME NEW e \in ClientEvents, ApplyEventCallback(e)
        PROVE  exec.at = "ready" /\ exec'.at = "loop"
    BY <2>2, ReturnAt DEF ApplyEventCallback, At
  <2>3. CASE HeartbeatTick \/ QueryStatus
    BY <2>3, GoAt DEF HeartbeatTick, QueryStatus, At
  <2>4. ASSUME NEW target \in Targets, HandleGoal(target)
        PROVE  /\ exec.at = "ready" /\ exec'.at \in {"loop", "goalCheck"}
               /\ exec'.at = "goalCheck" => exec'.target > 0
    BY <2>4, TargetsAssumption DEF HandleGoal, Looping, At
  <2>5. QED
    BY <2>1, <2>2, <2>3, <2>4 DEF Callback
<1>3. QED
  BY <1>1, <1>2 DEF TaskUntouched

(* The result a client receives and the progress query_status shows agree: *)
(* the task state is stored, with the steps counted, before the result.    *)
THEOREM ResultMatchesStatus == Spec => []ResultAfterTaskState
<1>1. Init => TaskInv
  BY DEF Init, Looping, TaskInv, ClaimInv, StepInv, GoalInv, ResultAfterTaskState,
         Stepping, Claimed, At
<1>2. TypeOK /\ SlotHasOneOwner /\ TaskInv /\ [Next]_vars => TaskInv'
  <2> SUFFICES ASSUME TypeOK, SlotHasOneOwner, TaskInv, [Next]_vars PROVE TaskInv'
    OBVIOUS
  <2> USE DEF At
  <2>0. thread.step \in Int /\ thread.target \in Int /\ taskStep \in Int
        /\ exec.target \in Int /\ thread.outcome \in Outcomes
    BY DEF TypeOK
  <2>1. CASE World
    BY <2>1, UntouchedKeeps DEF World, ImuAges, JointAges, Interrupt, TaskUntouched, taskVars
  <2>2. CASE Loop
    <3>1. UNCHANGED <<taskState, taskStep, goal, thread>>
      BY <2>2, Zenon DEF Loop, Spin, WakeUp, SpinReturns, Destroy, taskVars
    <3>2. exec'.at \in {"loop", "ready", "joining", "gone"}
          /\ exec.at \in {"loop", "ready", "joining"}
      BY <2>2, GoAt, ReturnAt DEF Loop, Spin, WakeUp, SpinReturns, Destroy
    <3>3. QED
      BY <3>1, <3>2, UntouchedKeeps DEF TaskUntouched
  <2>3. CASE Callback
    <3>1. CASE HandleCancel
      <4>1. /\ exec'.at = "loop" /\ goal = "executing" /\ goal' = "canceling"
            /\ UNCHANGED <<taskState, taskStep, thread>>
        BY <3>1, ReturnAt DEF HandleCancel, taskVars
      <4>2. QED
        BY <4>1 DEF TaskInv, ClaimInv, StepInv, GoalInv, ResultAfterTaskState,
                    Stepping, Claimed
    <3>2. CASE ~HandleCancel
      BY <2>3, <3>2, CallbackUntouched, UntouchedKeeps
    <3>3. QED
      BY <3>1, <3>2
  <2>4. CASE Continue
    <3>1. CASE PublishHeartbeat \/ QueryVerdict \/ QuerySummary
      <4>1. UNCHANGED <<taskState, taskStep, goal, thread>>
            /\ exec'.at \in {"loop", "querySummary"}
            /\ exec.at \in {"tickPublish", "queryVerdict", "querySummary"}
        BY <3>1, ReturnAt DEF PublishHeartbeat, QueryVerdict, QuerySummary, taskVars
      <4>2. QED
        BY <4>1, UntouchedKeeps DEF TaskUntouched
    <3>2. CASE CheckStandby
      <4>1. UNCHANGED <<taskState, taskStep, goal, thread>> /\ exec.at = "goalCheck"
            /\ (exec'.at = "loop" \/ (exec'.at = "goalClaim" /\ exec'.target = exec.target))
        BY <3>2, GoAt, GoTarget, ReturnAt DEF CheckStandby, taskVars
      <4>2. QED
        BY <4>1, UntouchedKeeps DEF TaskUntouched
    <3>3. CASE ClaimSlot
      <4>1. CASE taskActive
        <5>1. UNCHANGED <<taskState, taskStep, goal, thread>> /\ exec.at = "goalClaim"
              /\ exec'.at = "loop"
          BY <3>3, <4>1, ReturnAt DEF ClaimSlot, taskVars
        <5>2. QED
          BY <5>1, UntouchedKeeps DEF TaskUntouched
      <4>2. CASE ~taskActive
        <5>1. exec.at = "goalClaim" /\ exec'.at = "claimed" /\ exec'.target = exec.target
              /\ taskStep' = 0 /\ UNCHANGED <<goal, thread>>
          BY <3>3, <4>2, GoAt, GoTarget DEF ClaimSlot
        <5>2. ~Owning
          BY <4>2 DEF SlotHasOneOwner
        <5>3. QED
          BY <5>1, <5>2 DEF TaskInv, ClaimInv, StepInv, GoalInv, ResultAfterTaskState,
                            Stepping, Claimed, Owning
      <4>3. QED
        BY <4>1, <4>2
    <3>4. CASE StartTask
      <4>1. exec.at = "claimed" /\ exec'.at = "accepted" /\ exec'.target = exec.target
            /\ goal' = "executing" /\ UNCHANGED <<taskState, taskStep, thread>>
        BY <3>4, GoAt, GoTarget DEF StartTask, taskVars
      <4>2. QED
        BY <4>1 DEF TaskInv, ClaimInv, StepInv, GoalInv, ResultAfterTaskState,
                    Stepping, Claimed
    <3>5. CASE HandleAccepted
      <4>1. exec.at = "accepted" /\ exec'.at = "loop"
            /\ UNCHANGED <<taskState, taskStep, goal>>
            /\ thread' = [at |-> "loop", target |-> exec.target, step |-> 1,
                          outcome |-> "none"]
        BY <3>5, ReturnAt DEF HandleAccepted, taskVars
      <4>2. QED
        BY <2>0, <4>1 DEF TaskInv, ClaimInv, StepInv, GoalInv, ResultAfterTaskState,
                          Stepping, Claimed
    <3>6. QED
      BY <2>4, <3>1, <3>2, <3>3, <3>4, <3>5 DEF Continue
  <2>5. CASE Task
    <3>0. thread.at \in {"loop", "okCheck", "work", "store", "result"} => ~Claimed
      BY DEF SlotHasOneOwner, Owning
    <3>1. CASE TaskLoop
      <4>1. UNCHANGED <<taskState, taskStep, goal, exec>> /\ thread.at = "loop"
        BY <3>1 DEF TaskLoop, taskVars
      <4>2. CASE thread.step > thread.target
        <5>1. thread' = [thread EXCEPT !.at = "store", !.outcome = "completed"]
          BY <3>1, <4>2 DEF TaskLoop, Finish
        <5>2. thread'.at = "store" /\ thread'.outcome = "completed"
              /\ thread'.step = thread.step /\ thread'.target = thread.target
          BY <5>1 DEF TypeOK
        <5>3. QED
          BY <2>0, <3>0, <4>1, <4>2, <5>2 DEF TaskInv, ClaimInv, StepInv, GoalInv,
             ResultAfterTaskState, Stepping, Claimed
      <4>3. CASE thread.step <= thread.target
        <5>1. /\ thread'.at = "okCheck" \/ (thread'.at = "store" /\ thread'.outcome = "canceled")
              /\ thread'.step = thread.step /\ thread'.target = thread.target
          <6>1. ~(thread.step > thread.target)
            BY <2>0, <4>3
          <6>2. CASE goal = "canceling"
            <7>1. thread' = [thread EXCEPT !.at = "store", !.outcome = "canceled"]
              BY <3>1, <6>1, <6>2 DEF TaskLoop, Finish
            <7>2. QED
              BY <7>1 DEF TypeOK
          <6>3. CASE goal # "canceling"
            <7>1. thread' = [thread EXCEPT !.at = "okCheck"]
              BY <3>1, <6>1, <6>3 DEF TaskLoop, ThreadGo
            <7>2. QED
              BY <7>1 DEF TypeOK
          <6>4. QED
            BY <6>2, <6>3
        <5>2. QED
          BY <2>0, <3>0, <4>1, <4>3, <5>1 DEF TaskInv, ClaimInv, StepInv, GoalInv,
             ResultAfterTaskState, Stepping, Claimed
      <4>4. QED
        BY <2>0, <4>2, <4>3
    <3>2. CASE TaskOkCheck
      <4>1. /\ UNCHANGED <<taskState, taskStep, goal, exec>> /\ thread.at = "okCheck"
            /\ thread'.at = "work" \/ (thread'.at = "store" /\ thread'.outcome = "failed")
            /\ thread'.step = thread.step /\ thread'.target = thread.target
        BY <3>2 DEF TaskOkCheck, Finish, ThreadGo, TypeOK, taskVars
      <4>2. QED
        BY <2>0, <3>0, <4>1 DEF TaskInv, ClaimInv, StepInv, GoalInv,
           ResultAfterTaskState, Stepping, Claimed
    <3>3. CASE TaskWork
      <4>1. /\ UNCHANGED <<taskState, goal, exec>> /\ thread.at = "work"
            /\ thread'.at = "loop" /\ taskStep' = thread.step
            /\ thread'.step = thread.step + 1 /\ thread'.target = thread.target
        BY <3>3 DEF TaskWork, TypeOK
      <4>2. QED
        BY <2>0, <3>0, <4>1 DEF TaskInv, ClaimInv, StepInv, GoalInv,
           ResultAfterTaskState, Stepping, Claimed
    <3>4. CASE TaskStore
      <4>1. /\ UNCHANGED <<goal, exec>> /\ thread.at = "store"
            /\ thread'.at = "result" /\ thread'.outcome = thread.outcome
            /\ thread'.step = thread.step /\ thread'.target = thread.target
            /\ taskState' = FinalTaskState(thread.outcome)
            /\ taskStep' = IF thread.outcome = "canceled" THEN thread.step - 1 ELSE taskStep
        BY <3>4 DEF TaskStore, ThreadGo, TypeOK
      <4>2. QED
        BY <2>0, <3>0, <4>1 DEF TaskInv, ClaimInv, StepInv, GoalInv,
           ResultAfterTaskState, Stepping, Claimed, FinalTaskState
    <3>5. CASE TaskResult
      <4>1. /\ UNCHANGED <<taskState, taskStep, exec>> /\ thread.at = "result"
            /\ thread'.at = "release" /\ thread'.target = thread.target
            /\ goal' = FinalGoalState(thread.outcome)
        BY <3>5 DEF TaskResult, ThreadGo, TypeOK, taskVars
      <4>2. QED
        BY <2>0, <3>0, <4>1 DEF TaskInv, ClaimInv, StepInv, GoalInv, FinalGoalState,
           ResultAfterTaskState, Stepping, Claimed, FinalTaskState
    <3>6. CASE TaskRelease \/ TaskReport
      <4>1. /\ UNCHANGED <<taskState, taskStep, goal, exec>>
            /\ thread'.at \in {"report", "done"} /\ thread'.target = thread.target
        BY <3>6 DEF TaskRelease, TaskReport, ThreadGo, TypeOK, taskVars
      <4>2. QED
        BY <2>0, <4>1 DEF TaskInv, ClaimInv, StepInv, GoalInv,
           ResultAfterTaskState, Stepping, Claimed
    <3>7. QED
      BY <2>5, <3>1, <3>2, <3>3, <3>4, <3>5, <3>6 DEF Task
  <2>6. CASE UNCHANGED vars
    BY <2>6, UntouchedKeeps DEF vars, TaskUntouched
  <2>7. QED
    BY <2>1, <2>2, <2>3, <2>4, <2>5, <2>6 DEF Next
<1>3. TaskInv => ResultAfterTaskState
  BY DEF TaskInv
<1>4. QED
  BY <1>1, <1>2, <1>3, TypeCorrect, SlotIsExclusive, PTL DEF Spec

-----------------------------------------------------------------------------
(* RuntimeNode implements RuntimeLifecycle.                                *)

Seen == imu # "never" /\ joint # "never"

\* The transitions RuntimeLifecycle allows while seen does not change.
Follows(m, n) ==
  \/ n.state = m.state
  \/ n.state = "Fault"
  \/ m.state = "Idle" /\ n.state = "Standby"
  \/ m.state = "Standby" /\ n.state = "Running"
  \/ m.state = "Running" /\ n.state = "Standby"
  \/ m.state = "Fault" /\ n.state = "Recovery"
  \/ m.state = "Recovery" /\ n.state = "Standby"

(* process() takes only those.                                             *)
LEMMA ProcessFollows ==
  ASSUME NEW m \in Machines, NEW e \in RuntimeEvents
  PROVE  Follows(m, Process(m, e))
BY DEF Follows, Process, Machine, Machines, RuntimeStates

(* A sensor once seen stays seen, and no step both sees a sensor and       *)
(* touches the machine.                                                    *)
LEMMA SeenStep ==
  TypeOK /\ [Next]_vars => (Seen => Seen') /\ (machine' = machine \/ UNCHANGED <<imu, joint>>)
<1> SUFFICES ASSUME TypeOK, [Next]_vars
             PROVE  (Seen => Seen') /\ (machine' = machine \/ UNCHANGED <<imu, joint>>)
  OBVIOUS
<1>1. \/ UNCHANGED <<imu, joint>>
      \/ ImuAges \/ JointAges \/ ImuCallback \/ JointCallback
  <2> USE DEF sensors
  <2>1. CASE World
    BY <2>1, Zenon DEF World, Interrupt
  <2>2. CASE Loop
    BY <2>2, Zenon DEF Loop, Spin, WakeUp, SpinReturns, Destroy
  <2>3. CASE Callback
    BY <2>3, Zenon DEF Callback, ResetFaultCallback, ApplyEventCallback, HandleCancel,
         HeartbeatTick, QueryStatus, HandleGoal
  <2>4. CASE Continue
    BY <2>4, Zenon DEF Continue, PublishHeartbeat, QueryVerdict, QuerySummary,
         CheckStandby, ClaimSlot, StartTask, HandleAccepted
  <2>5. CASE Task
    BY <2>5, Zenon DEF Task, TaskLoop, TaskOkCheck, TaskWork, TaskStore, TaskResult,
         TaskRelease, TaskReport
  <2>6. CASE UNCHANGED vars
    BY <2>6 DEF vars
  <2>7. QED
    BY <2>1, <2>2, <2>3, <2>4, <2>5, <2>6 DEF Next
<1>2. QED
  BY <1>1 DEF ImuAges, JointAges, ImuCallback, JointCallback, Seen

(* The machine of a step: one lifecycle transition, or Idle before both    *)
(* sensors have been seen.                                                 *)
LEMMA MachineStep ==
  TypeOK /\ [Next]_vars =>
    Follows(machine, machine') \/ (~Seen /\ machine'.state = "Idle")
<1> SUFFICES ASSUME TypeOK, [Next]_vars
             PROVE  Follows(machine, machine') \/ (~Seen /\ machine'.state = "Idle")
  OBVIOUS
<1>0. machine \in Machines /\ NextCase
  BY NextCases DEF TypeOK
<1>1. CASE Quiet
  BY <1>1 DEF Quiet, Follows
<1>2. CASE Updates
  <2>1. CASE SensorVerdict = "waiting"
    <3>1. ~Seen
      BY <2>1 DEF SensorVerdict, Seen
    <3>2. machine'.state = "Idle"
      BY <1>2, <2>1 DEF Updates, UpdatedMachine, Reset, Machine
    <3>3. QED
      BY <3>1, <3>2
  <2>2. CASE SensorVerdict # "waiting"
    <3>1. machine' = Process(machine, SensorVerdict)
      BY <1>2, <2>2 DEF Updates, UpdatedMachine
    <3>2. QED
      BY <1>0, <2>2, <3>1, SensorVerdictType, ProcessFollows
  <2>3. QED
    BY <2>1, <2>2
<1>3. ASSUME NEW e \in ClientEvents \cup {"ResetFault"}, Serves(e)
      PROVE  Follows(machine, machine')
  BY <1>0, <1>3, EventsOK, ProcessFollows DEF Serves
<1>4. CASE Starts
  <2>1. "StartTask" \in RuntimeEvents
    BY DEF RuntimeEvents
  <2>2. QED
    BY <1>0, <1>4, <2>1, ProcessFollows DEF Starts
<1>5. ASSUME NEW e \in TaskEvents, Reports(e) PROVE Follows(machine, machine')
  BY <1>0, <1>5, TaskEventsAreEvents, ProcessFollows DEF Reports
<1>6. QED
  BY <1>0, <1>1, <1>2, <1>3, <1>4, <1>5 DEF NextCase

(* Refinement: the initial state and every step of the node are those of   *)
(* the lifecycle, with state and seen read off the machine and the sensors.*)
THEOREM RefinesLifecycle == Spec => ImplementsLifecycle
<1>1. Init => Lifecycle!Init
  BY DEF Init, Lifecycle!Init, Reset, Machine
<1>2. TypeOK /\ [Next]_vars =>
        [Lifecycle!Next]_<<machine.state, imu # "never" /\ joint # "never">>
  <2> SUFFICES ASSUME TypeOK, [Next]_vars
               PROVE  Lifecycle!Next \/ UNCHANGED <<machine.state, imu # "never" /\ joint # "never">>
    OBVIOUS
  <2>1. CASE machine' = machine
    <3>1. CASE UNCHANGED <<imu, joint>>
      BY <2>1, <3>1
    <3>2. CASE ~UNCHANGED <<imu, joint>>
      BY <2>1, SeenStep DEF Lifecycle!Next, Lifecycle!SeeSensors, Seen
    <3>3. QED
      BY <3>1, <3>2
  <2>2. CASE machine' # machine
    <3>1. UNCHANGED <<imu, joint>>
      BY <2>2, SeenStep
    <3>2. QED
      BY <3>1, MachineStep DEF Follows, Seen, Lifecycle!Next, Lifecycle!Forget,
         Lifecycle!BecomeReady, Lifecycle!StartTask, Lifecycle!EndTask, Lifecycle!Fail,
         Lifecycle!Repair, Lifecycle!Recover
  <2>3. QED
    BY <2>1, <2>2
<1>3. QED
  BY <1>1, <1>2, TypeCorrect, PTL DEF Spec, ImplementsLifecycle, Lifecycle!Spec

-----------------------------------------------------------------------------
(* query_status reads the machine twice.                                   *)

\* Only a task that saw the shutdown has something to report that could take
\* the machine to FAULT between the two readings.
OutcomeInv ==
  thread.at \in {"store", "result", "release", "report"} =>
    thread.outcome \in {"completed", "canceled"} \/ ~ok

ReadInv ==
  At("querySummary") => (exec.saw = "failure" <=> machine.state = "Fault") \/ ~ok

QueryInv == OutcomeInv /\ ReadInv

(* rclcpp does not come up again.                                          *)
LEMMA StaysDown == [Next]_vars /\ ~ok => ~ok'
<1>1. Next => ok' = ok \/ Interrupt
  BY Zenon DEF Next, World, ImuAges, JointAges, Loop, Spin, WakeUp, SpinReturns, Destroy,
       Callback, ImuCallback, JointCallback, ResetFaultCallback, ApplyEventCallback,
       HandleCancel, HeartbeatTick, QueryStatus, HandleGoal, Continue, PublishHeartbeat,
       QueryVerdict, QuerySummary, CheckStandby, ClaimSlot, StartTask, HandleAccepted,
       Task, TaskLoop, TaskOkCheck, TaskWork, TaskStore, TaskResult, TaskRelease, TaskReport
<1>2. QED
  BY <1>1, Zenon DEF Interrupt, vars

(* What the executor does leaves the task's outcome alone, but for the new *)
(* task of handleAccepted.                                                 *)
LEMMA OutcomeStep == ASSUME TypeOK, OutcomeInv, [Next]_vars PROVE OutcomeInv'
<1> USE DEF OutcomeInv
<1>0. ~ok => ~ok'
  BY StaysDown
<1>1. CASE UNCHANGED thread
  BY <1>0, <1>1
<1>2. CASE HandleAccepted
  BY <1>2 DEF HandleAccepted
<1>3. CASE Task
  <2>1. CASE TaskLoop
    BY <2>1, ThreadGoAt, FinishAt DEF TaskLoop
  <2>2. CASE TaskOkCheck
    <3>1. CASE ok
      BY <2>2, <3>1, ThreadGoAt DEF TaskOkCheck
    <3>2. CASE ~ok
      BY <1>0, <3>2
    <3>3. QED
      BY <3>1, <3>2
  <2>3. CASE TaskWork
    BY <2>3 DEF TaskWork, TypeOK
  <2>4. CASE TaskStore \/ TaskResult \/ TaskRelease \/ TaskReport
    <3>1. thread.at \in {"store", "result", "release", "report"}
      BY <2>4 DEF TaskStore, TaskResult, TaskRelease, TaskReport
    <3>2. thread'.outcome = thread.outcome
      BY <2>4 DEF TaskStore, TaskResult, TaskRelease, TaskReport, ThreadGo, TypeOK
    <3>3. QED
      BY <1>0, <3>1, <3>2
  <2>5. QED
    BY <1>3, <2>1, <2>2, <2>3, <2>4 DEF Task
<1>4. QED
  BY <1>1, <1>2, <1>3, Zenon DEF Next, World, ImuAges, JointAges, Interrupt, Loop, Spin,
       WakeUp, SpinReturns, Destroy, Callback, ImuCallback, JointCallback,
       ResetFaultCallback, ApplyEventCallback, HandleCancel, HeartbeatTick, QueryStatus,
       HandleGoal, Continue, PublishHeartbeat, QueryVerdict, QuerySummary, CheckStandby,
       ClaimSlot, StartTask, vars

(* Between the two readings only the task thread can touch the machine,    *)
(* and FAULT neither begins nor ends with what it reports.                 *)
LEMMA ReadStep == ASSUME TypeOK, QueryInv, [Next]_vars PROVE ReadInv'
<1> USE DEF QueryInv, ReadInv, At
<1>0. ~ok => ~ok'
  BY StaysDown
<1>1. CASE UNCHANGED <<exec, machine>>
  BY <1>0, <1>1
<1>2. CASE QueryVerdict
  BY <1>2 DEF QueryVerdict
<1>3. CASE exec'.at # "querySummary"
  BY <1>3
<1>4. CASE TaskReport
  <2>1. CASE ~ok
    BY <1>0, <2>1
  <2>2. CASE thread.outcome \in {"completed", "canceled"}
    <3>1. machine \in Machines /\ exec' = exec
      BY <1>4 DEF TypeOK, TaskReport
    <3>2. machine' = Process(machine, FinalEvent(thread.outcome))
      BY <1>4 DEF TaskReport
    <3>3. FinalEvent(thread.outcome) \in {"TaskSucceeded", "TaskCanceled"}
      BY <2>2 DEF FinalEvent
    <3>4. machine'.state = "Fault" <=> machine.state = "Fault"
      BY <3>1, <3>2, <3>3 DEF Process, Machine, Machines, RuntimeStates
    <3>5. QED
      BY <1>0, <3>1, <3>4
  <2>3. QED
    BY <1>4, <2>1, <2>2 DEF TaskReport, OutcomeInv
<1>5. CASE World
  BY <1>1, <1>5, Zenon DEF World, ImuAges, JointAges, Interrupt
<1>6. CASE Loop
  BY <1>3, <1>6, GoAt, ReturnAt DEF Loop, Spin, WakeUp, SpinReturns, Destroy
<1>7. CASE Callback
  <2>1. exec'.at \in {"loop", "tickPublish", "queryVerdict", "goalCheck"}
    <3>1. CASE ImuCallback \/ JointCallback \/ ResetFaultCallback \/ HandleCancel
      BY <3>1, ReturnAt DEF ImuCallback, JointCallback, ResetFaultCallback, HandleCancel
    <3>2. ASSUME NEW e \in ClientEvents, ApplyEventCallback(e) PROVE exec'.at = "loop"
      BY <3>2, ReturnAt DEF ApplyEventCallback
    <3>3. CASE HeartbeatTick \/ QueryStatus
      BY <3>3, GoAt DEF HeartbeatTick, QueryStatus
    <3>4. ASSUME NEW target \in Targets, HandleGoal(target)
          PROVE  exec'.at \in {"loop", "goalCheck"}
      BY <3>4 DEF HandleGoal, Looping
    <3>5. QED
      BY <1>7, <3>1, <3>2, <3>3, <3>4 DEF Callback
  <2>2. QED
    BY <1>3, <2>1
<1>8. CASE Continue
  <2>1. CASE PublishHeartbeat \/ QuerySummary \/ HandleAccepted
    BY <1>3, <2>1, ReturnAt DEF PublishHeartbeat, QuerySummary, HandleAccepted
  <2>2. CASE CheckStandby \/ ClaimSlot \/ StartTask
    BY <1>3, <2>2, GoAt, ReturnAt DEF CheckStandby, ClaimSlot, StartTask
  <2>3. QED
    BY <1>2, <1>8, <2>1, <2>2 DEF Continue
<1>9. CASE Task
  <2>1. UNCHANGED <<exec, machine>> \/ TaskReport
    BY <1>9, Zenon DEF Task, TaskLoop, TaskOkCheck, TaskWork, TaskStore, TaskResult, TaskRelease
  <2>2. QED
    BY <1>1, <1>4, <2>1
<1>10. CASE UNCHANGED vars
  BY <1>1, <1>10 DEF vars
<1>11. QED
  BY <1>5, <1>6, <1>7, <1>8, <1>9, <1>10 DEF Next

(* success and the summary of one reply to query_status agree about FAULT, *)
(* although they are read under two locks, unless the node is going down.  *)
THEOREM RepliesAgree == Spec => QueryAgrees
<1>1. Init => QueryInv
  BY DEF Init, Looping, QueryInv, OutcomeInv, ReadInv, At
<1>2. TypeOK /\ QueryInv /\ [Next]_vars => QueryInv'
  BY OutcomeStep, ReadStep DEF QueryInv
<1>3. QueryInv =>
        [QuerySummary => (exec.saw = "failure" <=> machine.state = "Fault") \/ ~ok]_vars
  BY DEF QueryInv, ReadInv, QuerySummary
<1>4. QED
  BY <1>1, <1>2, <1>3, TypeCorrect, PTL DEF Spec, QueryAgrees

=============================================================================
