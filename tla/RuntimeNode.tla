----------------------------- MODULE RuntimeNode -----------------------------
(***************************************************************************)
(* runtime_node.cpp: one ROS2 node whose callbacks all run on the thread   *)
(* that calls rclcpp::spin (a single-threaded executor), plus one task     *)
(* thread that executes the current execute_task goal.  Callbacks exclude  *)
(* each other; the task thread interleaves with them.  They share          *)
(*   - the state machine, under runtime_state_mutex_,                      *)
(*   - task_active_, task_state_ and task_current_step_, three atomics,    *)
(*   - the goal handle of the action server.                               *)
(* A callback is therefore split where the code gives the mutex back or    *)
(* touches an atomic, and nowhere else.                                    *)
(*                                                                         *)
(* Time is abstracted to what updateRuntimeState compares: a sensor has    *)
(* sent nothing yet, sent something less than a second ago, or not.        *)
(***************************************************************************)
EXTENDS Integers, RuntimeStateMachine

CONSTANTS
  Targets,      \* the target_steps values that goals carry
  ClientEvents  \* the events that callers of runtime/apply_event send

ASSUME TargetsAssumption == Targets \subseteq Int
ASSUME ClientEventsAssumption == ClientEvents \subseteq RuntimeEvents

VARIABLES
  machine,      \* runtime_state_machine_
  imu,          \* imu_count_ and the age of last_imu_time_
  joint,        \* joint_count_ and the age of last_joint_time_
  jointValid,   \* latest_joint_valid_
  taskActive,   \* task_active_
  taskState,    \* task_state_
  taskStep,     \* task_current_step_
  goal,         \* status of the newest goal handle, kept by rclcpp_action
  exec,         \* the executor thread: where it is and its locals
  thread,       \* task_thread_: where it is and executeTask's locals
  ok            \* rclcpp::ok()

sensors == <<imu, joint, jointValid>>
taskVars == <<taskActive, taskState, taskStep>>
vars == <<machine, imu, joint, jointValid, taskActive, taskState, taskStep,
          goal, exec, thread, ok>>

SensorAges == {"never", "fresh", "stale"}
TaskStates == {"IDLE", "RUNNING", "COMPLETED", "CANCELED", "FAILED"}
GoalStates == {"none", "executing", "canceling",
               "succeeded", "canceled", "aborted"}
ExecPoints == {"loop", "ready", "goalCheck", "goalClaim", "claimed", "accepted",
               "tickPublish", "queryVerdict", "querySummary", "joining", "gone"}
ThreadPoints == {"none", "loop", "okCheck", "work", "store", "result",
                 "release", "report", "done"}
Outcomes == {"none", "completed", "canceled", "failed"}

\* What updateRuntimeState concluded from the sensors.
Verdicts == {"waiting", "SensorHealthy", "SensorTimeout", "JointInvalid"}

\* response->success of a query.
Replies == {"success", "failure"}

At(p) == exec.at = p

\* Between callbacks the executor has no locals.
Looping == [at |-> "loop", target |-> 0, saw |-> "none"]

\* The callback returns to the loop of rclcpp::spin.
Return == exec' = Looping

\* The executor (the task thread) moves to point p.
Go(p) == exec' = [exec EXCEPT !.at = p]

ThreadGo(p) == thread' = [thread EXCEPT !.at = p]

Init ==
  /\ machine = Reset("Idle")
  /\ imu = "never" /\ joint = "never" /\ jointValid = FALSE
  /\ taskActive = FALSE /\ taskState = "IDLE" /\ taskStep = 0
  /\ goal = "none"
  /\ exec = Looping
  /\ thread = [at |-> "none", target |-> 0, step |-> 0, outcome |-> "none"]
  /\ ok = TRUE

-----------------------------------------------------------------------------
(* The world: time passes, the process is asked to stop.                   *)

\* More than a second passes without a message from the IMU (the joints).
ImuAges ==
  /\ imu = "fresh" /\ imu' = "stale"
  /\ UNCHANGED <<machine, joint, jointValid, taskVars, goal, exec, thread, ok>>

JointAges ==
  /\ joint = "fresh" /\ joint' = "stale"
  /\ UNCHANGED <<machine, imu, jointValid, taskVars, goal, exec, thread, ok>>

\* SIGINT: rclcpp::ok() turns false, whatever the threads are doing.
Interrupt ==
  /\ ok /\ ok' = FALSE
  /\ UNCHANGED <<machine, sensors, taskVars, goal, exec, thread>>

-----------------------------------------------------------------------------
(* The executor: rclcpp::spin tests ok, waits, runs one callback, repeats. *)

Spin ==
  /\ At("loop") /\ ok
  /\ Go("ready")
  /\ UNCHANGED <<machine, sensors, taskVars, goal, thread, ok>>

\* The wait is interrupted by the shutdown.
WakeUp ==
  /\ At("ready") /\ ~ok
  /\ Return
  /\ UNCHANGED <<machine, sensors, taskVars, goal, thread, ok>>

\* spin returns and main destroys the node, whose destructor joins the task.
SpinReturns ==
  /\ At("loop") /\ ~ok
  /\ Go("joining")
  /\ UNCHANGED <<machine, sensors, taskVars, goal, thread, ok>>

\* Mutant: join() without the joinable() test.
DestroyJoinsAlways ==
  /\ At("joining")
  /\ thread.at = "done"
  /\ Go("gone")
  /\ UNCHANGED <<machine, sensors, taskVars, goal, thread, ok>>

\* ~RuntimeNode: join() if joinable.
Destroy ==
  /\ At("joining")
  /\ thread.at \in {"none", "done"}
  /\ Go("gone")
  /\ UNCHANGED <<machine, sensors, taskVars, goal, thread, ok>>

-----------------------------------------------------------------------------
(* updateRuntimeState, the first step of three callbacks.                  *)

\* Mutant: && for || in the timeout test.
SensorVerdictBoth ==
  CASE imu = "never" \/ joint = "never"  -> "waiting"
    [] imu = "stale" /\ joint = "stale"  -> "SensorTimeout"
    [] ~jointValid                       -> "JointInvalid"
    [] OTHER                             -> "SensorHealthy"

SensorVerdict ==
  CASE imu = "never" \/ joint = "never" -> "waiting"
    [] imu = "stale" \/ joint = "stale" -> "SensorTimeout"
    [] ~jointValid                      -> "JointInvalid"
    [] OTHER                            -> "SensorHealthy"

\* Mutant: sensors are judged only between tasks.
UpdatedMachineBetweenTasks ==
  IF SensorVerdict = "waiting" THEN Reset("Idle")
  ELSE IF machine.state = "Running" THEN machine
  ELSE Process(machine, SensorVerdict)

\* Before both sensors have been seen the machine is reset, whatever state
\* it is in; later the verdict is an event like any other.
UpdatedMachine ==
  IF SensorVerdict = "waiting" THEN Reset("Idle")
                               ELSE Process(machine, SensorVerdict)

UpdateRuntimeState == machine' = UpdatedMachine

-----------------------------------------------------------------------------
(* Callbacks of one atomic step: sensors, services, cancel requests.       *)

ImuCallback ==
  /\ At("ready")
  /\ imu' = "fresh"
  /\ Return
  /\ UNCHANGED <<machine, joint, jointValid, taskVars, goal, thread, ok>>

JointCallback ==
  /\ At("ready")
  /\ joint' = "fresh"
  /\ jointValid' \in BOOLEAN
  /\ Return
  /\ UNCHANGED <<machine, imu, taskVars, goal, thread, ok>>

\* runtime/reset_fault: answers success whether or not the event did anything.
ResetFaultCallback ==
  /\ At("ready")
  /\ machine' = Process(machine, "ResetFault")
  /\ Return
  /\ UNCHANGED <<sensors, taskVars, goal, thread, ok>>

\* runtime/apply_event with a name parseRuntimeEvent knows; an unknown name
\* is answered and changes nothing.
ApplyEventCallback(event) ==
  /\ At("ready")
  /\ machine' = Process(machine, event)
  /\ Return
  /\ UNCHANGED <<sensors, taskVars, goal, thread, ok>>

\* handleCancel always accepts; rclcpp_action offers it only goals that are
\* still executing and then marks them canceling.
HandleCancel ==
  /\ At("ready")
  /\ goal = "executing" /\ goal' = "canceling"
  /\ Return
  /\ UNCHANGED <<machine, sensors, taskVars, thread, ok>>

-----------------------------------------------------------------------------
(* The heartbeat timer and runtime/query_status: update the machine, then  *)
(* read it again, each under its own lock.                                 *)

HeartbeatTick ==
  /\ At("ready")
  /\ UpdateRuntimeState
  /\ exec' = [at |-> "tickPublish", target |-> 0, saw |-> SensorVerdict]
  /\ UNCHANGED <<sensors, taskVars, goal, thread, ok>>

\* The status field of the payload publishHeartbeat sends.
HeartbeatStatus == IF machine.state = "Fault" THEN "FAULT" ELSE "OK"

PublishHeartbeat ==
  /\ At("tickPublish")
  /\ Return
  /\ UNCHANGED <<machine, sensors, taskVars, goal, thread, ok>>

QueryStatus ==
  /\ At("ready")
  /\ UpdateRuntimeState
  /\ Go("queryVerdict")
  /\ UNCHANGED <<sensors, taskVars, goal, thread, ok>>

\* response->success
QueryVerdict ==
  /\ At("queryVerdict")
  /\ exec' = [at |-> "querySummary", target |-> 0,
              saw |-> IF machine.state = "Fault" THEN "failure" ELSE "success"]
  /\ UNCHANGED <<machine, sensors, taskVars, goal, thread, ok>>

\* response->message: buildStatusSummary reads machine.state once more.
QuerySummary ==
  /\ At("querySummary")
  /\ Return
  /\ UNCHANGED <<machine, sensors, taskVars, goal, thread, ok>>

-----------------------------------------------------------------------------
(* execute_task: handleGoal and handleAccepted, one executor callback.     *)

\* A goal arrives: the machine is brought up to date before anything else.
HandleGoal(target) ==
  /\ At("ready")
  /\ UpdateRuntimeState
  /\ exec' = IF target <= 0 THEN Looping
             ELSE [at |-> "goalCheck", target |-> target, saw |-> "none"]
  /\ UNCHANGED <<sensors, taskVars, goal, thread, ok>>

CheckStandby ==
  /\ At("goalCheck")
  /\ IF machine.state = "Standby" THEN Go("goalClaim") ELSE Return
  /\ UNCHANGED <<machine, sensors, taskVars, goal, thread, ok>>

\* Mutant: a plain store where the compare_exchange was.
ClaimSlotByStore ==
  /\ At("goalClaim")
  /\ taskActive' = TRUE
  /\ taskState' = "RUNNING"
  /\ taskStep' = 0
  /\ Go("claimed")
  /\ UNCHANGED <<machine, sensors, goal, thread, ok>>

\* compare_exchange on task_active_; the winner also resets the progress.
ClaimSlot ==
  /\ At("goalClaim")
  /\ IF taskActive
     THEN Return /\ UNCHANGED taskVars
     ELSE /\ taskActive' = TRUE
          /\ taskState' = "RUNNING"
          /\ taskStep' = 0
          /\ Go("claimed")
  /\ UNCHANGED <<machine, sensors, goal, thread, ok>>

\* processRuntimeEvent(StartTask), its result unused; ACCEPT_AND_EXECUTE makes
\* rclcpp_action create the goal handle.
StartTask ==
  /\ At("claimed")
  /\ machine' = Process(machine, "StartTask")
  /\ goal' = "executing"
  /\ Go("accepted")
  /\ UNCHANGED <<sensors, taskVars, thread, ok>>

\* handleAccepted: join the thread of the previous goal, then start a new one.
HandleAccepted ==
  /\ At("accepted")
  /\ thread.at \in {"none", "done"}
  /\ thread' = [at |-> "loop", target |-> exec.target, step |-> 1,
                outcome |-> "none"]
  /\ Return
  /\ UNCHANGED <<machine, sensors, taskVars, goal, ok>>

-----------------------------------------------------------------------------
(* The task thread: executeTask.                                           *)

Finish(outcome) == thread' = [thread EXCEPT !.at = "store", !.outcome = outcome]

\* Mutant: the cancel branch is missing.
TaskLoopDeaf ==
  /\ thread.at = "loop"
  /\ IF thread.step > thread.target THEN Finish("completed") ELSE ThreadGo("okCheck")
  /\ UNCHANGED <<machine, sensors, taskVars, goal, exec, ok>>

\* The loop condition and is_canceling().
TaskLoop ==
  /\ thread.at = "loop"
  /\ IF thread.step > thread.target THEN Finish("completed")
     ELSE IF goal = "canceling" THEN Finish("canceled")
     ELSE ThreadGo("okCheck")
  /\ UNCHANGED <<machine, sensors, taskVars, goal, exec, ok>>

TaskOkCheck ==
  /\ thread.at = "okCheck"
  /\ IF ok THEN ThreadGo("work") ELSE Finish("failed")
  /\ UNCHANGED <<machine, sensors, taskVars, goal, exec, ok>>

\* Mutant: the step is recorded and not counted.
TaskWorkStands ==
  /\ thread.at = "work"
  /\ taskStep' = thread.step
  /\ ThreadGo("loop")
  /\ UNCHANGED <<machine, sensors, taskActive, taskState, goal, exec, ok>>

\* Sleep, record the step, send the feedback.
TaskWork ==
  /\ thread.at = "work"
  /\ taskStep' = thread.step
  /\ thread' = [thread EXCEPT !.at = "loop", !.step = thread.step + 1]
  /\ UNCHANGED <<machine, sensors, taskActive, taskState, goal, exec, ok>>

FinalTaskState(outcome) ==
  CASE outcome = "completed" -> "COMPLETED"
    [] outcome = "canceled"  -> "CANCELED"
    [] OTHER                 -> "FAILED"

\* Mutant: the canceled step is counted as done.
TaskStoreOffByOne ==
  /\ thread.at = "store"
  /\ taskState' = FinalTaskState(thread.outcome)
  /\ taskStep' = IF thread.outcome = "canceled" THEN thread.step ELSE taskStep
  /\ ThreadGo("result")
  /\ UNCHANGED <<machine, sensors, taskActive, goal, exec, ok>>

\* The canceled branch first stores step - 1, which is what the loop stored
\* last, so that a query between its two stores cannot tell them apart.
TaskStore ==
  /\ thread.at = "store"
  /\ taskState' = FinalTaskState(thread.outcome)
  /\ taskStep' = IF thread.outcome = "canceled" THEN thread.step - 1 ELSE taskStep
  /\ ThreadGo("result")
  /\ UNCHANGED <<machine, sensors, taskActive, goal, exec, ok>>

FinalGoalState(outcome) ==
  CASE outcome = "completed" -> "succeeded"
    [] outcome = "canceled"  -> "canceled"
    [] OTHER                 -> "aborted"

\* goal_handle->succeed / canceled / abort: the client gets its result.
TaskResult ==
  /\ thread.at = "result"
  /\ goal' = FinalGoalState(thread.outcome)
  /\ ThreadGo("release")
  /\ UNCHANGED <<machine, sensors, taskVars, exec, ok>>

TaskRelease ==
  /\ thread.at = "release"
  /\ taskActive' = FALSE
  /\ ThreadGo("report")
  /\ UNCHANGED <<machine, sensors, taskState, taskStep, goal, exec, ok>>

\* Mutant: a canceled task is reported as failed.
FinalEventCancelFails(outcome) ==
  IF outcome = "completed" THEN "TaskSucceeded" ELSE "TaskFailed"

FinalEvent(outcome) ==
  CASE outcome = "completed" -> "TaskSucceeded"
    [] outcome = "canceled"  -> "TaskCanceled"
    [] OTHER                 -> "TaskFailed"

\* Mutant: the canceled branch returns without its event.
TaskReportForgetsCancel ==
  /\ thread.at = "report"
  /\ machine' = IF thread.outcome = "canceled" THEN machine
                ELSE Process(machine, FinalEvent(thread.outcome))
  /\ ThreadGo("done")
  /\ UNCHANGED <<sensors, taskVars, goal, exec, ok>>

\* The slot is free and a new goal may hold it by the time of this event.
TaskReport ==
  /\ thread.at = "report"
  /\ machine' = Process(machine, FinalEvent(thread.outcome))
  /\ ThreadGo("done")
  /\ UNCHANGED <<sensors, taskVars, goal, exec, ok>>

-----------------------------------------------------------------------------
World == ImuAges \/ JointAges \/ Interrupt

Loop == Spin \/ WakeUp \/ SpinReturns \/ Destroy

\* A callback begins because a message, a request or the timer is there ...
Callback ==
  \/ ImuCallback
  \/ JointCallback
  \/ ResetFaultCallback
  \/ \E event \in ClientEvents : ApplyEventCallback(event)
  \/ HandleCancel
  \/ HeartbeatTick
  \/ QueryStatus
  \/ \E target \in Targets : HandleGoal(target)

\* ... and once begun runs to its end.
Continue ==
  \/ PublishHeartbeat
  \/ QueryVerdict
  \/ QuerySummary
  \/ CheckStandby
  \/ ClaimSlot
  \/ StartTask
  \/ HandleAccepted

Task ==
  \/ TaskLoop
  \/ TaskOkCheck
  \/ TaskWork
  \/ TaskStore
  \/ TaskResult
  \/ TaskRelease
  \/ TaskReport

Next == World \/ Loop \/ Callback \/ Continue \/ Task

Spec == Init /\ [][Next]_vars

(* Fairness: the operating system schedules both threads, and the executor *)
(* looks at timers first, so a due heartbeat is not passed over for ever.  *)
Fairness ==
  /\ WF_vars(Loop)
  /\ WF_vars(Continue)
  /\ WF_vars(Task)
  /\ SF_vars(HeartbeatTick)

FairSpec == Spec /\ Fairness

-----------------------------------------------------------------------------
FlagsOK == jointValid \in BOOLEAN /\ taskActive \in BOOLEAN /\ ok \in BOOLEAN

(* Every variable has a value the code's types and enums allow.            *)
TypeOK ==
  /\ FlagsOK
  /\ machine \in Machines
  /\ imu \in SensorAges /\ joint \in SensorAges
  /\ taskState \in TaskStates /\ taskStep \in Int
  /\ goal \in GoalStates
  /\ exec \in [at : ExecPoints, target : Int, saw : Verdicts \cup Replies \cup {"none"}]
  /\ thread \in [at : ThreadPoints, target : Int, step : Int, outcome : Outcomes]

(* Where the goal that holds the slot is: claimed by a handleGoal that has *)
(* not started its thread yet, or owned by the running task thread.        *)
Claimed == exec.at \in {"claimed", "accepted"}
Owning == thread.at \in {"loop", "okCheck", "work", "store", "result", "release"}

(* One execute_task goal holds task_active_ at a time: the compare_exchange *)
(* in handleGoal and the stores of executeTask keep two goals apart, so a   *)
(* handleAccepted that joins waits for a thread that has already let go.    *)
SlotHasOneOwner ==
  /\ taskActive <=> (Claimed \/ Owning)
  /\ ~(Claimed /\ Owning)

(* Check-then-act across the mutex: between reading STANDBY and sending     *)
(* StartTask, whose result handleGoal ignores, no other thread takes the    *)
(* machine out of STANDBY, so an accepted goal always enters RUNNING.       *)
StandbyUntilStarted ==
  exec.at \in {"goalClaim", "claimed"} => machine.state = "Standby"

(* RUNNING is never left behind without a task: some thread (or the goal    *)
(* about to get one) will still report, else no later goal is ever accepted.*)
RunningHasTask ==
  machine.state = "Running" =>
    \/ exec.at = "accepted"
    \/ thread.at \notin {"none", "done"}

(* State and error code agree: exactly the FAULT state carries an error     *)
(* whose severity service replies show above INFO.                          *)
FaultIsExplained ==
  machine.state = "Fault" <=> ErrorInfo(machine.error).severity # "Info"

(* The heartbeat of a tick that found a sensor lost or the joints invalid   *)
(* says FAULT, though the task thread may report between the update and the *)
(* read of the machine.                                                     *)
LostSensorHeartbeat ==
  At("tickPublish") /\ exec.saw \in {"SensorTimeout", "JointInvalid"} =>
    HeartbeatStatus = "FAULT"

(* A client that has its result finds the same ending in query_status: the  *)
(* task state is final, with every step counted, before the result is sent, *)
(* and stays so until a new goal claims the slot.                           *)
ResultAfterTaskState ==
  At("claimed") \/
    /\ goal = "succeeded" => taskState = "COMPLETED" /\ taskStep = thread.target
    /\ goal = "canceled" => taskState = "CANCELED" /\ taskStep < thread.target
    /\ goal = "aborted" => taskState = "FAILED"

(* Once both sensors have been seen FAULT ends only by ResetFault, in       *)
(* RECOVERY: no timer, late task report or healthy sensor clears it.        *)
FaultIsSticky ==
  [][machine.state = "Fault" /\ imu # "never" /\ joint # "never" =>
       machine'.state \in {"Fault", "Recovery"}]_vars

(* query_status reads the machine twice under two locks; success and the    *)
(* summary in one reply still agree about FAULT, unless the node is being   *)
(* shut down and the task reports its failure in between.                   *)
QueryAgrees ==
  [][QuerySummary => (exec.saw = "failure" <=> machine.state = "Fault") \/ ~ok]_vars

(* The node implements RuntimeLifecycle: seen from outside its state moves  *)
(* only along the documented transitions, although three callbacks and the  *)
(* task thread drive the machine with events of their own.                  *)
Lifecycle == INSTANCE RuntimeLifecycle
               WITH state <- machine.state,
                    seen  <- imu # "never" /\ joint # "never"
ImplementsLifecycle == Lifecycle!Spec

-----------------------------------------------------------------------------
(* What documents say and the code does not do.                            *)

(* roadmap/daily/2026-07-27.md: a task does not go on in FAULT; no further  *)
(* step is begun there.                                                     *)
NoStepInFault ==
  [][TaskOkCheck /\ thread'.at = "work" => machine.state # "Fault"]_vars

(* roadmap/daily/2026-07-31.md: FAULT is left through ResetFault only.      *)
FaultNeedsReset ==
  [][machine.state = "Fault" => machine'.state \in {"Fault", "Recovery"}]_vars

(* roadmap/daily/2026-07-24.md: two tasks never change the runtime state at *)
(* the same time: the report of a finished task leaves a claimed one alone. *)
NoStaleReport ==
  [][TaskReport /\ Claimed /\ ok => UNCHANGED machine]_vars

-----------------------------------------------------------------------------
(* Liveness, under FairSpec.                                               *)

(* Every goal that was accepted gets its result, through cancellation,      *)
(* faults, resets and shutdown.                                             *)
EveryGoalEnds ==
  goal \in {"executing", "canceling"} ~> goal \in {"succeeded", "canceled", "aborted"}

(* A cancel accepted while a further step remains to be checked is honoured:*)
(* the goal is not reported as a success.                                   *)
CancelIsHonoured ==
  goal = "canceling" /\ thread.at \in {"loop", "okCheck", "work"}
                     /\ thread.step < thread.target
    ~> goal = "canceled" \/ (goal = "aborted" /\ ~ok)

(* SIGINT ends the process: the destructor's join comes to an end.          *)
ShutdownCompletes == ~ok ~> At("gone")

(* A sensor that stays silent drives the machine to FAULT by itself, from   *)
(* whatever state it is in.                                                 *)
SensorLossFaults ==
  imu = "stale" /\ joint # "never"
    ~> machine.state = "Fault" \/ imu = "fresh" \/ ~ok

=============================================================================
