------------------------- MODULE RuntimeStateMachine -------------------------
(***************************************************************************)
(* The runtime state machine of the ROS2 demo (runtime_state_machine.hpp): *)
(* a pure transition table from a state and an event to a state and an     *)
(* error code.  It holds no variable: RuntimeNode keeps one machine behind *)
(* a mutex and drives it with Process.                                     *)
(***************************************************************************)

RuntimeStates == {"Idle", "Standby", "Running", "Fault", "Recovery"}

RuntimeEvents == {"SensorHealthy", "SensorTimeout", "JointInvalid",
                  "StartTask", "TaskSucceeded", "TaskCanceled", "TaskFailed",
                  "ResetFault", "RecoveryDone"}

RuntimeErrors == {"None", "SensorTimeout", "JointStateInvalid",
                  "TaskFailed", "RecoveryFailed"}

Machines == [state : RuntimeStates, error : RuntimeErrors]

Machine(s, e) == [state |-> s, error |-> e]

(* reset(): the machine forgets its error whatever state it is put in.     *)
Reset(s) == Machine(s, "None")

\* Mutant: the recovered machine resumes the task the fault interrupted.
ProcessResumes(m, event) ==
  CASE m.state # "Fault" /\ event = "SensorTimeout" ->
         Machine("Fault", IF m.state = "Recovery" THEN "RecoveryFailed"
                                                  ELSE "SensorTimeout")
    [] m.state # "Fault" /\ event = "JointInvalid" ->
         Machine("Fault", "JointStateInvalid")
    [] m.state = "Idle" /\ event = "SensorHealthy" -> Machine("Standby", "None")
    [] m.state = "Standby" /\ event = "StartTask" -> Machine("Running", "None")
    [] m.state = "Running" /\ event \in {"TaskSucceeded", "TaskCanceled"} ->
         Machine("Standby", "None")
    [] m.state = "Running" /\ event = "TaskFailed" -> Machine("Fault", "TaskFailed")
    [] m.state = "Fault" /\ event = "ResetFault" -> Machine("Recovery", "None")
    [] m.state = "Recovery" /\ event = "RecoveryDone" -> Machine("Running", "None")
    [] OTHER -> m

(* process(): a switch on the current state; an event the state has no arm *)
(* for leaves the machine alone.  Every state but Fault has an arm for the *)
(* two sensor faults, and only Recovery renames the timeout.               *)
Process(m, event) ==
  CASE m.state # "Fault" /\ event = "SensorTimeout" ->
         Machine("Fault", IF m.state = "Recovery" THEN "RecoveryFailed"
                                                  ELSE "SensorTimeout")
    [] m.state # "Fault" /\ event = "JointInvalid" ->
         Machine("Fault", "JointStateInvalid")
    [] m.state = "Idle" /\ event = "SensorHealthy" -> Machine("Standby", "None")
    [] m.state = "Standby" /\ event = "StartTask" -> Machine("Running", "None")
    [] m.state = "Running" /\ event \in {"TaskSucceeded", "TaskCanceled"} ->
         Machine("Standby", "None")
    [] m.state = "Running" /\ event = "TaskFailed" -> Machine("Fault", "TaskFailed")
    [] m.state = "Fault" /\ event = "ResetFault" -> Machine("Recovery", "None")
    [] m.state = "Recovery" /\ event = "RecoveryDone" -> Machine("Standby", "None")
    [] OTHER -> m

(* errorInfo(): the severity and the advice that service replies attach to *)
(* an error code; the texts are left out.                                  *)
ErrorInfo(error) ==
  [severity    |-> CASE error = "None"       -> "Info"
                     [] error = "TaskFailed" -> "Warning"
                     [] OTHER                -> "Critical",
   recoverable |-> error \in {"None", "SensorTimeout", "TaskFailed"}]

=============================================================================
