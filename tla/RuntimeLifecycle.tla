-------------------------- MODULE RuntimeLifecycle --------------------------
(***************************************************************************)
(* What the runtime node promises to those who watch it from outside, with *)
(* events, error codes and threads left out: which state may follow which, *)
(* and until when a restart of the sensors' bookkeeping may still throw    *)
(* the state away.  RuntimeNode implements this specification; Watchdog is *)
(* composed with it.                                                       *)
(***************************************************************************)
VARIABLES
  state,  \* the state name in services, heartbeats and results
  seen    \* both sensors have sent something

Init == state = "Idle" /\ seen = FALSE

\* Until both sensors have been seen, any look at them goes back to Idle.
Forget == ~seen /\ state' = "Idle" /\ UNCHANGED seen

SeeSensors == seen' = TRUE /\ UNCHANGED state

\* Idle and Standby are left by name ...
BecomeReady == state = "Idle" /\ state' = "Standby" /\ UNCHANGED seen

StartTask == state = "Standby" /\ state' = "Running" /\ UNCHANGED seen

EndTask == state = "Running" /\ state' = "Standby" /\ UNCHANGED seen

\* ... every state can fail, and a failure is repaired in two steps.
Fail == state' = "Fault" /\ UNCHANGED seen

Repair == state = "Fault" /\ state' = "Recovery" /\ UNCHANGED seen

Recover == state = "Recovery" /\ state' = "Standby" /\ UNCHANGED seen

Next ==
  \/ Forget
  \/ SeeSensors
  \/ BecomeReady
  \/ StartTask
  \/ EndTask
  \/ Fail
  \/ Repair
  \/ Recover

Spec == Init /\ [][Next]_<<state, seen>>

=============================================================================
