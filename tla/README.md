# Formal models of job_

`job_` is a collection of C++ programs for robot runtimes: a ROS2 demo with a
runtime node, a watchdog and sensor nodes, and small programs that each show one
technique (a blocking queue, thread pools, chat servers, shared memory, state
machines, CAN frames).  This directory holds TLA+ modules that model those of
them whose difficulty is in concurrency, failure and order; TLC configurations
that check them on small instances; and theorems about them that TLAPS proves for
every value of the constants.

In the following `RT` is `src/projects/ros2_runtime_demo/src/robot_runtime_demo/src`.

## The system: inventory

| Component | State | Operations | Interacts with | What is hard |
|---|---|---|---|---|
| Runtime state machine (`RT/runtime_state_machine.hpp`) | `state_`, `error_` | `process`, `reset`, `errorInfo` | owned by the runtime node | which event counts in which state |
| Runtime node (`RT/runtime_node.cpp`) | the machine, sensor times, `task_active_`, `task_state_`, `task_current_step_`, the goal handle, the task thread | sensor callbacks, heartbeat timer, three services, the `execute_task` action, the task thread, destructor | sensors (topics), watchdog (heartbeat out, `apply_event` in), action clients | one executor thread and one task thread on a shared machine and three atomics; cancel, fault and shutdown in the middle of a task |
| Watchdog (`RT/watchdog_node.cpp`) | heartbeat table, `fault_triggered_` | `handleHeartbeat`, `checkTimeouts`, `triggerFault` and its response callback | heartbeats of every node, `apply_event` of the runtime node | asynchronous calls repeated until answered, crashes, a lossy topic history, a latch |
| Sensor simulator, heartbeat monitor (`RT/sensor_sim_node.cpp`, `RT/heartbeat_monitor_node.cpp`) | counters; a heartbeat table | timers, `handleHeartbeat` | publish sensors and heartbeats | none of their own |
| Inference node (`RT/inference_node.cpp`) | latest sample of both sensors, statistics | two callbacks, a timer | the two sensor topics | floating point |
| Blocking queue (`src/projects/blocking_queue/src/blocking_queue.hpp`, same text in `robocon`) | `q_`, `closed_`, two condition variables | `push`, `try_push`, `pop`, `try_pop`, `shutdown` | any threads | lost and spurious wakeups, shutdown against waiters |
| Queue demo (`src/projects/blocking_queue/src/main.cpp`) | two counters | producers, consumers, main | the queue | the order of join, shutdown and join |
| Thread pools (`tcp_chat_threadpool/src/thread_pool.hpp`, `practice/today_2026_07_15_thread_pool.cpp`) | task queue, stop flag | `submit`, worker loop, destructor | submitters, tasks | notify after unlock, tasks left at destruction |
| Chat servers (`tcp_chat_server`, `tcp_chat_threadpool`) | client table, descriptors | accept, receive, broadcast, close | TCP clients | a snapshot of descriptors used after the lock is released |
| Shared-memory ring (`shm_ipc`) | ring, three named semaphores | writer, reader, set-up and teardown | two processes | a crash or restart of either |
| Event-loop chat server (`tcp_chat_epoll`) | client table, the batch of ready descriptors | wait, accept, receive, broadcast, close | TCP clients, the kernel | readiness that is stale when it is used, partial broadcasts |
| Unbounded queue exercise (`practice/today_2026_07_14_queue.cpp`) | queue, stop flag, counters | `push`, `pop`, `shutdown` | one producer, one consumer | as the pools |
| Robot console (`robocon/src/main.cpp`) | the robot under a mutex | simulation thread, command handler | terminal | the state moves on by itself; hints are printed after the mutex is released |
| Robot arm machines (`state_machine`, `observer`) | current state, transition and callback tables; current state, observers | `process`, callbacks; `send`, `subscribe`, `unsubscribe`, `notify` | observers | one arm written twice; the order of exit, action and enter; notification before the assignment |
| CAN demo (`socketcan_vcan_demo`) | the monitor: state, time of the last frame, error | parse, format, encode, decode, `observeStatus`, `checkTimeout` | the bus | 16-bit values in bytes in text; cut lines; the first period |
| ONNX model (`onnx_runtime_cpp_demo`: script and inspector) | none; a file between them | write a model, parse it | a file | a hand-written encoder and a hand-written parser that must agree; a file that is cut off |
| Echo server, inference node, music visualizer, URDF and Gazebo demos, tests, the documentation site | | | | no shared state, or arithmetic: not modelled |

What makes each component correct:

* Runtime node: one goal at a time; RUNNING always has a task; a fault is
  explained, reported and lasts until it is reset; a client that has its result
  and then asks for the status finds the same ending; cancelled goals end; the
  node can always be stopped.
* Watchdog: no fault for a node that is alive and heard; a fault for one that is
  not, though calls and processes die.
* Queue: first in, first out, bounded; nobody sleeps while there is work;
  shutdown wakes everybody and loses nothing.
* Pools and servers: every task runs once; every client hears what was said
  while it was connected and nothing else.
* Ring: a frame is not overwritten before it is read nor read before it is written;
  frames come out as they went in; the two processes do not sleep on each other; whatever a killed process has left, the next run of the writer completes.
* Console: who waits for the hints is never refused; sensors and state agree.
* Arms: both arms are one arm; motion stops before an emergency stop; every
  observer is told of every change.
* CAN: decoded values are those that were sent; a fault is reported when there was
  one and only then.
* ONNX: what is reported as loaded is the model that was written.

## Modules

| Module | Models | Abstraction |
|---|---|---|
| `RuntimeStateMachine` | `runtime_state_machine.hpp` | a pure operator `Process(machine, event)` |
| `RuntimeLifecycle` | abstract: what the runtime node shows from outside | state name and "both sensors seen" |
| `RuntimeNode` | `runtime_node.cpp` | sensor times are `never`, `fresh`, `stale`; logging left out |
| `Watchdog` | `watchdog_node.cpp`, the heartbeat topic, the publishers; composed with `RuntimeLifecycle` | time in one-second periods |
| `BoundedQueue` | abstract: what the queue's comments promise | no mutex, no condition variable |
| `BlockingQueue` | `blocking_queue.hpp` | one step per critical section |
| `QueueDemo` | `blocking_queue/src/main.cpp`, on `BlockingQueue` | sleeps left to the scheduler |
| `ChatServer` | `tcp_chat_server` and `tcp_chat_threadpool`, server and client | a message is a pair of sender and kind; the pool is a queue and a number of workers |
| `ShmRing` | `shm_ipc`: writer, reader and what outlives them | a frame is its id; a semaphore is known by the run that created it |
| `FrameStream` | abstract: what the ring promises its reader | no ring, no semaphores, no processes |
| `EventLoopChat` | `tcp_chat_epoll`: server, poller, client | as `ChatServer`; a batch is a set |
| `ThreadPool` | both thread pools and the unbounded queue of 14 July | one step per critical section; a task is a number |
| `Robocon` | `robocon/src/main.cpp` | time in periods of the simulation; distance and force in steps |
| `RobotArms` | `state_machine` and `observer` side by side | what callbacks print is left out, but for the motion they report |
| `CanBus` | `socketcan_vcan_demo` | a character is the value of its digit |
| `OnnxModel` | the script that writes the model and the inspector that parses it | a stack of parse functions, driven by a table of their fields |
| `MC*` | | values of the constants for TLC |
| `QueueDemo_proofs` | | theorems about `BlockingQueue` and `QueueDemo` |
| `Robots_proofs` | | theorems about `RobotArms` and `Robocon` |
| `FaultSources_proofs` | | theorems about `Watchdog` and `CanBus`, the two that report a fault when messages stop |
| other `*_proofs` | | theorems about the module of that name |

Operators named in a comment as *mutant* are wrong variants of the definition
that follows them: the faults the properties were tried against.  No
specification uses them.

### RuntimeNode and the code

`rclcpp::spin` on one thread runs one callback at a time; `exec.at` is where that
thread is, and a callback is an action from `ready` back to `loop`, cut into
several where the code gives up `runtime_state_mutex_` or touches an atomic:
`handleGoal` is `HandleGoal` (the update), `CheckStandby`, `ClaimSlot` (the
`compare_exchange` and the two stores), `StartTask`, and then `HandleAccepted`,
which joins.  `executeTask` is `TaskLoop`, `TaskOkCheck`, `TaskWork` per step and
`TaskStore`, `TaskResult`, `TaskRelease`, `TaskReport` at its end, in the order of
the code: final task state, result to the client, slot, event.  `updateRuntimeState`
is part of every action whose code calls it.  `goal` is the status of the newest
goal handle, as `rclcpp_action` keeps it: it offers `handleCancel` only goals that
execute.  Earlier goals are over by then, because the slot is released after the
result.

### Watchdog and the code

`Period` is one second for every timer: ages grow, timers become due.  A timer
that has not run is due once, not twice.  `PublishHeartbeat` stamps and appends to
the topic, whose history (`heartbeatQos`, keep last) drops the oldest heartbeat of
whatever node when it is full; `HandleHeartbeat` records; `CheckTimeouts` judges
all entries and sends at most one call; the call is served (`HandleRequest`) and
answered (`HandleResponse`) in steps of their own, or dies with the runtime
(`Crash`).  Between calls the runtime takes any step of `RuntimeLifecycle`,
which `RuntimeNode` is shown to implement: the two models meet there.

### BlockingQueue and the code

What a call does under `mtx_` is one step.  A thread whose predicate is false goes
to sleep in that step (`PushWaits`, `PopWaits`); a notified thread returns to the
point where it competes for the mutex again and re-tests, with newcomers before
it or not.  `notify_one` wakes any one sleeper; `SpuriousWakeup` may wake one at any
time.  `shutdown` is three steps: the flag, then each `notify_all` outside the lock.

### ChatServer and the code

Both servers run the same `handle_client`; `Workers` is `NUM_WORKERS` of the pool,
or one thread for each client.  A handler is a sequence of points, whose order is
the record `After`: each access to `g_clients` under its mutex is one step
(`Register`, the copy in `Snapshot`, `Erase`), and so is each `send` of a broadcast,
because other handlers run in between.  The kernel is `owner`: who is at the other
end of a descriptor.  `Accept` gives out the lowest free one, as POSIX requires, so
that a closed descriptor comes back at once; a message goes to whoever owns the
descriptor when `send` is called.  A client hangs up by closing its input
(`quitting`: it still receives, until the server closes or the next message comes)
or is killed (`gone`).

### ShmRing and the code

Each program is a sequence of points (`pc`) from its set-up to its end; each system
call on a shared object and each access to the ring under the mutex is one step.
`k` counts through the three names in set-up and teardown.  The kernel's part is
what a name means (`semName`, `shmName`) apart from the objects themselves (`value`,
`region`): `sem_unlink` takes only the name, so that a process goes on with a
semaphore whose name means another by then.  `Crash` kills either process anywhere;
what it held stays as it is.  `put` and `taken` are history.  `Patient` is how people
use the two programs: they start the reader when the writer has said that it is ready,
and the writer only when no reader runs.

`ImplementsStream` reads the ring as a stream of frames: `put` frames were sent,
what lies between `tail` and `head` waits (`Waiting`), `reader.got` was printed.  A step
of `FrameStream` takes or puts a whole frame; the rest of the system calls are stutters.

### EventLoopChat and the code

One thread, so a step is a handler up to its broadcast, then one step for each
`send`; people and the kernel take steps in between.  `Wait` takes every readable
descriptor and perhaps one that has nothing to read any more.  `OnLine`, `OnEnd` and
`OnNothing` are what `recv` may return in `on_readable`; `OnConnect` may find that the
connection has vanished or that there is no descriptor left.  A `send` to a client
in `Slow` may fail, which the code does not look at.

### ThreadPool and the code

`submit` is `Submit` under the mutex and `NotifyOne` after it; `Wait` and `Take` are the
two ways out of the predicate of `cv_.wait`; `Finish` runs the task.  `guarded` chooses
the class at the start: the exercises of 14 and 15 July refuse what is submitted after
the stop, the chat server's pool takes it.  A task in `Child` submits another, which
may fall after `stop`.  The destructor is `Stop`, `NotifyAll`, `Join`.

### Robocon and the code

Each critical section of `robot.mtx` is one step (`SimTicks`, `UserCommands`, `UserQuits`)
and each `emit` another, because the mutex is released between them.  `Elapse` is one
period of the 600 ms; ages beyond every threshold look alike.  `told` is the last hint
on the screen; `follows` and `refused` are history.

### RobotArms and the code

Both arms get the same event when both are at rest.  `StateMachine::process` is
`Process` (the lookup), `CallExit`, `RunAction`, `MoveAndEnter`; `RobotArm::send` of the
observed arm is `Send`, one `Notify` for each entry of `observers_`, `Assign`.  A key of
the table is built as `tr_key` builds it.  (This module and `CanBus` name their parts
`ArmsInit`, `CanSpec` and so on, because their theorems share a module with those of
another component.)

### CanBus and the code

A line is two sequences of digits around the `#`.  `ParseCandumpLine` is the three parse
functions with their exceptions as `Error`; a stream reads digits up to the first
other character (`HexPrefix`), so a line with a character that is no digit in the
second place of a byte is accepted.  The actuators are external: they answer a command
with the values they were given.  `ObserveStatus` notes the time before it judges.

### OnnxModel and the code

The operators of the first part are the functions of the script.  The eleven parse
functions of the inspector have one shape: a loop that reads a tag and then a field
it knows, or skips it.  `Rows` says for each what it knows and what it makes of it;
`stack` holds the running ones.  Every read gives the set of its results, which is
empty where the code throws.  `Write` leaves any first part of the file.

## Runs

| Run | What it shows | Size |
|---|---|---|
| `node` | `SlotHasOneOwner`, `RunningHasTask`, `LostSensorHeartbeat`, `ResultAfterTaskState`; the action property `QueryAgrees`; refinement of `RuntimeLifecycle`; `EveryGoalEnds`, `CancelIsHonoured`, `ShutdownCompletes`, `SensorLossFaults` under fairness | 50 thousand states |
| `node_no_step_in_fault` | a sentence of the notes that the code does not keep (see Findings) | counterexample |
| `watchdog` | `NoFalseAlarm`, and `OutageFaults` under fairness | 330 thousand states |
| `queue_demo` | on the queue with its condition variables: `NoLostWakeup`, refinement of `BoundedQueue`; of the program: `Backpressure`, `NothingLeftBehind`, `SomebodyGoesOn`, `Termination` | 43 thousand states |
| `chat` | `TableIsOpen`, `EachKnowsOther`; `StayersHearLeave`, `QuitEnds` under fairness | 370 thousand states |
| `ring` | refinement of `FrameStream`; while nobody is killed `NobodyStuck`, and `CleanRunCompletes` under fairness | 200 thousand states |
| `robocon` | `FollowerIsNeverRefused`; `NextStepIsShown` under fairness | 7 thousand states |
| `event_loop` | `BatchIsRegistered`, `HearsTheRoom`; `EveryoneIsServed` under fairness | 22 thousand states |
| `can` | `StatusSurvivesTheBus`, `FaultHasCause` | 6 thousand states |
| `thread_pool` | `NoTaskUnattended`, `NothingAbandoned`; `DestructorReturns` under fairness | 24 thousand states |
| `arms` | `SameArm`, `StopsBeforeEmergency`, `EveryoneTold`, no deadlock | 31 thousand states |
| `onnx` | `LoadsTheModel`; `InspectorEnds` under fairness | 8 thousand states |

`BlockingQueue.cfg` with `MCBlockingQueue` checks the class alone, with `try_push`,
`try_pop` and threads that change their part at any time; the theorems of
`QueueDemo_proofs` say the same for every number of threads.  It and the other
configurations that are not in this table can be given to TLC by hand.  `TypeOK` and the
invariants that only explain another property are proved and no longer run:
`RingHoldsUnread`, `Successive` and `EndsWithEveryFrame` of the ring, `JoinsNoSleeper` of the
pool, `ReadingsMatchState` of the console and some others.

### Bounds

* `Targets = {0, 1, 2}`: a refused goal, a task with one step and one with a step
  that is not the last.  Goals follow each other without end, so that two goals
  overlap in every way the slot allows.
* `ClientEvents`: in `node` every event but `StartTask`; with `StartTask` a
  client can put the machine in RUNNING without a task, which `RunningHasTask`
  excludes by assumption.  The counterexamples use the two events that the
  watchdog and an operator apply.
* `Limit = 2` periods for the code's 3000 ms, `Depth = 2` for the topic's three
  heartbeats: two publishers fill two places as three or more fill three, so the
  topic overflows in the model as it does in the program.
  `MaxCalls = 2` calls in flight are enough for a late duplicate; it is a guard of
  `CheckTimeouts` and the only bound in that model that the code does not have.
* Queue demo: two producers, two consumers and main as in the code; three frames
  each for eight and two places for four, so that the queue still fills.
* Chat: three clients and three descriptors.  Three are needed for a broadcast with
  one recipient that fails and one that does not, and for a newcomer between a
  sender and the recipient it replaces.  Two clients may leave at any time; the one
  that stays types a line.
* Ring: two places for four and three frames for twelve, so that head and tail wrap
  and the ring fills.  `MaxRuns = 3` starts of the writer and `MaxCrashes = 3` kills: the
  second run meets what a run cut short has left, the third what two have, and one
  kill may fall within a set-up or teardown.

* Event loop: three clients and three descriptors, as in the chat: one talks and may be
  slow, two may leave.  Three are needed for a batch that holds a departure, an arrival
  on the same descriptor and a message.
* Thread pool: three workers, three jobs, one of which starts a chain of two more: more
  tasks than workers, tasks queued during the stop, workers asleep at the stop.
* Console: the target takes two periods to reach, the grip one, and a readout is due
  every second tick, so that it competes with the hints.
* Arms: two observers and three entries of the vector, so that one may be subscribed
  twice beside another.
* CAN: node ids 1 and 15 (the ends of what a status id holds), positions around zero and
  around both ends of 16 bits; a clock of three ticks with a timeout of one; one line on
  the bus, which may be replaced at once.
* ONNX: every combination of an empty or non-empty graph name, inputs and
  initializers; a dimension and a tensor whose size needs two bytes; the file cut at
  every byte.  Numbers of four bytes at most: what the script writes.

`CHECK_DEADLOCK FALSE` is set where the program ends or waits for people: the node
after SIGINT, the queue demo after its last join, a chat in which everybody has
left, a ring whose processes have ended or wait for one that was killed, a console, pool
or inspector that has ended, an event loop with nobody in it, a bus whose clock is at its bound.

### Fairness

* `RuntimeNode`: weak fairness of the executor's loop, of a begun callback and of
  the task thread: the operating system runs both.  Strong fairness of the
  heartbeat timer: the executor looks at timers before anything else, so a timer
  that is due again and again is served.  No client, sensor or signal is
  obliged to do anything.
* `Watchdog`: the clock, the watchdog's own queue, its timer, and the service
  and its answer are weakly fair.  Nodes may crash, stay down or not publish.
* `QueueDemo`: each thread is weakly fair; a sleeping thread need not wake by
  itself.
* `ChatServer`: `accept`, each handler and the client's receiving thread are weakly
  fair; in particular `send` does not block for ever, because the client program
  always reads.  Nobody is obliged to type or to leave.
* `ShmRing`: each process that runs goes on, and somebody starts a reader for a writer
  that is ready.  Nobody is obliged to start a writer or to kill anything.
* `EventLoopChat`: the server's loop and the receiving thread of a client that waits for
  the server.
* `ThreadPool`: main and each worker that is not asleep.
* `Robocon`: time, the simulation thread and the handler's own steps; nobody has to type.
* `OnnxModel`: the inspector runs once there is a file.

## Findings

The run `node_no_step_in_fault` keeps the first; the configurations named with the
others give a counterexample when TLC is run on them by hand.

1. **A task goes on in FAULT** (`NoStepInFault`).  `executeTask`
   (`runtime_node.cpp:393`) looks at cancel and shutdown, never at the machine.
   After a sensor timeout it runs its remaining steps and reports success.
   `roadmap/daily/2026-07-27.md:116` says it must not.
2. **FAULT without a reset is forgotten** (`RuntimeNode_FaultNeedsReset.cfg`).  Until
   both sensors have been heard `updateRuntimeState` (`:219`) resets the machine in any
   state; a fault applied by the watchdog before that is gone a second later.
   `roadmap/daily/2026-07-31.md:181` says FAULT must go through
   ResetFault/RecoveryDone.
3. **The last event of one task ends the next** (`RuntimeNode_NoStaleReport.cfg`).  The
   slot is released (`:449`) before the event is sent (`:450`).  After a fault and recovery
   in the middle of a task a new goal can be claimed in between.
   `roadmap/daily/2026-07-24.md:262` gives the slot as what keeps two tasks from
   changing the state at the same time.
4. **The watchdog reports one outage in its life** (`Watchdog_AnyTimeoutFaults.cfg`).
   `fault_triggered_` (`watchdog_node.cpp:144`) is never cleared; the comment in line
   123 says any timeout faults the runtime.
5. **A newcomer is sent what was meant for its predecessor**
   (`ChatServer_NotHeardBeforeRegistered.cfg`).  `broadcast`
   (`tcp_chat_server/src/server.cpp:40`) sends to copied descriptors.
   `practice/tcp_chat_server.md:103` says that `send` to one closed in the meantime
   fails; but the kernel hands it out again, and a client that has just connected, and
   that no worker serves yet, gets the message.  The event-loop server does not do this
   (`BatchIsRegistered`).
6. **The leftovers of a crashed run are not all cleared**
   (`ShmRing_LeftoversCleared.cfg`).  The writer zeroes the memory and unlinks the
   semaphores (`shm_ipc/src/writer.cpp:23-29`), but a reader of the run before still has
   both.  It goes on with its own semaphores and moves `tail` in the memory just zeroed;
   the next reader starts at a place nobody has written.  The comment in line 26 says
   that leftover state is cleared.  While people wait for the programs (`Patient`) it is:
   see `CleanRunCompletes`.
7. **A byte with one digit is accepted** (`CanBus_GarbledIsRefused.cfg`).  `parseHexByte`
   (`socketcan_vcan_demo/src/can_frame.hpp:27-39`) asks for two characters and whether
   the stream has failed; `1G` is read as 1, though the message of the exception it
   throws for other sizes says two hex characters.

## What is proved

The theorems hold for every value of the constants under the named assumptions
of the modules: finitely many threads and a natural capacity for the queue;
integers for the targets; a positive depth and natural limit for the watchdog;
finitely many clients and natural descriptors for the chat; a positive capacity
and number of frames for the ring; positive times for the console; finitely many
workers and distinct tasks for the pool; producers, consumers and main distinct and as many
frames as one likes, at least one, for the queue's program (`ProgramAssumption`); any
observers, at least one, for the arms; node ids of one hex digit, integer positions and
natural times for the bus (`BusAssumption`).

* `RuntimeNode_proofs`: every invariant of `node`, `FaultIsSticky` and the
  refinement.  The inductive part is a conjunction of named invariants:
  `SlotIsExclusive` needs where each thread is in relation to the slot, not only
  the flag.  `GoalStartsInStandby` rests on it: only the executor itself can leave
  STANDBY, since the task thread's last event (`TaskReport`) finds another state
  or moves RUNNING to STANDBY.  `NoOrphanRunning` assumes that clients do not send
  `StartTask`.  `RefinesLifecycle` maps each action to a step of the lifecycle
  or a stutter through one lemma about `Process`.
  `RepliesAgree` is the action property `QueryAgrees`: a reply to the status query takes the
  machine's state twice, under two locks, and both readings agree about FAULT unless the
  node is being shut down: only the task thread runs in between, and its report of a
  failure needs the shutdown.
* `FaultSources_proofs`, the watchdog: types, `RecordsAreExplained`, `NoAlarmIsFalse`.  The
  invariant adds that the last queued heartbeat of a node has the age of its last
  publication (`NewestQueued`): reading it makes the record exact.
* `FaultSources_proofs`, the bus: `StatusIsSent`, `FaultsAreCaused`.  `FrameSurvives`: any id
  of eleven bits and any one to eight bytes are read back from their text as they were, for the
  formatting in hex, the stream that reads it and the loop over pairs.  From it the
  invariant `CanInv` says of every line on the bus that it is a command or an answer,
  whole or cut, and of the monitor that its time and error are explained by what it
  has read.
* `QueueDemo_proofs`, the class: types, `ShutdownReachesAll`, `WakeupsReachEnough`,
  `RefinesBoundedQueue`.  `WakeupsReachEnough` counts: the thread that
  `notify_one` wakes pays for the item just queued, and the queue's change pays for
  the thread that leaves `pop`.
* `QueueDemo_proofs`, the program: `PressureIsBounded`, `NothingIsLeft`, and
  `DemoUsesQueue`: a behaviour of the program is one of the class, so that what is
  proved of the class holds of the program (`DemoRefinesBoundedQueue`).  The
  invariant: every frame that a producer has entered is handled, queued or in the hands of one
  consumer, and in one of them only; a consumer leaves only when the queue is closed and
  empty, and main closes it only when every producer has ended.
* `QueueDemo_proofs`, no deadlock: `DemoIsNeverStuck`, for a queue with room for at least
  one frame.  If every thread slept or had ended, a producer asleep on a full queue would
  have a consumer asleep beside it before the shutdown, and `NoLostWakeup` says that then
  the queue is full and empty at once; after the shutdown `ShutdownWakesAll` leaves no sleeper.
* `Robots_proofs`, the arms: `ArmsAgree`, `MotionStopsFirst`, `ObserversAreTold`, types.  The
  rows of the table and the chain of conditions lead to the same states
  (`RowsExist`, `TransitionAgrees`), and in each step of the machine motion is where
  exit, action and entry have left it.  `ObserversAreTold` counts: for each observer what it has
  been told and what is left of the list it is on make up its subscriptions.
* `Robots_proofs`, the console: types, `FollowersAreServed`, `ReadingsAreRight`.  The
  invariant says what a hint on the screen, or on its way there, means for the robot as
  long as the user follows: nothing but the user's next command leaves that state.
* `ChatServer_proofs`: types, `TableStaysOpen`, `NobodyIsMissed`.  The invariant: a
  handler owns its descriptor from accept to close, and an entry of the table lies
  within that time.  For `NobodyIsMissed` it adds, for any two registered clients,
  that one was told of the other, or one has not copied the table yet, or has the
  other's descriptor in its copy.
* `ShmRing_proofs`: types, `RingIsIntact`, `PrintsSuccessive`, `MutexExcludes`, for every
  capacity and any number of
  frames, starts and kills, as long as people wait for the programs (`Patient`).
  The invariant counts: each semaphore and what the processes have waited for and
  not yet used add up to at most the places it stands for (`TokensInv`).  They are
  inequalities, because a killed process takes its share with it.  `SetupInv` and
  `HandlesInv` say that whoever is past the set-up has the semaphores of this run;
  three lemmas about remainders make slots of positions.
* `ShmRing_proofs`, a run in which nobody is killed: `NobodyIsStuck`, `EndsComplete`.  Now
  the inequalities are equations (`CleanTokens`): a value of zero tells where the other
  process is, and it is not at a wait.
* `ShmRing_proofs`, the refinement: `RefinesStream`, with kills.  `Waiting` is the run of
  numbers from `taken` to `put - 1` (`WaitingIs`), because `RingHoldsUnread` gives the content of
  each place; so taking and putting a frame are `Tail` and `Append` of such runs
  (`SpanQueue`), and nothing else touches the ring but a writer that clears it.  That a
  printout has no gap is a guard of the abstract stream; `Successive` proves it.
* `ThreadPool_proofs`: types, `AllTasksRun`, `NoWakeupLost`, for both classes at once.  A task
  is in one place: not submitted, queued, taken or run (`AllTasksRun`); and the count of
  the queue never exceeds that of the workers awake and the notifications to come while
  somebody sleeps (`NoWakeupLost`), as for the bounded queue.  `NoSleeperIsJoined`: a worker
  that sleeps after the stop slept before it, and `notify_all` is still to come.
* `EventLoopChat_proofs`: types, `BatchStaysValid`, `NothingIsRepeated`, `RoomIsHeard`.
  `g_clients` and the kernel name the same connections when a handler returns, and only the
  handler of a descriptor closes it.  A message is new when it is printed: a client joins when it
  leaves the backlog, speaks while its line is unread, leaves when it leaves the table.  So
  what is coming to a recipient is the one message it has not heard (`DueInv`), and it
  comes after all it has.

Induction.  The library's induction theorems take an operator as a parameter, which the
provers here cannot instantiate.  Where a proof needs one (the sequence of observers, the
digits of a byte) it is stated for a set of naturals (`NatSetInduction`), which follows from
the library's theorem that every such set has a smallest element.

Only model-checked: every liveness property (fairness and ENABLED are beyond the
prover), `StayersHearLeave` and `NextStepIsShown` among them.  Three of them have a part
that is proved: that the states they must get out of have a step out of them
(`DemoIsNeverStuck` for `Termination`, `NoSleeperIsJoined` for `DestructorReturns`,
`NobodyIsStuck` and `EndsComplete` for `CleanRunCompletes`).  That the step is taken is
fairness, and stays with TLC.  Of the safety properties `LoadsTheModel` alone is not
proved: the writer and the parser of `OnnxModel` fold over nested sequences of bytes of any
length, and what a fold computes for every input needs induction over data.

## What is not modelled

Logging, message texts, latency figures (read by the task thread without a lock,
but only to be logged), DDS discovery and the middleware's threads.  A chat client that
never reads again, on which `send` would block.  A writer of the ring that is started
beside a running reader, whose teardown by name may hit the new run's objects
(`shm_ipc/src/reader.cpp:44`), and a reader that opens semaphores while the writer is
still in its set-up (`:22`): both are excluded by `Patient`.  Observers that call back into
the arm: the code has none.  Set-up calls that fail (`socket`, `bind`, `epoll_ctl`), a model
file that cannot be opened, and varints too long for the script.

The echo server has one thread for each connection and no shared state.  The inference
node is floating-point arithmetic behind one guard.  The music visualizer is signal
processing and decoding.  The state machine demos, URDF checks and the C++17 exercises
are straight-line programs that print what they check.

## Plan

Done: the runtime (state machine, node, lifecycle, watchdog), the queue and its
program, the chat servers (threads, pool, event loop), the pools, the ring, the
console, the arms, the CAN demo, the ONNX model; theorems for every safety and action
property of the runs but `LoadsTheModel`.  What is left needs other tools: `LoadsTheModel`
needs induction over sequences, the liveness properties a prover for fairness.
