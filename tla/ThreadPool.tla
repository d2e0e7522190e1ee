------------------------------ MODULE ThreadPool ------------------------------
(***************************************************************************)
(* The thread pools of tcp_chat_threadpool and of the exercise of 15 July, *)
(* and the queue of the exercise of 14 July, which is the same automaton   *)
(* with consumers for workers and shutdown for the destructor: an          *)
(* unbounded queue, one condition variable, a stop flag.  They differ in   *)
(* one guard: the exercises refuse what is submitted after stop.           *)
(*                                                                         *)
(* What is done under the mutex is one step; notifications come after it.  *)
(* Main submits its jobs, then destroys the pool; a task may submit one    *)
(* more.  No other thread may use a pool that is being destroyed.          *)
(***************************************************************************)
EXTENDS Integers, Sequences, FiniteSets

CONSTANTS
  Workers,  \* the worker threads
  Main,     \* the thread that owns the pool
  Jobs,     \* the number of tasks Main submits, numbered from 1
  Child,    \* the tasks that submit another, and which
  None      \* no task

ASSUME PoolAssumption ==
  /\ IsFiniteSet(Workers) /\ Workers # {} /\ Main \notin Workers
  /\ Jobs \in Nat
  /\ Child \in [DOMAIN Child -> Int]

\* A child is a task of its own, submitted once.
ASSUME ChildAssumption ==
  /\ \A t \in DOMAIN Child : Child[t] \notin 1 .. Jobs
  /\ \A t, u \in DOMAIN Child : Child[t] = Child[u] => t = u
  /\ None \notin (1 .. Jobs) \cup {Child[t] : t \in DOMAIN Child}

Tasks == (1 .. Jobs) \cup {Child[t] : t \in DOMAIN Child}

VARIABLES
  guarded,   \* whether submit looks at the stop flag: which class it is
  tasks,     \* tasks_
  stop,      \* stop_
  pc,        \* where each thread is
  task,      \* the task each worker has taken
  next,      \* i of main's loop
  accepted,  \* the tasks submit has queued
  rejected,  \* rejected_count_
  completed  \* how often each task has run

vars == <<guarded, tasks, stop, pc, task, next, accepted, rejected, completed>>

Threads == Workers \cup {Main}

WorkerPoints == {"lock", "cv", "run", "notify", "ran", "exit"}
MainPoints == {"submit", "notify", "stop", "notifyAll", "join", "done"}

Init ==
  /\ guarded \in BOOLEAN
  /\ tasks = <<>> /\ stop = FALSE
  /\ pc = [t \in Threads |-> IF t = Main THEN "submit" ELSE "lock"]
  /\ task = [w \in Workers |-> None]
  /\ next = 1
  /\ accepted = {} /\ rejected = 0
  /\ completed = [t \in Tasks |-> 0]

-----------------------------------------------------------------------------
(* submit.                                                                 *)

Goto(t, p) == pc' = [pc EXCEPT ![t] = p]

\* Under the mutex; then to the notification, or back to point p at once.
Submit(t, x, p) ==
  IF guarded /\ stop
  THEN rejected' = rejected + 1 /\ Goto(t, p) /\ UNCHANGED <<tasks, accepted>>
  ELSE /\ tasks' = Append(tasks, x)
       /\ accepted' = accepted \cup {x}
       /\ Goto(t, "notify")
       /\ UNCHANGED rejected

\* notify_one wakes one sleeping worker, if there is one.
NotifyOne(t, p) ==
  IF \A w \in Workers : pc[w] # "cv" THEN Goto(t, p)
  ELSE \E w \in Workers : pc[w] = "cv" /\ pc' = [pc EXCEPT ![t] = p, ![w] = "lock"]

-----------------------------------------------------------------------------
(* worker_loop.                                                            *)

\* Mutant: the worker leaves as soon as the pool is stopped.
WaitUndrained(w) ==
  /\ pc[w] = "lock"
  /\ tasks = <<>> \/ stop
  /\ Goto(w, IF stop THEN "exit" ELSE "cv")
  /\ UNCHANGED <<guarded, tasks, stop, task, next, accepted, rejected, completed>>

\* The predicate is false, and the worker sleeps; or it is stopped and has
\* nothing left to do.
Wait(w) ==
  /\ pc[w] = "lock"
  /\ tasks = <<>>
  /\ Goto(w, IF stop THEN "exit" ELSE "cv")
  /\ UNCHANGED <<guarded, tasks, stop, task, next, accepted, rejected, completed>>

Take(w) ==
  /\ pc[w] = "lock"
  /\ tasks # <<>>
  /\ task' = [task EXCEPT ![w] = Head(tasks)]
  /\ tasks' = Tail(tasks)
  /\ Goto(w, "run")
  /\ UNCHANGED <<guarded, stop, next, accepted, rejected, completed>>

\* The task runs without the mutex; one that has a child submits it.
SubmitChild(w) ==
  /\ pc[w] = "run" /\ task[w] \in DOMAIN Child
  /\ Submit(w, Child[task[w]], "ran")
  /\ UNCHANGED <<guarded, stop, task, next, completed>>

NotifyChild(w) ==
  /\ pc[w] = "notify"
  /\ NotifyOne(w, "ran")
  /\ UNCHANGED <<guarded, tasks, stop, task, next, accepted, rejected, completed>>

Finish(w) ==
  /\ \/ pc[w] = "ran"
     \/ pc[w] = "run" /\ task[w] \notin DOMAIN Child
  /\ completed' = [completed EXCEPT ![task[w]] = @ + 1]
  /\ task' = [task EXCEPT ![w] = None]
  /\ Goto(w, "lock")
  /\ UNCHANGED <<guarded, tasks, stop, next, accepted, rejected>>

SpuriousWakeup(w) ==
  /\ pc[w] = "cv"
  /\ Goto(w, "lock")
  /\ UNCHANGED <<guarded, tasks, stop, task, next, accepted, rejected, completed>>

-----------------------------------------------------------------------------
(* main and the destructor.                                                *)

SubmitJob ==
  /\ pc[Main] = "submit"
  /\ IF next > Jobs THEN Goto(Main, "stop") /\ UNCHANGED <<tasks, accepted, rejected, next>>
     ELSE Submit(Main, next, "submit") /\ next' = next + 1
  /\ UNCHANGED <<guarded, stop, task, completed>>

\* Mutant: submit notifies before it queues, and not after.
NotifyJobEarly ==
  /\ pc[Main] = "notify"
  /\ Goto(Main, "submit")
  /\ UNCHANGED <<guarded, tasks, stop, task, next, accepted, rejected, completed>>

NotifyJob ==
  /\ pc[Main] = "notify"
  /\ NotifyOne(Main, "submit")
  /\ UNCHANGED <<guarded, tasks, stop, task, next, accepted, rejected, completed>>

Stop ==
  /\ pc[Main] = "stop"
  /\ stop' = TRUE
  /\ Goto(Main, "notifyAll")
  /\ UNCHANGED <<guarded, tasks, task, next, accepted, rejected, completed>>

\* Mutant: notify_one for notify_all.
NotifyOneOnStop ==
  /\ pc[Main] = "notifyAll"
  /\ NotifyOne(Main, "join")
  /\ UNCHANGED <<guarded, tasks, stop, task, next, accepted, rejected, completed>>

NotifyAll ==
  /\ pc[Main] = "notifyAll"
  /\ pc' = [t \in Threads |-> IF t = Main THEN "join"
                              ELSE IF pc[t] = "cv" THEN "lock" ELSE pc[t]]
  /\ UNCHANGED <<guarded, tasks, stop, task, next, accepted, rejected, completed>>

Join ==
  /\ pc[Main] = "join"
  /\ \A w \in Workers : pc[w] = "exit"
  /\ Goto(Main, "done")
  /\ UNCHANGED <<guarded, tasks, stop, task, next, accepted, rejected, completed>>

-----------------------------------------------------------------------------
Worker(w) == Wait(w) \/ Take(w) \/ SubmitChild(w) \/ NotifyChild(w) \/ Finish(w)

MainStep == SubmitJob \/ NotifyJob \/ Stop \/ NotifyAll \/ Join

Next == MainStep \/ \E w \in Workers : Worker(w) \/ SpuriousWakeup(w)

Spec == Init /\ [][Next]_vars

\* The operating system runs every thread that can run; no wakeup is owed to
\* a sleeping one.
FairSpec == Spec /\ WF_vars(MainStep) /\ \A w \in Workers : WF_vars(Worker(w))

-----------------------------------------------------------------------------
On(p) == {w \in Workers : pc[w] = p}

TypeOK ==
  /\ guarded \in BOOLEAN /\ stop \in BOOLEAN
  /\ tasks \in Seq(Tasks)
  /\ pc \in [Threads -> WorkerPoints \cup MainPoints]
  /\ task \in [Workers -> Tasks \cup {None}]
  /\ next \in 1 .. Jobs + 1
  /\ accepted \subseteq Tasks /\ rejected \in Nat
  /\ completed \in [Tasks -> Nat]

(* No wakeup is lost between the unlock of submit and its notify_one:      *)
(* while a worker sleeps, every queued task has a worker of its own that   *)
(* will look at the queue, or a notification that is still to come.        *)
NoTaskUnattended ==
  On("cv") # {} /\ ~stop =>
    Len(tasks) <= Cardinality(On("lock")) + Cardinality({t \in Threads : pc[t] = "notify"})

(* When the destructor returns every task that was accepted has run, once, *)
(* also one that a task submitted when the pool was already stopped; none  *)
(* is run twice; and what main submits before the destructor is never      *)
(* refused: what the exercises' last line calls a pass.                    *)
NothingAbandoned ==
  /\ \A t \in Tasks : completed[t] <= 1
  /\ pc[Main] = "done" =>
       /\ 1 .. Jobs \subseteq accepted
       /\ \A t \in Tasks : completed[t] = (IF t \in accepted THEN 1 ELSE 0)

(* The destructor never joins a worker that sleeps: notify_all finds every *)
(* one that slept, and none falls asleep after it.                         *)
JoinsNoSleeper == pc[Main] = "join" => On("cv") = {}

(* The destructor returns: every sleeping worker is woken and comes to its *)
(* end, one that tests the predicate before the flag is set as well as one *)
(* that is about to sleep when it is.                                      *)
DestructorReturns == <>(pc[Main] = "done")

=============================================================================
