---------------------------- MODULE BlockingQueue ----------------------------
(***************************************************************************)
(* blocking_queue.hpp: a bounded queue behind one mutex and two condition  *)
(* variables, called by any threads in any order.  What happens under the  *)
(* mutex is one step, up to the wait: a thread that has to wait gives the  *)
(* mutex back and falls asleep in the same step.  A notified thread, or    *)
(* one that wakes spuriously, is back where a new caller is: it competes   *)
(* for the mutex and then tests the predicate again.                       *)
(***************************************************************************)
EXTENDS Naturals, Sequences, FiniteSets

CONSTANTS
  Threads,  \* the threads that hold a reference to the queue
  Items,    \* the values of T
  Capacity  \* capacity_

ASSUME ThreadsAssumption == IsFiniteSet(Threads)
ASSUME CapacityAssumption == Capacity \in Nat

VARIABLES
  queue,   \* q_
  closed,  \* closed_
  pc,      \* where each thread is
  item,    \* the argument of each thread's last push, or its pop's out
  ret      \* what the last call returned to each thread

queueVars == <<queue, closed, pc, item, ret>>

Refused == "refused"
Accepted == "accepted"

(* A thread is outside the class, about to take the mutex in push or pop,  *)
(* asleep on one of the condition variables, or in shutdown between the    *)
(* unlock and its two notify_all.                                          *)
Points == {"idle", "push", "pop", "not_full_", "not_empty_",
           "notifyFull", "notifyEmpty"}

On(p) == {t \in Threads : pc[t] = p}

QueueInit ==
  /\ queue = <<>>
  /\ closed = FALSE
  /\ pc = [t \in Threads |-> "idle"]
  /\ item \in [Threads -> Items]
  /\ ret = [t \in Threads |-> "none"]

-----------------------------------------------------------------------------
(* Condition variables.                                                    *)

\* notify_one by a thread that then returns: one sleeper, if there is one,
\* wakes and goes to point p.
NotifyOneAndReturn(t, cv, p) ==
  IF On(cv) = {} THEN pc' = [pc EXCEPT ![t] = "idle"]
  ELSE \E s \in On(cv) : pc' = [pc EXCEPT ![t] = "idle", ![s] = p]

\* notify_all by a thread that goes on to point n.
NotifyAll(t, cv, p, n) ==
  pc' = [s \in Threads |-> IF s = t THEN n ELSE IF pc[s] = cv THEN p ELSE pc[s]]

Goto(t, p) == pc' = [pc EXCEPT ![t] = p]

Returns(t, value) == ret' = [ret EXCEPT ![t] = value]

\* wait() may return without a notification.
SpuriousWakeup(t) ==
  /\ \/ pc[t] = "not_full_" /\ Goto(t, "push")
     \/ pc[t] = "not_empty_" /\ Goto(t, "pop")
  /\ UNCHANGED <<queue, closed, item, ret>>

-----------------------------------------------------------------------------
(* push and try_push.                                                      *)

\* Mutant: <= for <.
HasRoomForOneMore == Len(queue) <= Capacity

HasRoom == Len(queue) < Capacity

StartPush(t, x) ==
  /\ pc[t] = "idle"
  /\ Goto(t, "push")
  /\ item' = [item EXCEPT ![t] = x]
  /\ UNCHANGED <<queue, closed, ret>>

PushWaits(t) ==
  /\ pc[t] = "push"
  /\ ~closed /\ ~HasRoom
  /\ Goto(t, "not_full_")
  /\ UNCHANGED <<queue, closed, item, ret>>

PushRefused(t) ==
  /\ pc[t] = "push"
  /\ closed
  /\ Goto(t, "idle") /\ Returns(t, Refused)
  /\ UNCHANGED <<queue, closed, item>>

\* Mutant: notify only when the queue was empty.
EnqueueNotifiesFirst(t, x) ==
  /\ queue' = Append(queue, x)
  /\ IF queue = <<>> THEN NotifyOneAndReturn(t, "not_empty_", "pop") ELSE Goto(t, "idle")
  /\ Returns(t, Accepted)

Enqueue(t, x) ==
  /\ queue' = Append(queue, x)
  /\ NotifyOneAndReturn(t, "not_empty_", "pop")
  /\ Returns(t, Accepted)

PushProceeds(t) ==
  /\ pc[t] = "push"
  /\ ~closed /\ HasRoom
  /\ Enqueue(t, item[t])
  /\ UNCHANGED <<closed, item>>

TryPush(t, x) ==
  /\ pc[t] = "idle"
  /\ IF closed \/ ~HasRoom
     THEN Returns(t, Refused) /\ UNCHANGED <<queue, pc>>
     ELSE Enqueue(t, x)
  /\ UNCHANGED <<closed, item>>

-----------------------------------------------------------------------------
(* pop and try_pop.                                                        *)

StartPop(t) ==
  /\ pc[t] = "idle"
  /\ Goto(t, "pop")
  /\ UNCHANGED <<queue, closed, item, ret>>

PopWaits(t) ==
  /\ pc[t] = "pop"
  /\ ~closed /\ queue = <<>>
  /\ Goto(t, "not_empty_")
  /\ UNCHANGED <<queue, closed, item, ret>>

\* Mutant: a pop after shutdown is refused though items are left.
PopRefusedUndrained(t) ==
  /\ pc[t] = "pop"
  /\ closed
  /\ Goto(t, "idle") /\ Returns(t, Refused)
  /\ UNCHANGED <<queue, closed, item>>

PopRefused(t) ==
  /\ pc[t] = "pop"
  /\ closed /\ queue = <<>>
  /\ Goto(t, "idle") /\ Returns(t, Refused)
  /\ UNCHANGED <<queue, closed, item>>

\* Mutant: nobody is told of the place that is free now.
DequeueSilently(t) ==
  /\ queue' = Tail(queue)
  /\ Goto(t, "idle")
  /\ item' = [item EXCEPT ![t] = Head(queue)]
  /\ Returns(t, Accepted)

Dequeue(t) ==
  /\ queue' = Tail(queue)
  /\ NotifyOneAndReturn(t, "not_full_", "push")
  /\ item' = [item EXCEPT ![t] = Head(queue)]
  /\ Returns(t, Accepted)

PopProceeds(t) ==
  /\ pc[t] = "pop"
  /\ queue # <<>>
  /\ Dequeue(t)
  /\ UNCHANGED closed

TryPop(t) ==
  /\ pc[t] = "idle"
  /\ IF queue = <<>>
     THEN Returns(t, Refused) /\ UNCHANGED <<queue, pc, item>>
     ELSE Dequeue(t)
  /\ UNCHANGED closed

-----------------------------------------------------------------------------
(* shutdown: the flag under the mutex, both notifications after it.        *)

Shutdown(t) ==
  /\ pc[t] = "idle"
  /\ closed' = TRUE
  /\ Goto(t, "notifyFull")
  /\ UNCHANGED <<queue, item, ret>>

ShutdownNotifiesFull(t) ==
  /\ pc[t] = "notifyFull"
  /\ NotifyAll(t, "not_full_", "push", "notifyEmpty")
  /\ UNCHANGED <<queue, closed, item, ret>>

\* Mutant: notify_one for notify_all.
ShutdownNotifiesOne(t) ==
  /\ pc[t] = "notifyEmpty"
  /\ NotifyOneAndReturn(t, "not_empty_", "pop")
  /\ UNCHANGED <<queue, closed, item, ret>>

ShutdownNotifiesEmpty(t) ==
  /\ pc[t] = "notifyEmpty"
  /\ NotifyAll(t, "not_empty_", "pop", "idle")
  /\ UNCHANGED <<queue, closed, item, ret>>

-----------------------------------------------------------------------------
\* A thread goes on with the call it is in.
Proceed(t) ==
  \/ PushWaits(t) \/ PushRefused(t) \/ PushProceeds(t)
  \/ PopWaits(t) \/ PopRefused(t) \/ PopProceeds(t)
  \/ ShutdownNotifiesFull(t) \/ ShutdownNotifiesEmpty(t)

\* A thread that is in no call begins one.
Begin(t) ==
  \/ StartPop(t) \/ TryPop(t) \/ Shutdown(t)
  \/ \E x \in Items : StartPush(t, x) \/ TryPush(t, x)

Next == \E t \in Threads : Proceed(t) \/ Begin(t) \/ SpuriousWakeup(t)

Spec == QueueInit /\ [][Next]_queueVars

-----------------------------------------------------------------------------
(* Every variable has a value of its type and the queue keeps its bound,   *)
(* whichever threads are woken for one free place.                         *)
TypeOK ==
  /\ queue \in Seq(Items) /\ Len(queue) <= Capacity
  /\ closed \in BOOLEAN
  /\ pc \in [Threads -> Points]
  /\ item \in [Threads -> Items]
  /\ ret \in [Threads -> {"none", Accepted, Refused}]

(* No wakeup is lost: while a consumer sleeps, every queued item has a     *)
(* thread of its own awake in pop, and while a producer sleeps every free  *)
(* place has one awake in push.  notify_one for each item is enough though *)
(* newcomers may overtake the thread that was notified.                    *)
NoLostWakeup ==
  ~closed =>
    /\ On("not_empty_") # {} => Len(queue) <= Cardinality(On("pop"))
    /\ On("not_full_") # {} => Capacity - Len(queue) <= Cardinality(On("push"))

(* After shutdown nobody stays asleep: who sleeps will be notified by a    *)
(* shutdown that has still to do it, although closed_ is set before the    *)
(* notifications and outside their lock.                                   *)
ShutdownWakesAll ==
  closed =>
    /\ On("not_full_") # {} => On("notifyFull") # {}
    /\ On("not_empty_") # {} => On("notifyFull") \cup On("notifyEmpty") # {}

(* The class implements the queue its comments promise: each call takes    *)
(* effect at once, in order, and waiting, waking and notifying are         *)
(* invisible to callers.                                                   *)
CallOf(t) ==
  CASE pc[t] \in {"push", "not_full_"} -> "push"
    [] pc[t] \in {"pop", "not_empty_"} -> "pop"
    [] OTHER                           -> "none"

Abstract == INSTANCE BoundedQueue WITH call <- [t \in Threads |-> CallOf(t)]
ImplementsBoundedQueue == Abstract!Spec

=============================================================================
