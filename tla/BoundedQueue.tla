---------------------------- MODULE BoundedQueue ----------------------------
(***************************************************************************)
(* What a thread-safe bounded queue promises its callers, with no mutex    *)
(* and no condition variable: every call takes effect in one step between  *)
(* its start and its return, in first-in first-out order, and is refused   *)
(* only for the reasons the comments in blocking_queue.hpp give.           *)
(***************************************************************************)
EXTENDS Naturals, Sequences

CONSTANTS Threads, Items, Capacity

VARIABLES
  queue,   \* the items, oldest first
  closed,  \* shutdown() has been called
  call,    \* the blocking call each thread is in
  item,    \* what each thread pushes, or has popped
  ret      \* whether each thread's last finished call did its work

Refused == "refused"
Accepted == "accepted"

Init ==
  /\ queue = <<>>
  /\ closed = FALSE
  /\ call = [t \in Threads |-> "none"]
  /\ item \in [Threads -> Items]
  /\ ret = [t \in Threads |-> "none"]

Returns(t, value) ==
  /\ call' = [call EXCEPT ![t] = "none"]
  /\ ret' = [ret EXCEPT ![t] = value]

StartPush(t, x) ==
  /\ call[t] = "none"
  /\ call' = [call EXCEPT ![t] = "push"]
  /\ item' = [item EXCEPT ![t] = x]
  /\ UNCHANGED <<queue, closed, ret>>

StartPop(t) ==
  /\ call[t] = "none"
  /\ call' = [call EXCEPT ![t] = "pop"]
  /\ UNCHANGED <<queue, closed, item, ret>>

\* An item is accepted when there is room, and refused only after shutdown.
Accept(t) ==
  /\ call[t] = "push"
  /\ ~closed /\ Len(queue) < Capacity
  /\ queue' = Append(queue, item[t])
  /\ Returns(t, Accepted)
  /\ UNCHANGED <<closed, item>>

Reject(t) ==
  /\ call[t] = "push"
  /\ closed
  /\ Returns(t, Refused)
  /\ UNCHANGED <<queue, closed, item>>

\* The oldest item is taken, also after shutdown; a pop is refused only when
\* the queue is shut down and drained.
Take(t) ==
  /\ call[t] = "pop"
  /\ queue # <<>>
  /\ queue' = Tail(queue)
  /\ item' = [item EXCEPT ![t] = Head(queue)]
  /\ Returns(t, Accepted)
  /\ UNCHANGED closed

Drained(t) ==
  /\ call[t] = "pop"
  /\ closed /\ queue = <<>>
  /\ Returns(t, Refused)
  /\ UNCHANGED <<queue, closed, item>>

\* The non-blocking calls start and return in one step.
TryPush(t, x) ==
  /\ call[t] = "none"
  /\ IF closed \/ Len(queue) = Capacity
     THEN Returns(t, Refused) /\ UNCHANGED queue
     ELSE Returns(t, Accepted) /\ queue' = Append(queue, x)
  /\ UNCHANGED <<closed, item>>

TryPop(t) ==
  /\ call[t] = "none"
  /\ IF queue = <<>>
     THEN Returns(t, Refused) /\ UNCHANGED <<queue, item>>
     ELSE /\ Returns(t, Accepted)
          /\ queue' = Tail(queue)
          /\ item' = [item EXCEPT ![t] = Head(queue)]
  /\ UNCHANGED closed

Close ==
  /\ closed' = TRUE
  /\ UNCHANGED <<queue, call, item, ret>>

Next ==
  \/ Close
  \/ \E t \in Threads :
       \/ StartPop(t) \/ Take(t) \/ Drained(t) \/ TryPop(t)
       \/ Accept(t) \/ Reject(t)
       \/ \E x \in Items : StartPush(t, x) \/ TryPush(t, x)

Spec == Init /\ [][Next]_<<queue, closed, call, item, ret>>

=============================================================================
