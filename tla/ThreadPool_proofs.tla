--------------------------- MODULE ThreadPool_proofs ---------------------------
(***************************************************************************)
(* Theorems about ThreadPool for every number of workers and jobs, and any *)
(* way in which tasks submit others.  A task that was accepted is in one   *)
(* place at a time: in the queue, in the hands of one worker, or done; and *)
(* the last worker only leaves an empty queue.                             *)
(***************************************************************************)
EXTENDS ThreadPool, FiniteSetTheorems, TLAPS

InQueue(t) == \E i \in 1 .. Len(tasks) : tasks[i] = t
Held(t) == \E w \in Workers : task[w] = t

Busy == {"run", "notify", "ran"}

(* A worker has a task just while it is busy, and each thread is at points *)
(* of its own program.                                                     *)
PointsInv ==
  /\ pc[Main] \in MainPoints
  /\ \A w \in Workers : /\ pc[w] \in WorkerPoints
                        /\ task[w] \in Tasks <=> pc[w] \in Busy

(* Each task is in one place.                                              *)
PlaceInv ==
  /\ \A i, j \in 1 .. Len(tasks) : tasks[i] = tasks[j] => i = j
  /\ \A w, v \in Workers : task[w] = task[v] /\ task[w] # None => w = v
  /\ \A i \in 1 .. Len(tasks) : tasks[i] \in accepted /\ completed[tasks[i]] = 0
  /\ \A i \in 1 .. Len(tasks), w \in Workers : task[w] # tasks[i]
  /\ \A w \in Workers : task[w] # None => task[w] \in accepted /\ completed[task[w]] = 0

(* No task is lost, and none is run that was not accepted.                 *)
KeptInv ==
  \A t \in Tasks :
    /\ completed[t] \in {0, 1}
    /\ completed[t] = 1 => t \in accepted
    /\ t \in accepted => completed[t] = 1 \/ InQueue(t) \/ Held(t)

(* Main has submitted the jobs before the next one, and a child is         *)
(* submitted by its parent.                                                *)
SubmitInv ==
  /\ \A t \in 1 .. Jobs : t \in accepted <=> t < next
  /\ pc[Main] \in {"stop", "notifyAll", "join", "done"} => next = Jobs + 1
  /\ \A t \in DOMAIN Child : Child[t] \in accepted =>
       \/ t \in Tasks /\ completed[t] = 1
       \/ \E w \in Workers : task[w] = t /\ pc[w] \in {"notify", "ran"}

(* Workers leave only when the pool is stopped, and the last of them       *)
(* leaves an empty queue.                                                  *)
ExitInv ==
  /\ stop <=> pc[Main] \in {"notifyAll", "join", "done"}
  /\ \A w \in Workers : pc[w] = "exit" => stop
  /\ (\A w \in Workers : pc[w] = "exit") => tasks = <<>>
  /\ pc[Main] = "done" => \A w \in Workers : pc[w] = "exit"

Inv == TypeOK /\ PointsInv /\ PlaceInv /\ KeptInv /\ SubmitInv /\ ExitInv
-----------------------------------------------------------------------------

LEMMA Tokens ==
  /\ Main \in Threads /\ Main \notin Workers
  /\ \A w \in Workers : w \in Threads /\ w # Main
  /\ None \notin Tasks
  BY PoolAssumption, ChildAssumption DEF Threads, Tasks

LEMMA InitInv == Init => Inv
<1> SUFFICES ASSUME Init PROVE Inv
  OBVIOUS
<1> USE PoolAssumption, Tokens DEF Init
<1>1. TypeOK
  <2>1. pc \in [Threads -> WorkerPoints \cup MainPoints]
    BY DEF WorkerPoints, MainPoints
  <2>2. /\ tasks \in Seq(Tasks) /\ next \in 1 .. Jobs + 1
        /\ completed \in [Tasks -> Nat] /\ task \in [Workers -> Tasks \cup {None}]
    OBVIOUS
  <2> QED
    BY <2>1, <2>2 DEF TypeOK
<1>2. PointsInv
  BY DEF PointsInv, WorkerPoints, MainPoints, Busy, Threads
<1>3. PlaceInv
  BY DEF PlaceInv
<1>4. KeptInv
  BY DEF KeptInv
<1>5. SubmitInv
  BY DEF SubmitInv, Threads
<1>6. ExitInv
  BY DEF ExitInv, Threads
<1> QED
  BY <1>1, <1>2, <1>3, <1>4, <1>5, <1>6 DEF Inv

(* A step that only moves threads.                                         *)
LEMMA Moved ==
  ASSUME Inv, UNCHANGED <<guarded, tasks, task, next, accepted, completed>>,
         rejected' \in Nat, stop' \in BOOLEAN,
         pc' \in [Threads -> WorkerPoints \cup MainPoints],
         PointsInv', ExitInv',
         pc'[Main] \in {"stop", "notifyAll", "join", "done"} => next = Jobs + 1,
         \A w \in Workers : pc[w] \in {"notify", "ran"} => pc'[w] \in {"notify", "ran"}
  PROVE  Inv'
<1>1. TypeOK' /\ PlaceInv' /\ KeptInv'
  BY DEF Inv, TypeOK, PlaceInv, KeptInv, InQueue, Held
<1>2. SubmitInv'
  BY DEF Inv, SubmitInv
<1> QED
  BY <1>1, <1>2 DEF Inv

(* A task that was not accepted goes to the end of the queue.              *)
LEMMA Queued ==
  ASSUME TypeOK, PlaceInv, KeptInv, NEW x \in Tasks, x \notin accepted,
         tasks' = Append(tasks, x), accepted' = accepted \cup {x},
         UNCHANGED <<task, completed>>
  PROVE  /\ tasks' \in Seq(Tasks) /\ tasks' # <<>> /\ accepted' \subseteq Tasks
         /\ PlaceInv' /\ KeptInv'
<1>1. /\ tasks \in Seq(Tasks) /\ Len(tasks) \in Nat
      /\ Len(tasks') = Len(tasks) + 1
      /\ \A i \in 1 .. Len(tasks) : tasks'[i] = tasks[i]
      /\ tasks'[Len(tasks) + 1] = x
  BY DEF TypeOK
<1>2. tasks' \in Seq(Tasks) /\ tasks' # <<>> /\ accepted' \subseteq Tasks
  BY <1>1 DEF TypeOK
<1>3. completed[x] = 0 /\ \A w \in Workers : task[w] # x
  BY Tokens DEF KeptInv, PlaceInv, TypeOK
<1>4. \A i \in 1 .. Len(tasks) : tasks[i] # x
  BY DEF PlaceInv
<1>5. \A i \in 1 .. Len(tasks') : i \in 1 .. Len(tasks) \/ i = Len(tasks) + 1
  BY <1>1
<1>6. PlaceInv'
  BY <1>1, <1>3, <1>4, <1>5 DEF PlaceInv
<1>7. \A t \in Tasks : InQueue(t) => InQueue(t)'
  BY <1>1 DEF InQueue
<1>8. InQueue(x)'
  BY <1>1 DEF InQueue
<1>9. KeptInv'
  BY <1>7, <1>8 DEF KeptInv, Held
<1> QED
  BY <1>2, <1>6, <1>9

(* What a notification does: one sleeping worker at most is woken.         *)
LEMMA Notified ==
  ASSUME TypeOK, PointsInv, NEW t \in Threads, NEW p \in WorkerPoints \cup MainPoints,
         pc[t] # "cv", NotifyOne(t, p)
  PROVE  /\ pc' \in [Threads -> WorkerPoints \cup MainPoints]
         /\ pc'[t] = p
         /\ \A u \in Threads \ {t} : pc'[u] = pc[u] \/ (u \in Workers /\ pc[u] = "cv" /\ pc'[u] = "lock")
<1>0. pc \in [Threads -> WorkerPoints \cup MainPoints]
  BY DEF TypeOK
<1>1. CASE \A w \in Workers : pc[w] # "cv"
  <2>1. pc' = [pc EXCEPT ![t] = p]
    BY <1>1 DEF NotifyOne, Goto
  <2> QED
    BY <1>0, <2>1
<1>2. ASSUME NEW w \in Workers, pc[w] = "cv", pc' = [pc EXCEPT ![t] = p, ![w] = "lock"]
      PROVE  /\ pc' \in [Threads -> WorkerPoints \cup MainPoints]
             /\ pc'[t] = p
             /\ \A u \in Threads \ {t} :
                  pc'[u] = pc[u] \/ (u \in Workers /\ pc[u] = "cv" /\ pc'[u] = "lock")
  <2>1. w # t /\ w \in Threads /\ "lock" \in WorkerPoints
    BY <1>2, Tokens DEF WorkerPoints
  <2> QED
    BY <1>0, <1>2, <2>1
<1>3. (\A w \in Workers : pc[w] # "cv") \/
      \E w \in Workers : pc[w] = "cv" /\ pc' = [pc EXCEPT ![t] = p, ![w] = "lock"]
  BY DEF NotifyOne
<1> QED
  BY <1>1, <1>2, <1>3

-----------------------------------------------------------------------------

LEMMA WaitInv == ASSUME Inv, NEW w \in Workers, Wait(w) PROVE Inv'
<1> USE Tokens
<1>1. TypeOK /\ PointsInv /\ ExitInv
  BY DEF Inv
<1>2. /\ pc[w] = "lock" /\ tasks = <<>>
      /\ pc' = [pc EXCEPT ![w] = IF stop THEN "exit" ELSE "cv"]
      /\ UNCHANGED <<guarded, tasks, stop, task, next, accepted, rejected, completed>>
  BY DEF Wait, Goto
<1>3. /\ pc' \in [Threads -> WorkerPoints \cup MainPoints]
      /\ pc'[w] = IF stop THEN "exit" ELSE "cv"
      /\ \A u \in Threads \ {w} : pc'[u] = pc[u]
  BY <1>1, <1>2 DEF TypeOK, WorkerPoints
<1>4. PointsInv'
  BY <1>1, <1>2, <1>3 DEF PointsInv, Busy, WorkerPoints
<1>5. ExitInv'
  BY <1>1, <1>2, <1>3 DEF ExitInv
<1>6. pc'[Main] = pc[Main] /\ \A v \in Workers : pc[v] \in {"notify", "ran"} => pc'[v] = pc[v]
  BY <1>2, <1>3
<1>7. pc'[Main] \in {"stop", "notifyAll", "join", "done"} => next = Jobs + 1
  BY <1>6 DEF Inv, SubmitInv
<1> QED
  BY <1>1, <1>2, <1>3, <1>4, <1>5, <1>6, <1>7, Moved DEF TypeOK

LEMMA NotifyInv ==
  ASSUME Inv, NEW t \in Threads,
         \/ t \in Workers /\ NotifyChild(t)
         \/ t = Main /\ NotifyJob
  PROVE  Inv'
<1> USE Tokens
<1> DEFINE p == IF t = Main THEN "submit" ELSE "ran"
<1>1. TypeOK /\ PointsInv /\ ExitInv
  BY DEF Inv
<1>2. /\ pc[t] = "notify" /\ NotifyOne(t, p)
      /\ UNCHANGED <<guarded, tasks, stop, task, next, accepted, rejected, completed>>
  BY DEF NotifyChild, NotifyJob
<1>3. p \in WorkerPoints \cup MainPoints
  BY DEF WorkerPoints, MainPoints
<1> HIDE DEF p
<1>4. /\ pc' \in [Threads -> WorkerPoints \cup MainPoints]
      /\ pc'[t] = p
      /\ \A u \in Threads \ {t} :
           pc'[u] = pc[u] \/ (u \in Workers /\ pc[u] = "cv" /\ pc'[u] = "lock")
  BY <1>1, <1>2, <1>3, Notified
<1>5. /\ t # Main => p = "ran"
      /\ t = Main => p = "submit"
      /\ t \in Workers \/ t = Main
  BY DEF p, Threads
<1>6. PointsInv'
  BY <1>1, <1>2, <1>4, <1>5 DEF PointsInv, Busy, WorkerPoints, MainPoints
<1>7. /\ pc'[Main] \in {"stop", "notifyAll", "join", "done"} => pc'[Main] = pc[Main]
      /\ pc[Main] \in {"notifyAll", "join", "done"} => pc'[Main] = pc[Main]
      /\ \A w \in Workers : pc'[w] = "exit" <=> pc[w] = "exit"
      /\ \A w \in Workers : pc[w] \in {"notify", "ran"} => pc'[w] \in {"notify", "ran"}
  BY <1>2, <1>4, <1>5
<1>8. ExitInv'
  BY <1>1, <1>2, <1>7 DEF ExitInv
<1>9. pc'[Main] \in {"stop", "notifyAll", "join", "done"} => next = Jobs + 1
  BY <1>7 DEF Inv, SubmitInv
<1> QED
  BY <1>1, <1>2, <1>4, <1>6, <1>7, <1>8, <1>9, Moved DEF TypeOK

LEMMA WakeInv == ASSUME Inv, NEW w \in Workers, SpuriousWakeup(w) PROVE Inv'
<1> USE Tokens
<1>1. TypeOK /\ PointsInv /\ ExitInv
  BY DEF Inv
<1>2. /\ pc[w] = "cv"
      /\ pc' = [pc EXCEPT ![w] = "lock"]
      /\ UNCHANGED <<guarded, tasks, stop, task, next, accepted, rejected, completed>>
  BY DEF SpuriousWakeup, Goto
<1>3. /\ pc' \in [Threads -> WorkerPoints \cup MainPoints]
      /\ pc'[w] = "lock"
      /\ \A u \in Threads \ {w} : pc'[u] = pc[u]
  BY <1>1, <1>2 DEF TypeOK, WorkerPoints
<1>4. PointsInv'
  BY <1>1, <1>2, <1>3 DEF PointsInv, Busy, WorkerPoints
<1>5. ExitInv'
  BY <1>1, <1>2, <1>3 DEF ExitInv
<1>6. pc'[Main] = pc[Main] /\ \A v \in Workers : pc[v] \in {"notify", "ran"} => pc'[v] = pc[v]
  BY <1>2, <1>3
<1>7. pc'[Main] \in {"stop", "notifyAll", "join", "done"} => next = Jobs + 1
  BY <1>6 DEF Inv, SubmitInv
<1> QED
  BY <1>1, <1>2, <1>3, <1>4, <1>5, <1>6, <1>7, Moved DEF TypeOK

LEMMA MainInv == ASSUME Inv, Stop \/ NotifyAll \/ Join PROVE Inv'
<1> USE Tokens
<1>1. TypeOK /\ PointsInv /\ ExitInv
  BY DEF Inv
<1>2. pc[Main] \in {"stop", "notifyAll", "join"}
  BY DEF Stop, NotifyAll, Join
<1>3. next = Jobs + 1
  BY <1>2 DEF Inv, SubmitInv
<1>4. UNCHANGED <<guarded, tasks, task, next, accepted, rejected, completed>>
  BY DEF Stop, NotifyAll, Join
<1>5. /\ pc' \in [Threads -> WorkerPoints \cup MainPoints]
      /\ pc[Main] = "stop" => pc'[Main] = "notifyAll"
      /\ pc[Main] = "notifyAll" => pc'[Main] = "join"
      /\ pc[Main] = "join" => pc'[Main] = "done"
      /\ \A w \in Workers : pc'[w] = pc[w] \/ (pc[w] = "cv" /\ pc'[w] = "lock")
  <2>0. /\ pc \in [Threads -> WorkerPoints \cup MainPoints]
        /\ "notifyAll" \in MainPoints /\ "join" \in MainPoints /\ "done" \in MainPoints
        /\ "lock" \in WorkerPoints
    BY <1>1 DEF TypeOK, MainPoints, WorkerPoints
  <2>1. CASE Stop
    <3>1. pc[Main] = "stop" /\ pc' = [pc EXCEPT ![Main] = "notifyAll"]
      BY <2>1 DEF Stop, Goto
    <3> QED
      BY <2>0, <3>1
  <2>2. CASE NotifyAll
    <3>1. /\ pc[Main] = "notifyAll"
          /\ pc' = [t \in Threads |-> IF t = Main THEN "join"
                                     ELSE IF pc[t] = "cv" THEN "lock" ELSE pc[t]]
      BY <2>2 DEF NotifyAll
    <3>2. /\ pc'[Main] = "join"
          /\ \A w \in Workers : pc'[w] = IF pc[w] = "cv" THEN "lock" ELSE pc[w]
      BY <3>1
    <3>3. pc' \in [Threads -> WorkerPoints \cup MainPoints]
      BY <2>0, <3>1
    <3> QED
      BY <3>1, <3>2, <3>3
  <2>3. CASE Join
    <3>1. pc[Main] = "join" /\ pc' = [pc EXCEPT ![Main] = "done"]
      BY <2>3 DEF Join, Goto
    <3> QED
      BY <2>0, <3>1
  <2> QED
    BY <2>1, <2>2, <2>3
<1>6. PointsInv'
  BY <1>1, <1>2, <1>4, <1>5 DEF PointsInv, Busy, WorkerPoints, MainPoints
<1>7. stop' = TRUE /\ pc'[Main] \in {"notifyAll", "join", "done"}
  BY <1>1, <1>2, <1>5 DEF Stop, NotifyAll, Join, ExitInv
<1>8. \A w \in Workers : pc'[w] = "exit" <=> pc[w] = "exit"
  BY <1>5
<1>9. pc'[Main] = "done" => \A w \in Workers : pc[w] = "exit"
  BY <1>2, <1>5 DEF Stop, NotifyAll, Join
<1>10. ExitInv'
  BY <1>1, <1>4, <1>7, <1>8, <1>9 DEF ExitInv
<1>11. \A w \in Workers : pc[w] \in {"notify", "ran"} => pc'[w] \in {"notify", "ran"}
  BY <1>5
<1> QED
  BY <1>1, <1>3, <1>4, <1>5, <1>6, <1>7, <1>10, <1>11, Moved DEF TypeOK

LEMMA SubmitChildInv == ASSUME Inv, NEW w \in Workers, SubmitChild(w) PROVE Inv'
<1> USE Tokens
<1>1. TypeOK /\ PointsInv /\ PlaceInv /\ KeptInv /\ SubmitInv /\ ExitInv
  BY DEF Inv
<1> DEFINE t == task[w]
           x == Child[t]
<1>2. /\ pc[w] = "run" /\ t \in DOMAIN Child /\ Submit(w, x, "ran")
      /\ UNCHANGED <<guarded, stop, task, next, completed>>
  BY DEF SubmitChild
<1>3. t \in Tasks /\ t # None /\ completed[t] = 0
  BY <1>1, <1>2 DEF PointsInv, PlaceInv, Busy
<1>4. CASE guarded /\ stop
  <2>1. /\ rejected' = rejected + 1 /\ pc' = [pc EXCEPT ![w] = "ran"]
        /\ UNCHANGED <<tasks, accepted>>
    BY <1>2, <1>4 DEF Submit, Goto
  <2>2. /\ pc' \in [Threads -> WorkerPoints \cup MainPoints]
        /\ pc'[w] = "ran"
        /\ \A u \in Threads \ {w} : pc'[u] = pc[u]
    BY <1>1, <2>1 DEF TypeOK, WorkerPoints
  <2>3. PointsInv'
    BY <1>1, <1>2, <2>2 DEF PointsInv, Busy, WorkerPoints
  <2>4. ExitInv'
    BY <1>1, <1>2, <2>1, <2>2 DEF ExitInv
  <2>5. pc'[Main] = pc[Main] /\ \A v \in Workers : pc[v] \in {"notify", "ran"} => pc'[v] = pc[v]
    BY <1>2, <2>2
  <2>6. pc'[Main] \in {"stop", "notifyAll", "join", "done"} => next = Jobs + 1
    BY <1>1, <2>5 DEF SubmitInv
  <2> QED
    BY <1>1, <1>2, <2>1, <2>2, <2>3, <2>4, <2>5, <2>6, Moved DEF TypeOK
<1>5. CASE ~(guarded /\ stop)
  <2>1. /\ tasks' = Append(tasks, x) /\ accepted' = accepted \cup {x}
        /\ pc' = [pc EXCEPT ![w] = "notify"] /\ rejected' = rejected
    BY <1>2, <1>5 DEF Submit, Goto
  <2>2. x \in Tasks /\ x \notin 1 .. Jobs
    BY <1>2, ChildAssumption DEF Tasks
  <2>3. x \notin accepted
    <3> SUFFICES ASSUME x \in accepted PROVE FALSE
      OBVIOUS
    <3>1. PICK v \in Workers : task[v] = t /\ pc[v] \in {"notify", "ran"}
      BY <1>1, <1>2, <1>3 DEF SubmitInv
    <3>2. v = w
      BY <1>1, <1>3, <3>1 DEF PlaceInv
    <3> QED
      BY <1>2, <3>1, <3>2
  <2>4. /\ pc' \in [Threads -> WorkerPoints \cup MainPoints]
        /\ pc'[w] = "notify"
        /\ \A u \in Threads \ {w} : pc'[u] = pc[u]
    BY <1>1, <2>1 DEF TypeOK, WorkerPoints
  <2> HIDE DEF x
  <2>5. /\ tasks' \in Seq(Tasks) /\ tasks' # <<>> /\ accepted' \subseteq Tasks
        /\ PlaceInv' /\ KeptInv'
    BY <1>1, <1>2, <2>1, <2>2, <2>3, Queued
  <2>6. TypeOK'
    BY <1>1, <1>2, <2>1, <2>4, <2>5 DEF TypeOK
  <2>7. PointsInv'
    BY <1>1, <1>2, <2>4 DEF PointsInv, Busy, WorkerPoints
  <2>8. SubmitInv'
    <3>1. \A u \in 1 .. Jobs : u \in accepted' <=> u < next'
      BY <1>1, <1>2, <2>1, <2>2 DEF SubmitInv
    <3>2. pc'[Main] \in {"stop", "notifyAll", "join", "done"} => next' = Jobs + 1
      BY <1>1, <1>2, <2>4 DEF SubmitInv
    <3>3. ASSUME NEW u \in DOMAIN Child, Child[u] \in accepted'
          PROVE  \/ u \in Tasks /\ completed'[u] = 1
                 \/ \E v \in Workers : task'[v] = u /\ pc'[v] \in {"notify", "ran"}
      <4>1. CASE u = t
        BY <1>2, <2>4, <4>1
      <4>2. CASE u # t
        <5>1. Child[u] \in accepted
          BY <1>2, <2>1, <3>3, <4>2, ChildAssumption DEF x
        <5>2. CASE u \in Tasks /\ completed[u] = 1
          BY <1>2, <5>2
        <5>3. ASSUME NEW v \in Workers, task[v] = u, pc[v] \in {"notify", "ran"}
              PROVE  \E z \in Workers : task'[z] = u /\ pc'[z] \in {"notify", "ran"}
          BY <1>2, <2>4, <5>3
        <5> QED
          BY <1>1, <5>1, <5>2, <5>3 DEF SubmitInv
      <4> QED
        BY <4>1, <4>2
    <3> QED
      BY <3>1, <3>2, <3>3 DEF SubmitInv
  <2>9. ExitInv'
    BY <1>1, <1>2, <2>4 DEF ExitInv
  <2> QED
    BY <2>5, <2>6, <2>7, <2>8, <2>9 DEF Inv
<1> QED
  BY <1>4, <1>5

LEMMA TakeInv == ASSUME Inv, NEW w \in Workers, Take(w) PROVE Inv'
<1> USE Tokens
<1>1. TypeOK /\ PointsInv /\ PlaceInv /\ KeptInv /\ SubmitInv /\ ExitInv
  BY DEF Inv
<1> DEFINE x == Head(tasks)
<1>2. /\ pc[w] = "lock" /\ tasks # <<>>
      /\ task' = [task EXCEPT ![w] = x] /\ tasks' = Tail(tasks)
      /\ pc' = [pc EXCEPT ![w] = "run"]
      /\ UNCHANGED <<guarded, stop, next, accepted, rejected, completed>>
  BY DEF Take, Goto
<1>3. /\ tasks \in Seq(Tasks) /\ Len(tasks) \in Nat /\ Len(tasks) > 0
      /\ x = tasks[1] /\ x \in Tasks /\ 1 \in 1 .. Len(tasks)
      /\ tasks' \in Seq(Tasks)
      /\ Len(tasks') = Len(tasks) - 1
      /\ \A i \in 1 .. Len(tasks') : tasks'[i] = tasks[i + 1]
  BY <1>1, <1>2 DEF TypeOK
<1>4. /\ task \in [Workers -> Tasks \cup {None}]
      /\ task'[w] = x
      /\ \A v \in Workers \ {w} : task'[v] = task[v]
  BY <1>1, <1>2 DEF TypeOK
<1>5. /\ pc' \in [Threads -> WorkerPoints \cup MainPoints]
      /\ pc'[w] = "run"
      /\ \A u \in Threads \ {w} : pc'[u] = pc[u]
  BY <1>1, <1>2 DEF TypeOK, WorkerPoints
<1>6. task[w] = None
  BY <1>1, <1>2, <1>4 DEF PointsInv, Busy
<1>7. TypeOK'
  <2>1. task' \in [Workers -> Tasks \cup {None}]
    BY <1>2, <1>3, <1>4
  <2> QED
    BY <1>1, <1>2, <1>3, <1>5, <2>1 DEF TypeOK
<1> HIDE DEF x
<1>8. PointsInv'
  BY <1>1, <1>2, <1>3, <1>4, <1>5 DEF PointsInv, Busy, WorkerPoints
<1>9. PlaceInv'
  <2>1. \A i \in 1 .. Len(tasks') : i + 1 \in 1 .. Len(tasks) /\ i + 1 # 1
    BY <1>3
  <2>2. \A i \in 1 .. Len(tasks') :
           tasks'[i] # x /\ tasks'[i] \in accepted /\ completed[tasks'[i]] = 0
    <3> SUFFICES ASSUME NEW i \in 1 .. Len(tasks')
                 PROVE  /\ tasks[i + 1] # tasks[1]
                        /\ tasks[i + 1] \in accepted /\ completed[tasks[i + 1]] = 0
      BY <1>3
    <3>1. i + 1 \in 1 .. Len(tasks) /\ i + 1 # 1 /\ 1 \in 1 .. Len(tasks)
      BY <1>3, <2>1
    <3> QED
      BY <1>1, <3>1 DEF PlaceInv
  <2>3. x \in accepted /\ completed[x] = 0 /\ \A v \in Workers : task[v] # x
    BY <1>1, <1>3 DEF PlaceInv
  <2>4. \A i, j \in 1 .. Len(tasks') : tasks'[i] = tasks'[j] => i = j
    <3> SUFFICES ASSUME NEW i \in 1 .. Len(tasks'), NEW j \in 1 .. Len(tasks'),
                        tasks'[i] = tasks'[j]
                 PROVE  i = j
      OBVIOUS
    <3>1. tasks[i + 1] = tasks[j + 1]
      BY <1>3
    <3>2. i + 1 = j + 1
      BY <1>1, <2>1, <3>1 DEF PlaceInv
    <3> QED
      BY <1>3, <3>2
  <2>5. \A i \in 1 .. Len(tasks'), v \in Workers : task'[v] # tasks'[i]
    BY <1>1, <1>3, <1>4, <2>1, <2>2 DEF PlaceInv
  <2>6. \A u, v \in Workers : task'[u] = task'[v] /\ task'[u] # None => u = v
    BY <1>1, <1>4, <2>3 DEF PlaceInv
  <2>7. \A v \in Workers : task'[v] # None => task'[v] \in accepted /\ completed[task'[v]] = 0
    BY <1>1, <1>4, <2>3 DEF PlaceInv
  <2> QED
    BY <1>2, <2>2, <2>4, <2>5, <2>6, <2>7 DEF PlaceInv
<1>10. KeptInv'
  <2>1. ASSUME NEW t \in Tasks, InQueue(t)
        PROVE  InQueue(t)' \/ Held(t)'
    <3>1. PICK i \in 1 .. Len(tasks) : tasks[i] = t
      BY <2>1 DEF InQueue
    <3>2. CASE i = 1
      BY <1>3, <1>4, <3>1, <3>2 DEF Held
    <3>3. CASE i # 1
      <4>1. i - 1 \in 1 .. Len(tasks') /\ (i - 1) + 1 = i
        BY <1>3, <3>3
      <4>2. tasks'[i - 1] = t
        BY <1>3, <3>1, <4>1
      <4> QED
        BY <4>1, <4>2 DEF InQueue
    <3> QED
      BY <3>2, <3>3
  <2>2. ASSUME NEW t \in Tasks, Held(t) PROVE Held(t)'
    BY <1>4, <1>6, <2>2 DEF Held
  <2> QED
    BY <1>1, <1>2, <2>1, <2>2 DEF KeptInv
<1>11. SubmitInv'
  <2>1. \A t \in 1 .. Jobs : t \in accepted' <=> t < next'
    BY <1>1, <1>2 DEF SubmitInv
  <2>2. pc'[Main] \in {"stop", "notifyAll", "join", "done"} => next' = Jobs + 1
    BY <1>1, <1>2, <1>5 DEF SubmitInv
  <2>3. ASSUME NEW t \in DOMAIN Child, Child[t] \in accepted'
        PROVE  \/ t \in Tasks /\ completed'[t] = 1
               \/ \E v \in Workers : task'[v] = t /\ pc'[v] \in {"notify", "ran"}
    <3>1. CASE t \in Tasks /\ completed[t] = 1
      BY <1>2, <3>1
    <3>2. ASSUME NEW v \in Workers, task[v] = t, pc[v] \in {"notify", "ran"}
          PROVE  \E z \in Workers : task'[z] = t /\ pc'[z] \in {"notify", "ran"}
      BY <1>2, <1>4, <1>5, <3>2
    <3> QED
      BY <1>1, <1>2, <2>3, <3>1, <3>2 DEF SubmitInv
  <2> QED
    BY <2>1, <2>2, <2>3 DEF SubmitInv
<1>12. ExitInv'
  BY <1>1, <1>2, <1>5 DEF ExitInv
<1> QED
  BY <1>7, <1>8, <1>9, <1>10, <1>11, <1>12 DEF Inv

LEMMA FinishInv == ASSUME Inv, NEW w \in Workers, Finish(w) PROVE Inv'
<1> USE Tokens
<1>1. TypeOK /\ PointsInv /\ PlaceInv /\ KeptInv /\ SubmitInv /\ ExitInv
  BY DEF Inv
<1> DEFINE x == task[w]
<1>2. /\ pc[w] = "ran" \/ (pc[w] = "run" /\ x \notin DOMAIN Child)
      /\ completed' = [completed EXCEPT ![x] = completed[x] + 1]
      /\ task' = [task EXCEPT ![w] = None]
      /\ pc' = [pc EXCEPT ![w] = "lock"]
      /\ UNCHANGED <<guarded, tasks, stop, next, accepted, rejected>>
  BY DEF Finish, Goto
<1>3. x \in Tasks /\ x # None /\ completed[x] = 0 /\ x \in accepted
  BY <1>1, <1>2 DEF PointsInv, PlaceInv, Busy
<1>4. /\ task \in [Workers -> Tasks \cup {None}] /\ task' \in [Workers -> Tasks \cup {None}]
      /\ task'[w] = None
      /\ \A v \in Workers \ {w} : task'[v] = task[v]
      /\ completed' \in [Tasks -> Nat]
      /\ completed'[x] = 1
      /\ \A t \in Tasks \ {x} : completed'[t] = completed[t]
  BY <1>1, <1>2, <1>3 DEF TypeOK
<1>5. /\ pc' \in [Threads -> WorkerPoints \cup MainPoints]
      /\ pc'[w] = "lock"
      /\ \A u \in Threads \ {w} : pc'[u] = pc[u]
  BY <1>1, <1>2 DEF TypeOK, WorkerPoints
<1> HIDE DEF x
<1>6. TypeOK'
  BY <1>1, <1>2, <1>4, <1>5 DEF TypeOK
<1>7. PointsInv'
  BY <1>1, <1>2, <1>4, <1>5 DEF PointsInv, Busy, WorkerPoints
<1>8. \A v \in Workers \ {w} : task[v] # x
  BY <1>1, <1>3 DEF PlaceInv, x
<1>9. \A i \in 1 .. Len(tasks) : tasks[i] # x /\ tasks[i] \in Tasks
  BY <1>1 DEF PlaceInv, TypeOK, x
<1>10. PlaceInv'
  BY <1>1, <1>2, <1>4, <1>8, <1>9 DEF PlaceInv
<1>11. KeptInv'
  <2>1. ASSUME NEW t \in Tasks, Held(t), t # x PROVE Held(t)'
    BY <1>4, <2>1 DEF Held, x
  <2>2. \A t \in Tasks : InQueue(t)' <=> InQueue(t)
    BY <1>2 DEF InQueue
  <2> QED
    BY <1>1, <1>2, <1>3, <1>4, <2>1, <2>2 DEF KeptInv
<1>12. SubmitInv'
  <2>1. \A t \in 1 .. Jobs : t \in accepted' <=> t < next'
    BY <1>1, <1>2 DEF SubmitInv
  <2>2. pc'[Main] \in {"stop", "notifyAll", "join", "done"} => next' = Jobs + 1
    BY <1>1, <1>2, <1>5 DEF SubmitInv
  <2>3. ASSUME NEW t \in DOMAIN Child, Child[t] \in accepted'
        PROVE  \/ t \in Tasks /\ completed'[t] = 1
               \/ \E v \in Workers : task'[v] = t /\ pc'[v] \in {"notify", "ran"}
    <3>1. CASE t = x
      BY <1>3, <1>4, <3>1
    <3>2. CASE t # x /\ t \in Tasks /\ completed[t] = 1
      BY <1>4, <3>2
    <3>3. ASSUME NEW v \in Workers, task[v] = t, pc[v] \in {"notify", "ran"}, t # x
          PROVE  \E z \in Workers : task'[z] = t /\ pc'[z] \in {"notify", "ran"}
      BY <1>4, <1>5, <3>3 DEF x
    <3> QED
      BY <1>1, <1>2, <2>3, <3>1, <3>2, <3>3 DEF SubmitInv
  <2> QED
    BY <2>1, <2>2, <2>3 DEF SubmitInv
<1>13. ExitInv'
  BY <1>1, <1>2, <1>5 DEF ExitInv
<1> QED
  BY <1>6, <1>7, <1>10, <1>11, <1>12, <1>13 DEF Inv

LEMMA SubmitJobInv == ASSUME Inv, SubmitJob PROVE Inv'
<1> USE Tokens, PoolAssumption
<1>1. TypeOK /\ PointsInv /\ PlaceInv /\ KeptInv /\ SubmitInv /\ ExitInv
  BY DEF Inv
<1>2. pc[Main] = "submit" /\ UNCHANGED <<guarded, stop, task, completed>>
  BY DEF SubmitJob
<1>3. stop = FALSE /\ next \in 1 .. Jobs + 1
  BY <1>1, <1>2 DEF ExitInv, TypeOK
<1>4. CASE next > Jobs
  <2>1. pc' = [pc EXCEPT ![Main] = "stop"] /\ UNCHANGED <<tasks, accepted, rejected, next>>
    BY <1>4 DEF SubmitJob, Goto
  <2>2. /\ pc' \in [Threads -> WorkerPoints \cup MainPoints]
        /\ pc'[Main] = "stop"
        /\ \A w \in Workers : pc'[w] = pc[w]
    BY <1>1, <2>1 DEF TypeOK, MainPoints
  <2>3. PointsInv'
    BY <1>1, <1>2, <2>1, <2>2 DEF PointsInv, MainPoints
  <2>4. ExitInv'
    BY <1>1, <1>2, <1>3, <2>1, <2>2 DEF ExitInv
  <2>5. next = Jobs + 1
    BY <1>3, <1>4
  <2> QED
    BY <1>1, <1>2, <2>1, <2>2, <2>3, <2>4, <2>5, Moved DEF TypeOK
<1>5. CASE ~(next > Jobs)
  <2>1. /\ tasks' = Append(tasks, next) /\ accepted' = accepted \cup {next}
        /\ pc' = [pc EXCEPT ![Main] = "notify"] /\ rejected' = rejected /\ next' = next + 1
    BY <1>3, <1>5 DEF SubmitJob, Submit, Goto
  <2>2. /\ next \in 1 .. Jobs /\ next \in Tasks /\ next \notin accepted
        /\ \A t \in DOMAIN Child : Child[t] # next
    BY <1>1, <1>3, <1>5, ChildAssumption DEF Tasks, SubmitInv
  <2>3. /\ pc' \in [Threads -> WorkerPoints \cup MainPoints]
        /\ pc'[Main] = "notify"
        /\ \A w \in Workers : pc'[w] = pc[w]
    BY <1>1, <2>1 DEF TypeOK, MainPoints
  <2>4. /\ tasks' \in Seq(Tasks) /\ tasks' # <<>> /\ accepted' \subseteq Tasks
        /\ PlaceInv' /\ KeptInv'
    BY <1>1, <1>2, <2>1, <2>2, Queued
  <2>5. TypeOK'
    <3>1. next' \in 1 .. Jobs + 1
      BY <2>1, <2>2
    <3> QED
      BY <1>1, <1>2, <2>1, <2>3, <2>4, <3>1 DEF TypeOK
  <2>6. PointsInv'
    BY <1>1, <1>2, <2>3 DEF PointsInv, MainPoints
  <2>7. SubmitInv'
    <3>1. \A t \in 1 .. Jobs : t \in accepted' <=> t < next'
      BY <1>1, <1>3, <2>1, <2>2 DEF SubmitInv
    <3>2. \A t \in DOMAIN Child : Child[t] \in accepted' => Child[t] \in accepted
      BY <2>1, <2>2
    <3> QED
      BY <1>1, <1>2, <2>3, <3>1, <3>2 DEF SubmitInv
  <2>8. ExitInv'
    BY <1>1, <1>2, <1>3, <2>3 DEF ExitInv
  <2> QED
    BY <2>4, <2>5, <2>6, <2>7, <2>8 DEF Inv
<1> QED
  BY <1>4, <1>5

LEMMA NextInv == Inv /\ [Next]_vars => Inv'
<1> SUFFICES ASSUME Inv, [Next]_vars PROVE Inv'
  OBVIOUS
<1>1. CASE MainStep
  BY <1>1, SubmitJobInv, NotifyInv, MainInv, Tokens DEF MainStep
<1>2. ASSUME NEW w \in Workers, Worker(w) \/ SpuriousWakeup(w) PROVE Inv'
  BY <1>2, WaitInv, TakeInv, SubmitChildInv, NotifyInv, FinishInv, WakeInv, Tokens DEF Worker
<1>3. CASE UNCHANGED vars
  BY <1>3 DEF vars, Inv, TypeOK, PointsInv, PlaceInv, KeptInv, SubmitInv, ExitInv, InQueue, Held
<1> QED
  BY <1>1, <1>2, <1>3 DEF Next

(* In every reachable state the invariant holds.                           *)
THEOREM InvHolds == Spec => []Inv
<1>1. Init => Inv
  BY InitInv
<1>2. Inv /\ [Next]_vars => Inv'
  BY NextInv
<1> QED
  BY <1>1, <1>2, PTL DEF Spec

(* The variables keep their types, whatever the workers, jobs and children.*)
THEOREM TypeCorrect == Spec => []TypeOK
<1>1. Inv => TypeOK
  BY DEF Inv
<1> QED
  BY <1>1, InvHolds, PTL

(* The destructor abandons nothing: when it has returned every accepted    *)
(* task has run exactly once, for any number of workers and any chain of   *)
(* tasks that submit tasks, in the class that refuses late tasks and in    *)
(* the one that does not.                                                  *)
THEOREM AllTasksRun == Spec => []NothingAbandoned
<1>1. Inv => NothingAbandoned
  <2> SUFFICES ASSUME Inv PROVE NothingAbandoned
    OBVIOUS
  <2>1. \A t \in Tasks : completed[t] \in {0, 1} /\ (completed[t] = 1 => t \in accepted)
    BY DEF Inv, KeptInv
  <2>2. ASSUME pc[Main] = "done"
        PROVE  1 .. Jobs \subseteq accepted
    BY <2>2, PoolAssumption DEF Inv, SubmitInv
  <2>3. ASSUME pc[Main] = "done", NEW t \in Tasks
        PROVE  completed[t] = (IF t \in accepted THEN 1 ELSE 0)
    <3>1. tasks = <<>> /\ \A w \in Workers : pc[w] = "exit"
      BY <2>3 DEF Inv, ExitInv
    <3>2. ~InQueue(t)
      BY <3>1 DEF InQueue
    <3>3. ~Held(t)
      BY <3>1 DEF Inv, PointsInv, Held, Busy
    <3> QED
      BY <2>1, <3>2, <3>3 DEF Inv, KeptInv
  <2> QED
    BY <2>1, <2>2, <2>3 DEF NothingAbandoned
<1> QED
  BY <1>1, InvHolds, PTL

-----------------------------------------------------------------------------
(* No wakeup is lost.                                                      *)

Looking == On("lock")
Notifying == {t \in Threads : pc[t] = "notify"}

LEMMA Counts ==
  /\ Cardinality(Looking) \in Nat /\ Cardinality(Notifying) \in Nat
  /\ IsFiniteSet(Looking) /\ IsFiniteSet(Notifying)
  /\ NoTaskUnattended <=>
       (On("cv") # {} /\ ~stop => Len(tasks) <= Cardinality(Looking) + Cardinality(Notifying))
<1>1. IsFiniteSet(Threads) /\ IsFiniteSet(Workers)
  BY PoolAssumption, FS_AddElement DEF Threads
<1>2. IsFiniteSet(Looking) /\ IsFiniteSet(Notifying)
  BY <1>1, FS_Subset DEF Looking, Notifying, On
<1> QED
  BY <1>2, FS_CardinalityType DEF NoTaskUnattended, Looking, Notifying

LEMMA Grow ==
  ASSUME NEW S, IsFiniteSet(S), NEW x, x \notin S
  PROVE  IsFiniteSet(S \cup {x}) /\ Cardinality(S \cup {x}) = Cardinality(S) + 1
  BY FS_AddElement

LEMMA Shrink ==
  ASSUME NEW S, IsFiniteSet(S), NEW x \in S
  PROVE  IsFiniteSet(S \ {x}) /\ Cardinality(S \ {x}) = Cardinality(S) - 1
  BY FS_RemoveElement

(* The bound after a step, from the bound before it.                       *)
LEMMA Attended ==
  ASSUME NEW L, NEW N, NEW M, NEW K, NEW n \in Nat, NEW m \in Nat,
         IsFiniteSet(L), IsFiniteSet(N),
         m = 0 \/ n <= Cardinality(L) + Cardinality(N),
         IsFiniteSet(M), IsFiniteSet(K),
         \/ m = 0
         \/ m = n /\ K = N /\ M = L
         \/ m = n /\ K = N /\ \E w : w \notin L /\ M = L \cup {w}
         \/ m = n - 1 /\ K = N /\ \E w \in L : M = L \ {w}
         \/ m = n + 1 /\ M = L /\ \E t : t \notin N /\ K = N \cup {t}
         \/ m = n /\ (\E t \in N : K = N \ {t}) /\ \E w : w \notin L /\ M = L \cup {w}
  PROVE  m <= Cardinality(M) + Cardinality(K)
<1>1. /\ Cardinality(L) \in Nat /\ Cardinality(N) \in Nat
      /\ Cardinality(M) \in Nat /\ Cardinality(K) \in Nat
  BY FS_CardinalityType
<1>2. CASE m = 0
  BY <1>1, <1>2
<1>3. CASE m = n /\ K = N /\ M = L
  BY <1>1, <1>3
<1>4. ASSUME m = n, K = N, NEW w, w \notin L, M = L \cup {w}
      PROVE  m <= Cardinality(M) + Cardinality(K)
  BY <1>1, <1>4, Grow
<1>5. ASSUME m = n - 1, K = N, NEW w \in L, M = L \ {w}
      PROVE  m <= Cardinality(M) + Cardinality(K)
  BY <1>1, <1>5, Shrink
<1>6. ASSUME m = n + 1, M = L, NEW t, t \notin N, K = N \cup {t}
      PROVE  m <= Cardinality(M) + Cardinality(K)
  BY <1>1, <1>6, Grow
<1>7. ASSUME m = n, NEW t \in N, K = N \ {t}, NEW w, w \notin L, M = L \cup {w}
      PROVE  m <= Cardinality(M) + Cardinality(K)
  BY <1>1, <1>7, Grow, Shrink
<1> QED
  BY <1>2, <1>3, <1>4, <1>5, <1>6, <1>7

LEMMA UnattendedStep ==
  ASSUME Inv, NoTaskUnattended, [Next]_vars
  PROVE  NoTaskUnattended'
<1> USE Tokens
<1>1. TypeOK /\ PointsInv /\ ExitInv
  BY DEF Inv
<1>2. /\ pc \in [Threads -> WorkerPoints \cup MainPoints]
      /\ tasks \in Seq(Tasks) /\ Len(tasks) \in Nat
  BY <1>1 DEF TypeOK
<1>3. Inv'
  BY NextInv
<1>4. tasks' \in Seq(Tasks) /\ Len(tasks') \in Nat
  BY <1>3 DEF Inv, TypeOK
<1>5. IsFiniteSet(Looking) /\ IsFiniteSet(Notifying)
  BY Counts
<1>6. IsFiniteSet(Looking') /\ IsFiniteSet(Notifying')
  <2>1. IsFiniteSet(Threads) /\ IsFiniteSet(Workers)
    BY PoolAssumption, FS_AddElement DEF Threads
  <2>2. Looking' \subseteq Workers /\ Notifying' \subseteq Threads
    BY DEF Looking, Notifying, On
  <2> QED
    BY <2>1, <2>2, FS_Subset
<1>7. SUFFICES ASSUME On("cv")' # {}, ~stop'
               PROVE  Len(tasks') <= Cardinality(Looking') + Cardinality(Notifying')
  BY DEF NoTaskUnattended, Looking, Notifying
<1> DEFINE Bound == Len(tasks) <= Cardinality(Looking) + Cardinality(Notifying)
           Goal == Len(tasks') <= Cardinality(Looking') + Cardinality(Notifying')
<1>8. On("cv") # {} /\ ~stop => Bound
  BY DEF NoTaskUnattended, Looking, Notifying
<1>9. ASSUME On("cv") # {}, ~stop,
             \/ Len(tasks') = Len(tasks) /\ Notifying' = Notifying /\ Looking' = Looking
             \/ /\ Len(tasks') = Len(tasks) /\ Notifying' = Notifying
                /\ \E w : w \notin Looking /\ Looking' = Looking \cup {w}
             \/ /\ Len(tasks') = Len(tasks) - 1 /\ Notifying' = Notifying
                /\ \E w \in Looking : Looking' = Looking \ {w}
             \/ /\ Len(tasks') = Len(tasks) + 1 /\ Looking' = Looking
                /\ \E t : t \notin Notifying /\ Notifying' = Notifying \cup {t}
             \/ /\ Len(tasks') = Len(tasks) /\ \E t \in Notifying : Notifying' = Notifying \ {t}
                /\ \E w : w \notin Looking /\ Looking' = Looking \cup {w}
      PROVE  Goal
  BY <1>2, <1>4, <1>5, <1>6, <1>8, <1>9, Attended
<1> HIDE DEF Bound
<1>10. ASSUME NEW w \in Workers, Wait(w) PROVE Goal
  <2>1. Len(tasks') = 0
    BY <1>10 DEF Wait
  <2>2. Cardinality(Looking') \in Nat /\ Cardinality(Notifying') \in Nat
    BY <1>6, FS_CardinalityType
  <2> QED
    BY <2>1, <2>2
<1>11. ASSUME NEW w \in Workers, Take(w) PROVE Goal
  <2>1. /\ pc[w] = "lock" /\ tasks # <<>> /\ tasks' = Tail(tasks)
        /\ pc' = [pc EXCEPT ![w] = "run"] /\ stop' = stop
    BY <1>11 DEF Take, Goto
  <2>2. Len(tasks') = Len(tasks) - 1
    BY <1>2, <2>1
  <2>3. pc'[w] = "run" /\ \A u \in Threads \ {w} : pc'[u] = pc[u]
    BY <1>2, <2>1
  <2>4. w \in Looking /\ Looking' = Looking \ {w}
    BY <2>1, <2>3 DEF Looking, On
  <2>5. Notifying' = Notifying /\ On("cv") # {}
    BY <1>7, <2>1, <2>3 DEF Notifying, On
  <2> QED
    BY <1>7, <1>9, <2>1, <2>2, <2>4, <2>5
<1>12. ASSUME NEW t \in Threads, NEW x, NEW p, p # "notify",
              pc[t] \notin {"lock", "cv", "notify"}, p \notin {"lock", "cv"},
              stop' = stop, Submit(t, x, p)
       PROVE  Goal
  <2>1. ~(guarded /\ stop)
    BY <1>7, <1>12
  <2>2. tasks' = Append(tasks, x) /\ pc' = [pc EXCEPT ![t] = "notify"]
    BY <1>12, <2>1 DEF Submit, Goto
  <2>3. Len(tasks') = Len(tasks) + 1
    BY <1>2, <2>2
  <2>4. pc'[t] = "notify" /\ \A u \in Threads \ {t} : pc'[u] = pc[u]
    BY <1>2, <2>2
  <2>5. Looking' = Looking /\ On("cv") # {}
    BY <1>7, <1>12, <2>4 DEF Looking, On
  <2>6. t \notin Notifying /\ Notifying' = Notifying \cup {t}
    BY <1>12, <2>4 DEF Notifying
  <2> QED
    BY <1>7, <1>9, <1>12, <2>3, <2>5, <2>6
<1>13. ASSUME NEW w \in Workers, SubmitChild(w) PROVE Goal
  BY <1>12, <1>13 DEF SubmitChild
<1>14. ASSUME NEW t \in Threads, NEW p \in {"ran", "submit"}, pc[t] = "notify",
              tasks' = tasks, stop' = stop, NotifyOne(t, p)
       PROVE  Goal
  <2>1. CASE \A w \in Workers : pc[w] # "cv"
    <3>1. pc' = [pc EXCEPT ![t] = p]
      BY <1>14, <2>1 DEF NotifyOne, Goto
    <3>2. \A u \in Threads : pc'[u] # "cv"
      BY <1>1, <1>2, <1>14, <2>1, <3>1 DEF PointsInv, MainPoints, Threads
    <3> QED
      BY <1>7, <3>2 DEF On
  <2>2. ASSUME NEW w \in Workers, pc[w] = "cv", pc' = [pc EXCEPT ![t] = p, ![w] = "lock"]
        PROVE  Goal
    <3>1. w # t
      BY <1>14, <2>2
    <3>2. pc'[t] = p /\ pc'[w] = "lock" /\ \A u \in Threads \ {t, w} : pc'[u] = pc[u]
      BY <1>2, <2>2, <3>1
    <3>3. w \notin Looking /\ Looking' = Looking \cup {w}
      BY <1>14, <2>2, <3>1, <3>2 DEF Looking, On
    <3>4. t \in Notifying /\ Notifying' = Notifying \ {t}
      BY <1>14, <2>2, <3>1, <3>2 DEF Notifying
    <3>5. On("cv") # {}
      BY <2>2 DEF On
    <3> QED
      BY <1>7, <1>9, <1>14, <3>3, <3>4, <3>5
  <2> QED
    BY <1>14, <2>1, <2>2 DEF NotifyOne
<1>15. ASSUME NEW w \in Workers, NotifyChild(w) PROVE Goal
  BY <1>14, <1>15 DEF NotifyChild
<1>16. ASSUME NEW w \in Workers, Finish(w) \/ SpuriousWakeup(w) PROVE Goal
  <2>1. /\ pc[w] \in {"run", "ran", "cv"} /\ tasks' = tasks /\ stop' = stop
        /\ pc' = [pc EXCEPT ![w] = "lock"]
    BY <1>16 DEF Finish, SpuriousWakeup, Goto
  <2>2. pc'[w] = "lock" /\ \A u \in Threads \ {w} : pc'[u] = pc[u]
    BY <1>2, <2>1
  <2>3. w \notin Looking /\ Looking' = Looking \cup {w}
    BY <2>1, <2>2 DEF Looking, On
  <2>4. Notifying' = Notifying /\ On("cv") # {}
    BY <1>7, <2>1, <2>2 DEF Notifying, On
  <2> QED
    BY <1>7, <1>9, <2>1, <2>3, <2>4
<1>17. CASE SubmitJob
  <2>1. pc[Main] = "submit" /\ stop' = stop
    BY <1>17 DEF SubmitJob
  <2>2. CASE next > Jobs
    <3>1. pc' = [pc EXCEPT ![Main] = "stop"] /\ tasks' = tasks
      BY <1>17, <2>2 DEF SubmitJob, Goto
    <3>2. pc'[Main] = "stop" /\ \A u \in Threads \ {Main} : pc'[u] = pc[u]
      BY <1>2, <3>1
    <3>3. Looking' = Looking /\ On("cv") # {}
      BY <1>7, <3>2 DEF Looking, On
    <3>4. Notifying' = Notifying
      BY <2>1, <3>2 DEF Notifying
    <3> QED
      BY <1>7, <1>9, <2>1, <3>1, <3>3, <3>4
  <2>3. CASE ~(next > Jobs)
    <3>1. Submit(Main, next, "submit")
      BY <1>17, <2>3 DEF SubmitJob
    <3> QED
      BY <1>12, <2>1, <3>1
  <2> QED
    BY <2>2, <2>3
<1>18. CASE NotifyJob
  BY <1>14, <1>18 DEF NotifyJob
<1>19. CASE Stop \/ Join
  <2>1. stop'
    BY <1>1, <1>19 DEF Stop, Join, ExitInv
  <2> QED
    BY <1>7, <2>1
<1>20. CASE NotifyAll
  <2>1. pc' = [t \in Threads |-> IF t = Main THEN "join"
                                 ELSE IF pc[t] = "cv" THEN "lock" ELSE pc[t]]
    BY <1>20 DEF NotifyAll
  <2>2. \A w \in Workers : pc'[w] # "cv"
    BY <2>1
  <2> QED
    BY <1>7, <2>2 DEF On
<1>21. CASE UNCHANGED vars
  <2>1. tasks' = tasks /\ pc' = pc /\ stop' = stop
    BY <1>21 DEF vars
  <2>2. Looking' = Looking /\ Notifying' = Notifying /\ On("cv") # {}
    BY <1>7, <2>1 DEF Looking, Notifying, On
  <2> QED
    BY <1>7, <1>9, <2>1, <2>2
<1> QED
  BY <1>10, <1>11, <1>13, <1>15, <1>16, <1>17, <1>18, <1>19, <1>20, <1>21
     DEF Next, MainStep, Worker

(* While a worker sleeps, every queued task has a worker that will look at *)
(* the queue or a notification on the way, for any number of workers: the  *)
(* unlock between push and notify_one loses no wakeup.                     *)
THEOREM NoWakeupLost == Spec => []NoTaskUnattended
<1>1. Init => NoTaskUnattended
  BY PoolAssumption DEF Init, NoTaskUnattended, On, Threads
<1>2. Inv /\ NoTaskUnattended /\ [Next]_vars => NoTaskUnattended'
  BY UnattendedStep
<1> QED
  BY <1>1, <1>2, InvHolds, PTL DEF Spec

-----------------------------------------------------------------------------
LEMMA SleepersStep == Inv /\ JoinsNoSleeper /\ [Next]_vars => JoinsNoSleeper'
<1> SUFFICES ASSUME Inv, JoinsNoSleeper, [Next]_vars, pc'[Main] = "join", NEW w \in Workers
             PROVE  pc'[w] # "cv"
  BY DEF JoinsNoSleeper, On
<1>1. /\ pc \in [Threads -> WorkerPoints \cup MainPoints] /\ w \in Threads /\ w # Main
      /\ pc[Main] = "join" => pc[w] # "cv" /\ stop
  BY Tokens DEF Inv, TypeOK, ExitInv, JoinsNoSleeper, On
<1>2. CASE MainStep
  <2>1. NotifyAll
    BY <1>1, <1>2, Tokens DEF MainStep, SubmitJob, NotifyJob, Stop, Join, Submit, NotifyOne, Goto
  <2> QED
    BY <2>1, <1>1 DEF NotifyAll
<1>3. ASSUME NEW v \in Workers, Worker(v) \/ SpuriousWakeup(v) PROVE pc'[w] # "cv"
  <2>1. v \in Threads /\ v # Main
    BY Tokens
  <2>2. pc[Main] = "join"
    BY <1>1, <1>3, <2>1, Tokens
       DEF Worker, Wait, Take, SubmitChild, NotifyChild, Finish, SpuriousWakeup, Submit, NotifyOne, Goto
  <2> QED
    BY <1>1, <1>3, <2>1, <2>2
       DEF Worker, Wait, Take, SubmitChild, NotifyChild, Finish, SpuriousWakeup, Submit, NotifyOne, Goto
<1>4. CASE UNCHANGED vars
  BY <1>1, <1>4 DEF vars
<1> QED
  BY <1>2, <1>3, <1>4 DEF Next

(* When the destructor joins, every worker is awake or has ended: it waits *)
(* for nobody who waits for a notification.                                *)
THEOREM NoSleeperIsJoined == Spec => []JoinsNoSleeper
<1>1. Init => JoinsNoSleeper
  BY Tokens DEF Init, JoinsNoSleeper
<1> QED
  BY <1>1, SleepersStep, InvHolds, PTL DEF Spec

================================================================================
