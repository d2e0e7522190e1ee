--------------------------- MODULE QueueDemo_proofs --------------------------
(***************************************************************************)
(* Theorems about BlockingQueue for every finite set of threads, every set *)
(* of items and every capacity, and then about the program QueueDemo that  *)
(* uses it, for any number of producers, consumers and frames.             *)
(***************************************************************************)
EXTENDS QueueDemo, FiniteSetTheorems, TLAPS

PcOK == pc \in [Threads -> Points]

-----------------------------------------------------------------------------
(* Lemmas about where threads are after the pieces the calls are made of.  *)

(* A finite number of threads is at each point.                            *)
LEMMA FiniteOn ==
  ASSUME NEW r
  PROVE  IsFiniteSet(On(r)) /\ Cardinality(On(r)) \in Nat
<1>1. On(r) \subseteq Threads
  BY DEF On
<1>2. QED
  BY <1>1, ThreadsAssumption, FS_Subset, FS_CardinalityType

LEMMA GotoOn ==
  ASSUME PcOK, NEW t \in Threads, NEW p \in Points, Goto(t, p)
  PROVE  /\ PcOK'
         /\ \A r : On(r)' = IF r = p THEN On(r) \cup {t} ELSE On(r) \ {t}
BY DEF PcOK, Goto, On

(* Such a thread leaves the others' points as they are.                    *)
LEMMA GotoLeavesOthers ==
  ASSUME PcOK, NEW t \in Threads, NEW p \in Points, Goto(t, p)
  PROVE  /\ \A r : r # p => On(r)' \subseteq On(r)
         /\ \A r : r # pc[t] => On(r) \subseteq On(r)'
<1>1. \A r : On(r)' = IF r = p THEN On(r) \cup {t} ELSE On(r) \ {t}
  BY GotoOn
<1>2. \A r : r # pc[t] => t \notin On(r)
  BY DEF On
<1>3. QED
  BY <1>1, <1>2

(* notify_one: nobody to wake, or one sleeper s moves from cv to p.        *)
WakesOne(t, cv, p, s) ==
  /\ s \in On(cv) /\ s # t
  /\ On(p)' = (On(p) \ {t}) \cup {s}
  /\ On(cv)' = On(cv) \ {s}
  /\ \A r : r \notin {p, cv, "idle"} => On(r)' = On(r) \ {t}

LEMMA NotifyOneOn ==
  ASSUME PcOK, NEW t \in Threads, NEW cv \in Points \ {"idle"}, NEW p \in Points \ {"idle"},
         cv # p, pc[t] # cv, NotifyOneAndReturn(t, cv, p)
  PROVE  /\ PcOK'
         /\ \/ On(cv) = {} /\ \A r : r # "idle" => On(r)' = On(r) \ {t}
            \/ \E s \in Threads : WakesOne(t, cv, p, s)
<1>1. CASE On(cv) = {}
  BY <1>1 DEF PcOK, NotifyOneAndReturn, On, Points
<1>2. CASE On(cv) # {}
  <2>1. PICK s \in On(cv) : pc' = [pc EXCEPT ![t] = "idle", ![s] = p]
    BY <1>2 DEF NotifyOneAndReturn
  <2>2. s \in Threads /\ s # t /\ pc[s] = cv
    BY <2>1 DEF On
  <2>3. /\ pc'[s] = p /\ pc'[t] = "idle"
        /\ \A u \in Threads : u # s /\ u # t => pc'[u] = pc[u]
        /\ PcOK'
    BY <2>1, <2>2 DEF PcOK, Points
  <2>4. WakesOne(t, cv, p, s)
    BY <2>2, <2>3 DEF WakesOne, On
  <2>5. QED
    BY <2>2, <2>3, <2>4
<1>3. QED
  BY <1>1, <1>2

LEMMA NotifyAllOn ==
  ASSUME PcOK, NEW t \in Threads, NEW cv \in Points, NEW p \in Points, NEW n \in Points,
         cv # p, cv # n, NotifyAll(t, cv, p, n)
  PROVE  /\ PcOK'
         /\ On(cv)' = {}
         /\ On(p) \ {t} \subseteq On(p)'
         /\ On(n) \cup {t} \subseteq On(n)'
         /\ \A r : r \notin {p, cv, n} => On(r)' = On(r) \ {t}
BY DEF PcOK, NotifyAll, On

(* notify_all by a thread that is neither asleep there nor at p.           *)
LEMMA NotifyAllLeavesOthers ==
  ASSUME PcOK, NEW t \in Threads, NEW cv \in Points, NEW p \in Points, NEW n \in Points,
         cv # p, cv # n, NotifyAll(t, cv, p, n)
  PROVE  /\ \A r : r \notin {p, n} => On(r)' \subseteq On(r)
         /\ \A r : r \notin {pc[t], cv} => On(r) \subseteq On(r)'
BY DEF PcOK, NotifyAll, On

-----------------------------------------------------------------------------
(* Type correctness.                                                       *)

LEMMA ClosedStep == closed \in BOOLEAN /\ [Next]_queueVars => closed' \in BOOLEAN
BY Zenon DEF Next, Begin, Proceed, SpuriousWakeup, StartPush, PushWaits, PushRefused,
   PushProceeds, TryPush, StartPop, PopWaits, PopRefused, PopProceeds, TryPop, Shutdown,
   ShutdownNotifiesFull, ShutdownNotifiesEmpty, queueVars

(* An item goes in only where there is room.                               *)
LEMMA AppendType ==
  ASSUME queue \in Seq(Items), Len(queue) <= Capacity, HasRoom, NEW x \in Items,
         queue' = Append(queue, x)
  PROVE  queue' \in Seq(Items) /\ Len(queue') <= Capacity /\ Len(queue') = Len(queue) + 1
BY CapacityAssumption DEF HasRoom

LEMMA TailType ==
  ASSUME queue \in Seq(Items), Len(queue) <= Capacity, queue # <<>>, queue' = Tail(queue)
  PROVE  /\ queue' \in Seq(Items) /\ Len(queue') <= Capacity /\ Len(queue') = Len(queue) - 1
         /\ Head(queue) \in Items
BY CapacityAssumption

Rets == {"none", Accepted, Refused}

LEMMA TypeInit == QueueInit => TypeOK
<1> USE DEF PcOK
<1>1. ASSUME QueueInit PROVE closed \in BOOLEAN
  BY <1>1, Zenon DEF QueueInit
<1>2. ASSUME QueueInit PROVE queue \in Seq(Items) /\ Len(queue) <= Capacity
  BY <1>2, CapacityAssumption DEF QueueInit
<1>3. ASSUME QueueInit PROVE TypeOK
  BY <1>1, <1>2, <1>3 DEF QueueInit, TypeOK, Points
<1>4. QED
  BY <1>3

LEMMA TypeStep == TypeOK /\ [Next]_queueVars => TypeOK'
<1> USE DEF PcOK
<1> SUFFICES ASSUME TypeOK, [Next]_queueVars PROVE TypeOK'
  OBVIOUS
<1>0. /\ closed' \in BOOLEAN /\ PcOK /\ queue \in Seq(Items) /\ Len(queue) <= Capacity
      /\ item \in [Threads -> Items] /\ ret \in [Threads -> Rets]
  BY ClosedStep DEF TypeOK, Rets
<1> DEFINE Frame == PcOK' /\ item' \in [Threads -> Items] /\ ret' \in [Threads -> Rets]
<1>q. ASSUME Frame, queue' = queue PROVE TypeOK'
  BY <1>0, <1>q DEF TypeOK, Rets
<1>n. ASSUME Frame, queue' \in Seq(Items), Len(queue') <= Capacity PROVE TypeOK'
  BY <1>0, <1>n DEF TypeOK, Rets
<1>1. ASSUME NEW t \in Threads, Proceed(t) PROVE TypeOK'
  <2>1. CASE PushWaits(t) \/ PopWaits(t)
    BY <1>0, <1>q, <2>1, GotoOn DEF PushWaits, PopWaits, Points
  <2>2. CASE PushRefused(t) \/ PopRefused(t)
    BY <1>0, <1>q, <2>2, GotoOn DEF PushRefused, PopRefused, Returns, Rets, Points
  <2>3. CASE PushProceeds(t)
    <3>1. PcOK'
      BY <1>0, <2>3, NotifyOneOn DEF PushProceeds, Enqueue, Points
    <3>2. queue' \in Seq(Items) /\ Len(queue') <= Capacity
      BY <1>0, <2>3, AppendType DEF PushProceeds, Enqueue
    <3>3. item' = item /\ ret' \in [Threads -> Rets]
      BY <1>0, <2>3 DEF PushProceeds, Enqueue, Returns, Rets
    <3>4. QED
      BY <1>0, <1>n, <3>1, <3>2, <3>3
  <2>4. CASE PopProceeds(t)
    <3>1. PcOK'
      BY <1>0, <2>4, NotifyOneOn DEF PopProceeds, Dequeue, Points
    <3>2. queue' \in Seq(Items) /\ Len(queue') <= Capacity /\ Head(queue) \in Items
      BY <1>0, <2>4, TailType DEF PopProceeds, Dequeue
    <3>3. item' \in [Threads -> Items] /\ ret' \in [Threads -> Rets]
      BY <1>0, <2>4, <3>2 DEF PopProceeds, Dequeue, Returns, Rets
    <3>4. QED
      BY <1>n, <3>1, <3>2, <3>3
  <2>5. CASE ShutdownNotifiesFull(t) \/ ShutdownNotifiesEmpty(t)
    BY <1>0, <1>q, <2>5, NotifyAllOn DEF ShutdownNotifiesFull, ShutdownNotifiesEmpty, Points
  <2>6. QED
    BY <1>1, <2>1, <2>2, <2>3, <2>4, <2>5 DEF Proceed
<1>2. ASSUME NEW t \in Threads, Begin(t) PROVE TypeOK'
  <2>1. ASSUME NEW x \in Items, StartPush(t, x) PROVE TypeOK'
    BY <1>0, <1>q, <2>1, GotoOn DEF StartPush, Points
  <2>2. CASE StartPop(t) \/ Shutdown(t)
    BY <1>0, <1>q, <2>2, GotoOn DEF StartPop, Shutdown, Points
  <2>3. ASSUME NEW x \in Items, TryPush(t, x) PROVE TypeOK'
    <3>1. CASE closed \/ ~HasRoom
      BY <1>0, <1>q, <2>3, <3>1 DEF TryPush, Returns, Rets
    <3>2. CASE ~(closed \/ ~HasRoom)
      <4>1. PcOK'
        BY <1>0, <2>3, <3>2, NotifyOneOn DEF TryPush, Enqueue, Points
      <4>2. queue' \in Seq(Items) /\ Len(queue') <= Capacity
        BY <1>0, <2>3, <3>2, AppendType DEF TryPush, Enqueue
      <4>3. item' = item /\ ret' \in [Threads -> Rets]
        BY <1>0, <2>3, <3>2 DEF TryPush, Enqueue, Returns, Rets
      <4>4. QED
        BY <1>0, <1>n, <4>1, <4>2, <4>3
    <3>3. QED
      BY <3>1, <3>2
  <2>4. CASE TryPop(t)
    <3>1. CASE queue = <<>>
      BY <1>0, <1>q, <2>4, <3>1 DEF TryPop, Returns, Rets
    <3>2. CASE queue # <<>>
      <4>1. PcOK'
        BY <1>0, <2>4, <3>2, NotifyOneOn DEF TryPop, Dequeue, Points
      <4>2. queue' \in Seq(Items) /\ Len(queue') <= Capacity /\ Head(queue) \in Items
        BY <1>0, <2>4, <3>2, TailType DEF TryPop, Dequeue
      <4>3. item' \in [Threads -> Items] /\ ret' \in [Threads -> Rets]
        BY <1>0, <2>4, <3>2, <4>2 DEF TryPop, Dequeue, Returns, Rets
      <4>4. QED
        BY <1>n, <4>1, <4>2, <4>3
    <3>3. QED
      BY <3>1, <3>2
  <2>5. QED
    BY <1>2, <2>1, <2>2, <2>3, <2>4 DEF Begin
<1>3. ASSUME NEW t \in Threads, SpuriousWakeup(t) PROVE TypeOK'
  BY <1>0, <1>q, <1>3, GotoOn DEF SpuriousWakeup, Points
<1>4. CASE UNCHANGED queueVars
  BY <1>0, <1>q, <1>4 DEF queueVars
<1>5. QED
  BY <1>1, <1>2, <1>3, <1>4 DEF Next

(* The queue keeps to its items and to its capacity.                       *)
THEOREM TypeCorrect == Spec => []TypeOK
  BY TypeInit, TypeStep, PTL DEF Spec

-----------------------------------------------------------------------------
(* Shutdown.                                                               *)

(* Whoever sleeps after shutdown has a notification coming: nobody falls   *)
(* asleep once closed_ is set, and who has set it has yet to notify.       *)
THEOREM ShutdownReachesAll == Spec => []ShutdownWakesAll
<1> USE DEF On
<1>1. QueueInit => ShutdownWakesAll
  BY DEF QueueInit, ShutdownWakesAll
<1>2. TypeOK /\ ShutdownWakesAll /\ [Next]_queueVars => ShutdownWakesAll'
  <2> SUFFICES ASSUME TypeOK, ShutdownWakesAll, [Next]_queueVars PROVE ShutdownWakesAll'
    OBVIOUS
  <2>0. pc \in [Threads -> Points]
    BY DEF TypeOK
  <2>k. ASSUME closed' = closed,
               \A s \in Threads :
                 /\ pc'[s] \in {"not_full_", "not_empty_"} => pc'[s] = pc[s]
                 /\ pc[s] \in {"notifyFull", "notifyEmpty"} => pc'[s] = pc[s]
        PROVE  ShutdownWakesAll'
    BY <2>k DEF ShutdownWakesAll
  <2>1. ASSUME NEW t \in Threads, PushWaits(t) \/ PopWaits(t) PROVE ShutdownWakesAll'
    BY <2>1 DEF PushWaits, PopWaits, ShutdownWakesAll
  <2>2. ASSUME NEW t \in Threads, PushRefused(t) \/ PopRefused(t) PROVE ShutdownWakesAll'
    BY <2>0, <2>k, <2>2 DEF PushRefused, PopRefused, Goto
  <2>3. ASSUME NEW t \in Threads, NEW cv \in {"not_full_", "not_empty_"},
               NEW p \in {"push", "pop"}, NotifyOneAndReturn(t, cv, p),
               pc[t] \in {"idle", "push", "pop"}, closed' = closed
        PROVE  ShutdownWakesAll'
    BY <2>0, <2>k, <2>3 DEF NotifyOneAndReturn
  <2>4. ASSUME NEW t \in Threads, Proceed(t) PROVE ShutdownWakesAll'
    <3>1. CASE PushProceeds(t) \/ PopProceeds(t)
      BY <2>3, <3>1 DEF PushProceeds, PopProceeds, Enqueue, Dequeue
    <3>2. CASE ShutdownNotifiesFull(t)
      <4>1. \A s \in Threads : /\ pc'[s] # "not_full_"
                               /\ pc'[s] = "not_empty_" => pc[s] = "not_empty_"
            /\ pc'[t] = "notifyEmpty"
        BY <2>0, <3>2 DEF ShutdownNotifiesFull, NotifyAll
      <4>2. QED
        BY <4>1 DEF ShutdownWakesAll
    <3>3. CASE ShutdownNotifiesEmpty(t)
      <4>1. /\ closed' = closed /\ pc[t] = "notifyEmpty"
            /\ \A s \in Threads : /\ pc'[s] # "not_empty_"
                                  /\ pc'[s] = "not_full_" => pc[s] = "not_full_"
                                  /\ pc[s] = "notifyFull" => pc'[s] = "notifyFull"
        BY <2>0, <3>3 DEF ShutdownNotifiesEmpty, NotifyAll
      <4>2. QED
        BY <4>1 DEF ShutdownWakesAll
    <3>4. QED
      BY <2>1, <2>2, <2>4, <3>1, <3>2, <3>3 DEF Proceed
  <2>5. ASSUME NEW t \in Threads, Begin(t) PROVE ShutdownWakesAll'
    <3>1. ASSUME NEW x \in Items, StartPush(t, x) PROVE ShutdownWakesAll'
      BY <2>0, <2>k, <3>1 DEF StartPush, Goto
    <3>2. CASE StartPop(t)
      BY <2>0, <2>k, <3>2 DEF StartPop, Goto
    <3>3. ASSUME NEW x \in Items, TryPush(t, x) PROVE ShutdownWakesAll'
      <4>1. CASE closed \/ ~HasRoom
        BY <2>k, <3>3, <4>1 DEF TryPush
      <4>2. CASE ~(closed \/ ~HasRoom)
        BY <2>3, <3>3, <4>2 DEF TryPush, Enqueue
      <4>3. QED
        BY <4>1, <4>2
    <3>4. CASE TryPop(t)
      <4>1. CASE queue = <<>>
        BY <2>k, <3>4, <4>1 DEF TryPop
      <4>2. CASE queue # <<>>
        BY <2>3, <3>4, <4>2 DEF TryPop, Dequeue
      <4>3. QED
        BY <4>1, <4>2
    <3>5. CASE Shutdown(t)
      BY <2>0, <3>5 DEF Shutdown, Goto, ShutdownWakesAll
    <3>6. QED
      BY <2>5, <3>1, <3>2, <3>3, <3>4, <3>5 DEF Begin
  <2>6. ASSUME NEW t \in Threads, SpuriousWakeup(t) PROVE ShutdownWakesAll'
    BY <2>0, <2>k, <2>6 DEF SpuriousWakeup, Goto
  <2>7. CASE UNCHANGED queueVars
    BY <2>7 DEF queueVars, ShutdownWakesAll
  <2>8. QED
    BY <2>4, <2>5, <2>6, <2>7 DEF Next
<1>3. QED
  BY <1>1, <1>2, TypeCorrect, PTL DEF Spec

-----------------------------------------------------------------------------
(* Lost wakeups.                                                           *)

EnoughAwake(cv, p, n) == On(cv) # {} => n <= Cardinality(On(p))

(* What a set loses or gains by one element.                               *)
LEMMA CardLarger ==
  ASSUME NEW S, NEW T, IsFiniteSet(T), S \subseteq T
  PROVE  Cardinality(S) <= Cardinality(T)
BY FS_Subset

LEMMA CardWithout ==
  ASSUME NEW S, NEW x, NEW T, IsFiniteSet(S), IsFiniteSet(T), S \ {x} \subseteq T
  PROVE  Cardinality(S) - 1 <= Cardinality(T)
<1>1. Cardinality(S \ {x}) <= Cardinality(T)
  BY CardLarger
<1>2. Cardinality(S \ {x}) = IF x \in S THEN Cardinality(S) - 1 ELSE Cardinality(S)
  BY FS_RemoveElement
<1>3. Cardinality(S) \in Nat /\ Cardinality(T) \in Nat
  BY FS_CardinalityType
<1>4. QED
  BY <1>1, <1>2, <1>3

(* A thread that only moves, and does not fall asleep or leave p, keeps    *)
(* the balance.                                                            *)
LEMMA MoveKeepsBalance ==
  ASSUME NEW cv, NEW p, NEW n \in Int, EnoughAwake(cv, p, n),
         On(cv)' \subseteq On(cv), On(p) \subseteq On(p)'
  PROVE  On(cv)' # {} => n <= Cardinality(On(p)')
<1>1. IsFiniteSet(On(p)') /\ Cardinality(On(p)') \in Nat
  <2>1. On(p)' \subseteq Threads
    BY DEF On
  <2>2. QED
    BY <2>1, ThreadsAssumption, FS_Subset, FS_CardinalityType
<1>2. Cardinality(On(p)) <= Cardinality(On(p)') /\ Cardinality(On(p)) \in Nat
  BY <1>1, CardLarger, FiniteOn
<1>3. QED
  BY <1>1, <1>2 DEF EnoughAwake

(* notify_one pays for the item or place its thread has just made on cv,   *)
(* and the thread's leaving of p2 for the one it has used up on cv2.       *)
LEMMA NotifyKeepsBalance ==
  ASSUME PcOK, NEW t \in Threads, NEW cv \in Points \ {"idle"}, NEW p \in Points \ {"idle"},
         NEW cv2 \in Points \ {"idle", cv, p}, NEW p2 \in Points \ {"idle", cv, p},
         cv # p, pc[t] \notin {cv, p},
         NotifyOneAndReturn(t, cv, p),
         NEW n \in Int, EnoughAwake(cv, p, n),
         NEW m \in Int, EnoughAwake(cv2, p2, m)
  PROVE  /\ On(cv)' # {} => n + 1 <= Cardinality(On(p)')
         /\ On(cv2)' # {} => m - 1 <= Cardinality(On(p2)')
<1>1. \A r : IsFiniteSet(On(r)') /\ Cardinality(On(r)') \in Nat
  <2>1. \A r : On(r)' \subseteq Threads
    BY DEF On
  <2>2. QED
    BY <2>1, ThreadsAssumption, FS_Subset, FS_CardinalityType
<1>2. On(cv)' # {} => n + 1 <= Cardinality(On(p)')
  <2>1. CASE On(cv) = {}
    <3>1. On(cv)' = {}
      BY <2>1, NotifyOneOn DEF WakesOne
    <3>2. QED
      BY <3>1
  <2>2. CASE On(cv) # {}
    <3>1. PICK s \in Threads : WakesOne(t, cv, p, s)
      BY <2>2, NotifyOneOn
    <3>2. t \notin On(p) /\ s \notin On(p)
      BY <3>1 DEF WakesOne, On
    <3>3. On(p)' = On(p) \cup {s}
      BY <3>1, <3>2 DEF WakesOne
    <3>4. Cardinality(On(p)') = Cardinality(On(p)) + 1 /\ Cardinality(On(p)) \in Nat
      BY <3>2, <3>3, FS_AddElement, FiniteOn
    <3>5. n <= Cardinality(On(p))
      BY <2>2 DEF EnoughAwake
    <3>6. QED
      BY <3>4, <3>5
  <2>3. QED
    BY <2>1, <2>2
<1>3. On(cv2)' # {} => m - 1 <= Cardinality(On(p2)')
  <2>1. On(cv2)' = On(cv2) \ {t} /\ On(p2)' = On(p2) \ {t}
    BY NotifyOneOn DEF WakesOne
  <2>2. Cardinality(On(p2)) - 1 <= Cardinality(On(p2)') /\ Cardinality(On(p2)) \in Nat
    BY <1>1, <2>1, CardWithout, FiniteOn
  <2>3. CASE On(cv2) = {}
    BY <2>1, <2>3
  <2>4. CASE On(cv2) # {}
    <3>1. m <= Cardinality(On(p2))
      BY <2>4 DEF EnoughAwake
    <3>2. Cardinality(On(p2)') \in Nat
      BY <1>1
    <3>3. m - 1 <= Cardinality(On(p2)')
      BY <2>2, <3>1, <3>2
    <3>4. QED
      BY <3>3
  <2>5. QED
    BY <2>3, <2>4
<1>4. QED
  BY <1>2, <1>3

(* No wakeup is lost, whichever threads push, pop, overtake the thread     *)
(* that was notified, or wake for nothing.                                 *)
THEOREM WakeupsReachEnough == Spec => []NoLostWakeup
<1> DEFINE free == Capacity - Len(queue)
<1>1. QueueInit => NoLostWakeup
  BY DEF QueueInit, NoLostWakeup, On
<1>2. TypeOK /\ NoLostWakeup /\ [Next]_queueVars => NoLostWakeup'
  <2> SUFFICES ASSUME TypeOK, NoLostWakeup, [Next]_queueVars, ~closed'
               PROVE  /\ On("not_empty_")' # {} => Len(queue') <= Cardinality(On("pop")')
                      /\ On("not_full_")' # {} => Capacity - Len(queue') <= Cardinality(On("push")')
    BY DEF NoLostWakeup
  <2> DEFINE Balanced ==
         /\ On("not_empty_")' # {} => Len(queue') <= Cardinality(On("pop")')
         /\ On("not_full_")' # {} => Capacity - Len(queue') <= Cardinality(On("push")')
  <2>0. /\ PcOK /\ queue \in Seq(Items) /\ Len(queue) \in Nat /\ Capacity \in Nat
        /\ Len(queue) <= Capacity /\ free \in Int
    BY CapacityAssumption DEF TypeOK, PcOK
  <2>c. ~closed
    BY DEF Next, Begin, Proceed, SpuriousWakeup, StartPush, PushWaits, PushRefused,
       PushProceeds, TryPush, StartPop, PopWaits, PopRefused, PopProceeds, TryPop, Shutdown,
       ShutdownNotifiesFull, ShutdownNotifiesEmpty, queueVars
  <2>e. EnoughAwake("not_empty_", "pop", Len(queue)) /\ EnoughAwake("not_full_", "push", free)
    BY <2>c DEF NoLostWakeup, EnoughAwake
  <2>m. ASSUME queue' = queue,
               On("not_empty_")' \subseteq On("not_empty_"), On("pop") \subseteq On("pop")',
               On("not_full_")' \subseteq On("not_full_"), On("push") \subseteq On("push")'
        PROVE  Balanced
    BY <2>0, <2>e, <2>m, MoveKeepsBalance
  <2>g. ASSUME NEW t \in Threads, NEW p \in {"push", "pop"}, queue' = queue, Goto(t, p),
               pc[t] \notin {"push", "pop"}
        PROVE  Balanced
    <3>1. /\ \A r \in {"not_empty_", "not_full_"} : On(r)' \subseteq On(r)
          /\ \A r \in {"pop", "push"} : On(r) \subseteq On(r)'
      BY <2>0, <2>g, GotoLeavesOthers DEF Points
    <3>2. QED
      BY <2>m, <2>g, <3>1
  <2>u. ASSUME UNCHANGED <<queue, pc>> PROVE Balanced
    BY <2>m, <2>u DEF On
  <2>p. ASSUME NEW t \in Threads, NotifyOneAndReturn(t, "not_empty_", "pop"),
               pc[t] \in {"idle", "push"}, Len(queue') = Len(queue) + 1
        PROVE  Balanced
    <3>1. /\ On("not_empty_")' # {} => Len(queue) + 1 <= Cardinality(On("pop")')
          /\ On("not_full_")' # {} => free - 1 <= Cardinality(On("push")')
      BY <2>0, <2>e, <2>p, NotifyKeepsBalance DEF Points
    <3>2. QED
      BY <2>0, <2>p, <3>1
  <2>q. ASSUME NEW t \in Threads, NotifyOneAndReturn(t, "not_full_", "push"),
               pc[t] \in {"idle", "pop"}, Len(queue') = Len(queue) - 1
        PROVE  Balanced
    <3>1. /\ On("not_full_")' # {} => free + 1 <= Cardinality(On("push")')
          /\ On("not_empty_")' # {} => Len(queue) - 1 <= Cardinality(On("pop")')
      BY <2>0, <2>e, <2>q, NotifyKeepsBalance DEF Points
    <3>2. QED
      BY <2>0, <2>q, <3>1
  <2>1. ASSUME NEW t \in Threads, Proceed(t) PROVE Balanced
    <3>1. CASE PushWaits(t)
      <4>a. queue' = queue /\ Goto(t, "not_full_") /\ pc[t] = "push" /\ ~HasRoom
        BY <3>1 DEF PushWaits
      <4>b. Len(queue) = Capacity
        BY <2>0, <4>a DEF HasRoom
      <4>1. /\ queue' = queue /\ Len(queue) = Capacity
            /\ On("not_empty_")' \subseteq On("not_empty_") /\ On("pop") \subseteq On("pop")'
        BY <2>0, <4>a, <4>b, GotoLeavesOthers DEF Points
      <4>2. Cardinality(On("push")') \in Nat
        <5>1. On("push")' \subseteq Threads
          BY DEF On
        <5>2. QED
          BY <5>1, ThreadsAssumption, FS_Subset, FS_CardinalityType
      <4>3. On("not_empty_")' # {} => Len(queue) <= Cardinality(On("pop")')
        BY <2>0, <2>e, <4>1, MoveKeepsBalance
      <4>4. QED
        BY <2>0, <4>1, <4>2, <4>3
    <3>2. CASE PopWaits(t)
      <4>a. queue' = queue /\ Goto(t, "not_empty_") /\ pc[t] = "pop" /\ queue = <<>>
        BY <3>2 DEF PopWaits
      <4>1. /\ queue' = queue /\ Len(queue) = 0
            /\ On("not_full_")' \subseteq On("not_full_") /\ On("push") \subseteq On("push")'
        BY <2>0, <4>a, GotoLeavesOthers DEF Points
      <4>2. Cardinality(On("pop")') \in Nat
        <5>1. On("pop")' \subseteq Threads
          BY DEF On
        <5>2. QED
          BY <5>1, ThreadsAssumption, FS_Subset, FS_CardinalityType
      <4>3. On("not_full_")' # {} => free <= Cardinality(On("push")')
        BY <2>0, <2>e, <4>1, MoveKeepsBalance
      <4>4. QED
        BY <2>0, <4>1, <4>2, <4>3
    <3>3. CASE PushRefused(t) \/ PopRefused(t)
      BY <2>c, <3>3 DEF PushRefused, PopRefused
    <3>4. CASE PushProceeds(t)
      <4>1. item[t] \in Items
        BY DEF TypeOK
      <4>2. Len(queue') = Len(queue) + 1
        BY <2>0, <3>4, <4>1, AppendType DEF PushProceeds, Enqueue
      <4>3. QED
        BY <2>p, <3>4, <4>2 DEF PushProceeds, Enqueue
    <3>5. CASE PopProceeds(t)
      <4>1. Len(queue') = Len(queue) - 1
        BY <2>0, <3>5, TailType DEF PopProceeds, Dequeue
      <4>2. QED
        BY <2>q, <3>5, <4>1 DEF PopProceeds, Dequeue
    <3>6. CASE ShutdownNotifiesFull(t)
      <4>1. /\ NotifyAll(t, "not_full_", "push", "notifyEmpty") /\ queue' = queue
            /\ pc[t] = "notifyFull"
        BY <3>6 DEF ShutdownNotifiesFull
      <4>2. QED
        <5>1. /\ \A r \in {"not_empty_", "not_full_"} : On(r)' \subseteq On(r)
              /\ \A r \in {"pop", "push"} : On(r) \subseteq On(r)'
          BY <2>0, <4>1, NotifyAllLeavesOthers DEF Points
        <5>2. QED
          BY <2>m, <4>1, <5>1
    <3>7. CASE ShutdownNotifiesEmpty(t)
      <4>1. /\ NotifyAll(t, "not_empty_", "pop", "idle") /\ queue' = queue
            /\ pc[t] = "notifyEmpty"
        BY <3>7 DEF ShutdownNotifiesEmpty
      <4>2. QED
        <5>1. /\ \A r \in {"not_empty_", "not_full_"} : On(r)' \subseteq On(r)
              /\ \A r \in {"pop", "push"} : On(r) \subseteq On(r)'
          BY <2>0, <4>1, NotifyAllLeavesOthers DEF Points
        <5>2. QED
          BY <2>m, <4>1, <5>1
    <3>8. QED
      BY <2>1, <3>1, <3>2, <3>3, <3>4, <3>5, <3>6, <3>7 DEF Proceed
  <2>2. ASSUME NEW t \in Threads, Begin(t) PROVE Balanced
    <3>1. ASSUME NEW x \in Items, StartPush(t, x) PROVE Balanced
      BY <2>g, <3>1 DEF StartPush
    <3>2. CASE StartPop(t)
      BY <2>g, <3>2 DEF StartPop
    <3>3. ASSUME NEW x \in Items, TryPush(t, x) PROVE Balanced
      <4>1. CASE closed \/ ~HasRoom
        BY <2>u, <3>3, <4>1 DEF TryPush
      <4>2. CASE ~(closed \/ ~HasRoom)
        <5>1. Len(queue') = Len(queue) + 1
          BY <2>0, <3>3, <4>2, AppendType DEF TryPush, Enqueue
        <5>2. QED
          BY <2>p, <3>3, <4>2, <5>1 DEF TryPush, Enqueue
      <4>3. QED
        BY <4>1, <4>2
    <3>4. CASE TryPop(t)
      <4>1. CASE queue = <<>>
        BY <2>u, <3>4, <4>1 DEF TryPop
      <4>2. CASE queue # <<>>
        <5>1. Len(queue') = Len(queue) - 1
          BY <2>0, <3>4, <4>2, TailType DEF TryPop, Dequeue
        <5>2. QED
          BY <2>q, <3>4, <4>2, <5>1 DEF TryPop, Dequeue
      <4>3. QED
        BY <4>1, <4>2
    <3>5. CASE Shutdown(t)
      BY <3>5 DEF Shutdown
    <3>6. QED
      BY <2>2, <3>1, <3>2, <3>3, <3>4, <3>5 DEF Begin
  <2>3. ASSUME NEW t \in Threads, SpuriousWakeup(t) PROVE Balanced
    BY <2>g, <2>3 DEF SpuriousWakeup
  <2>4. CASE UNCHANGED queueVars
    BY <2>u, <2>4 DEF queueVars
  <2>5. QED
    BY <2>1, <2>2, <2>3, <2>4 DEF Next
<1>3. QED
  BY <1>1, <1>2, TypeCorrect, PTL DEF Spec

-----------------------------------------------------------------------------
(* Refinement.                                                             *)

calls == [t \in Threads |-> CallOf(t)]
Asleep == {"not_full_", "not_empty_"}

(* What a thread that goes to a point is doing, for its caller.            *)
callAt == [p \in Points |-> IF p \in {"push", "not_full_"} THEN "push"
                            ELSE IF p \in {"pop", "not_empty_"} THEN "pop" ELSE "none"]

LEMMA CallsByPoint ==
  /\ PcOK => calls = [t \in Threads |-> callAt[pc[t]]]
  /\ PcOK' => calls' = [t \in Threads |-> callAt[pc'[t]]]
BY DEF PcOK, calls, CallOf, callAt

LEMMA GotoCalls ==
  ASSUME PcOK, NEW t \in Threads, NEW p \in Points, Goto(t, p)
  PROVE  calls' = [calls EXCEPT ![t] = callAt[p]]
<1>1. PcOK' /\ pc' = [pc EXCEPT ![t] = p]
  BY DEF PcOK, Goto
<1>2. QED
  BY <1>1, CallsByPoint DEF PcOK

(* Waking a sleeper does not change the call it is in.                     *)
LEMMA NotifyOneCalls ==
  ASSUME PcOK, NEW t \in Threads, NEW cv \in Asleep, NEW p \in Points,
         pc[t] # cv, callAt[cv] = callAt[p], NotifyOneAndReturn(t, cv, p)
  PROVE  calls' = [calls EXCEPT ![t] = "none"]
<1>0. callAt["idle"] = "none" /\ "idle" \in Points
  BY DEF callAt, Points
<1>1. CASE On(cv) = {}
  BY <1>0, <1>1, GotoCalls DEF NotifyOneAndReturn, Goto
<1>2. CASE On(cv) # {}
  <2>1. PICK s \in On(cv) : pc' = [pc EXCEPT ![t] = "idle", ![s] = p]
    BY <1>2 DEF NotifyOneAndReturn
  <2>2. s \in Threads /\ s # t /\ pc[s] = cv
    BY <2>1 DEF On
  <2>3. /\ PcOK' /\ pc'[t] = "idle" /\ callAt[pc'[s]] = callAt[pc[s]]
        /\ \A u \in Threads \ {s, t} : pc'[u] = pc[u]
    BY <1>0, <2>1, <2>2 DEF PcOK
  <2>4. \A u \in Threads \ {t} : callAt[pc'[u]] = callAt[pc[u]]
    BY <2>3
  <2>5. QED
    BY <1>0, <2>3, <2>4, CallsByPoint
<1>3. QED
  BY <1>1, <1>2

LEMMA NotifyAllCalls ==
  ASSUME PcOK, NEW t \in Threads, NEW cv \in Asleep, NEW p \in Points, NEW n \in Points,
         callAt[cv] = callAt[p], callAt[n] = callAt[pc[t]], NotifyAll(t, cv, p, n)
  PROVE  calls' = calls
<1>1. PcOK' /\ \A u \in Threads : callAt[pc'[u]] = callAt[pc[u]]
  BY DEF PcOK, NotifyAll, Asleep, Points
<1>2. QED
  BY <1>1, CallsByPoint

LEMMA CallIs ==
  ASSUME PcOK, NEW t \in Threads
  PROVE  /\ calls[t] = callAt[pc[t]]
         /\ \A p \in Points : callAt[p] = calls[t] => calls = [calls EXCEPT ![t] = callAt[p]]
BY CallsByPoint DEF calls

LEMMA CallAt ==
  /\ callAt["push"] = "push" /\ callAt["not_full_"] = "push"
  /\ callAt["pop"] = "pop" /\ callAt["not_empty_"] = "pop"
  /\ callAt["idle"] = "none" /\ callAt["notifyFull"] = "none" /\ callAt["notifyEmpty"] = "none"
BY DEF callAt, Points

absVars == <<queue, closed, calls, item, ret>>

(* The class is a bounded queue: what the mutex, the two condition         *)
(* variables and the wakeups add to it no caller can see.                  *)
THEOREM RefinesBoundedQueue == Spec => ImplementsBoundedQueue
<1> USE DEF Abstract!Returns, Abstract!Accepted, Abstract!Refused, Accepted, Refused
<1>1. QueueInit => Abstract!Init
  BY DEF QueueInit, Abstract!Init, CallOf
<1>2. TypeOK /\ [Next]_queueVars => [Abstract!Next]_absVars
  <2> SUFFICES ASSUME TypeOK, [Next]_queueVars PROVE Abstract!Next \/ UNCHANGED absVars
    OBVIOUS
  <2>0. PcOK /\ queue \in Seq(Items) /\ Len(queue) \in Nat /\ Len(queue) <= Capacity
    BY DEF TypeOK, PcOK
  <2>f. (HasRoom <=> Len(queue) < Capacity) /\ (~HasRoom <=> Len(queue) = Capacity)
    BY <2>0, CapacityAssumption DEF HasRoom
  <2>p. \A p \in {"push", "pop", "idle", "not_full_", "not_empty_", "notifyFull", "notifyEmpty"} :
          p \in Points
    BY DEF Points
  <2>e. ASSUME NEW t \in Threads, pc[t] \in {"idle", "push"},
               NotifyOneAndReturn(t, "not_empty_", "pop")
        PROVE  calls' = [calls EXCEPT ![t] = "none"]
    BY <2>0, <2>p, <2>e, NotifyOneCalls, CallAt DEF Asleep
  <2>d. ASSUME NEW t \in Threads, pc[t] \in {"idle", "pop"},
               NotifyOneAndReturn(t, "not_full_", "push")
        PROVE  calls' = [calls EXCEPT ![t] = "none"]
    BY <2>0, <2>p, <2>d, NotifyOneCalls, CallAt DEF Asleep
  <2>g. ASSUME NEW t \in Threads, NEW p \in Points, Goto(t, p)
        PROVE  /\ calls' = [calls EXCEPT ![t] = callAt[p]]
               /\ callAt[p] = callAt[pc[t]] => calls' = calls
    BY <2>0, <2>g, GotoCalls, CallIs
  <2>1. ASSUME NEW t \in Threads, Proceed(t) PROVE Abstract!Next \/ UNCHANGED absVars
    <3>1. CASE PushWaits(t) \/ PopWaits(t)
      BY <2>g, <2>p, <3>1, CallAt DEF PushWaits, PopWaits, absVars
    <3>2. CASE PushRefused(t)
      <4>1. calls[t] = "push" /\ calls' = [calls EXCEPT ![t] = "none"]
        BY <2>0, <2>g, <2>p, <3>2, CallIs, CallAt DEF PushRefused
      <4>2. Abstract!Reject(t)
        BY <3>2, <4>1 DEF PushRefused, Returns, Abstract!Reject, calls
      <4>3. QED
        BY <4>2 DEF Abstract!Next
    <3>3. CASE PopRefused(t)
      <4>1. calls[t] = "pop" /\ calls' = [calls EXCEPT ![t] = "none"]
        BY <2>0, <2>g, <2>p, <3>3, CallIs, CallAt DEF PopRefused
      <4>2. Abstract!Drained(t)
        BY <3>3, <4>1 DEF PopRefused, Returns, Abstract!Drained, calls
      <4>3. QED
        BY <4>2 DEF Abstract!Next
    <3>4. CASE PushProceeds(t)
      <4>1. calls[t] = "push" /\ calls' = [calls EXCEPT ![t] = "none"]
        BY <2>0, <2>e, <3>4, CallIs, CallAt DEF PushProceeds, Enqueue
      <4>2. Abstract!Accept(t)
        BY <2>f, <3>4, <4>1 DEF PushProceeds, Enqueue, Returns, Abstract!Accept, calls
      <4>3. QED
        BY <4>2 DEF Abstract!Next
    <3>5. CASE PopProceeds(t)
      <4>1. calls[t] = "pop" /\ calls' = [calls EXCEPT ![t] = "none"]
        BY <2>0, <2>d, <3>5, CallIs, CallAt DEF PopProceeds, Dequeue
      <4>2. Abstract!Take(t)
        BY <3>5, <4>1 DEF PopProceeds, Dequeue, Returns, Abstract!Take, calls
      <4>3. QED
        BY <4>2 DEF Abstract!Next
    <3>6. CASE ShutdownNotifiesFull(t)
      BY <2>0, <2>p, <3>6, NotifyAllCalls, CallAt DEF ShutdownNotifiesFull, Asleep, absVars
    <3>7. CASE ShutdownNotifiesEmpty(t)
      BY <2>0, <2>p, <3>7, NotifyAllCalls, CallAt DEF ShutdownNotifiesEmpty, Asleep, absVars
    <3>8. QED
      BY <2>1, <3>1, <3>2, <3>3, <3>4, <3>5, <3>6, <3>7 DEF Proceed
  <2>2. ASSUME NEW t \in Threads, Begin(t) PROVE Abstract!Next \/ UNCHANGED absVars
    <3>1. ASSUME NEW x \in Items, StartPush(t, x) PROVE Abstract!Next
      <4>1. calls[t] = "none" /\ calls' = [calls EXCEPT ![t] = "push"]
        BY <2>0, <2>g, <2>p, <3>1, CallIs, CallAt DEF StartPush
      <4>2. Abstract!StartPush(t, x)
        BY <3>1, <4>1 DEF StartPush, Abstract!StartPush, calls
      <4>3. QED
        BY <4>2 DEF Abstract!Next
    <3>2. CASE StartPop(t)
      <4>1. calls[t] = "none" /\ calls' = [calls EXCEPT ![t] = "pop"]
        BY <2>0, <2>g, <2>p, <3>2, CallIs, CallAt DEF StartPop
      <4>2. Abstract!StartPop(t)
        BY <3>2, <4>1 DEF StartPop, Abstract!StartPop, calls
      <4>3. QED
        BY <4>2 DEF Abstract!Next
    <3>3. ASSUME NEW x \in Items, TryPush(t, x) PROVE Abstract!Next
      <4>0. calls[t] = "none"
        BY <2>0, <3>3, CallIs, CallAt DEF TryPush
      <4>1. CASE closed \/ ~HasRoom
        <5>1. calls' = calls /\ calls = [calls EXCEPT ![t] = "none"]
          BY <3>3, <4>0, <4>1 DEF TryPush, calls, CallOf
        <5>2. Abstract!TryPush(t, x)
          BY <2>f, <3>3, <4>0, <4>1, <5>1 DEF TryPush, Returns, Abstract!TryPush, calls
        <5>3. QED
          BY <5>2 DEF Abstract!Next
      <4>2. CASE ~(closed \/ ~HasRoom)
        <5>1. calls' = [calls EXCEPT ![t] = "none"]
          BY <2>e, <3>3, <4>2 DEF TryPush, Enqueue
        <5>2. Abstract!TryPush(t, x)
          BY <2>f, <3>3, <4>0, <4>2, <5>1 DEF TryPush, Enqueue, Returns, Abstract!TryPush, calls
        <5>3. QED
          BY <5>2 DEF Abstract!Next
      <4>3. QED
        BY <4>1, <4>2
    <3>4. CASE TryPop(t)
      <4>0. calls[t] = "none"
        BY <2>0, <3>4, CallIs, CallAt DEF TryPop
      <4>1. CASE queue = <<>>
        <5>1. calls' = calls /\ calls = [calls EXCEPT ![t] = "none"]
          BY <3>4, <4>0, <4>1 DEF TryPop, calls, CallOf
        <5>2. Abstract!TryPop(t)
          BY <3>4, <4>0, <4>1, <5>1 DEF TryPop, Returns, Abstract!TryPop, calls
        <5>3. QED
          BY <5>2 DEF Abstract!Next
      <4>2. CASE queue # <<>>
        <5>1. calls' = [calls EXCEPT ![t] = "none"]
          BY <2>d, <3>4, <4>2 DEF TryPop, Dequeue
        <5>2. Abstract!TryPop(t)
          BY <3>4, <4>0, <4>2, <5>1 DEF TryPop, Dequeue, Returns, Abstract!TryPop, calls
        <5>3. QED
          BY <5>2 DEF Abstract!Next
      <4>3. QED
        BY <4>1, <4>2
    <3>5. CASE Shutdown(t)
      <4>1. calls' = calls
        BY <2>g, <2>p, <3>5, CallAt DEF Shutdown
      <4>2. Abstract!Close
        BY <3>5, <4>1 DEF Shutdown, Abstract!Close, calls
      <4>3. QED
        BY <4>2 DEF Abstract!Next
    <3>6. QED
      BY <2>2, <3>1, <3>2, <3>3, <3>4, <3>5 DEF Begin
  <2>3. ASSUME NEW t \in Threads, SpuriousWakeup(t) PROVE UNCHANGED absVars
    BY <2>g, <2>p, <2>3, CallAt DEF SpuriousWakeup, absVars
  <2>4. CASE UNCHANGED queueVars
    BY <2>4 DEF queueVars, absVars, calls, CallOf
  <2>5. QED
    BY <2>1, <2>2, <2>3, <2>4 DEF Next
<1>3. QED
  BY <1>1, <1>2, TypeCorrect, PTL
     DEF Spec, ImplementsBoundedQueue, Abstract!Spec, absVars, calls

-----------------------------------------------------------------------------
(* The program.  What its threads hold between them: the frames that have  *)
(* gone into the queue are those that are handled, still queued, or in the *)
(* hands of a consumer that has not counted its frame yet, each once.      *)

\* A consumer has popped a frame and not counted it, a producer has pushed
\* one and not counted it, a consumer has been refused.
Got(c) == at[c] = "popped" /\ pc[c] = "idle" /\ ret[c] = Accepted
Put(p) == at[p] = "pushed" /\ pc[p] = "idle"
Dismissed(c) == at[c] = "done" \/ (at[c] = "popped" /\ pc[c] = "idle" /\ ret[c] # Accepted)

ProgramOK ==
  /\ at \in [Threads -> {"push", "pushed", "pop", "popped", "joinProducers", "shutdown",
                         "joinConsumers", "done"}]
  /\ sent \in [Producers -> 0 .. Frames]
  /\ handled \subseteq Items

ProducerInv == \A p \in Producers :
  /\ at[p] \in {"push", "pushed", "done"}
  /\ pc[p] \in {"idle", "push", "not_full_"}
  /\ at[p] # "pushed" => pc[p] = "idle"
  /\ sent[p] < Frames <=> at[p] # "done"
  /\ at[p] = "pushed" => item[p] = <<p, sent[p]>>
  /\ Put(p) => ret[p] = Accepted

ConsumerInv == \A c \in Consumers :
  /\ at[c] \in {"pop", "popped", "done"}
  /\ pc[c] \in {"idle", "pop", "not_empty_"}
  /\ at[c] # "popped" => pc[c] = "idle"
  /\ Dismissed(c) => closed /\ queue = <<>>

MainInv ==
  /\ at[Main] \in {"joinProducers", "shutdown", "joinConsumers", "done"}
  /\ pc[Main] \in {"idle", "notifyFull", "notifyEmpty"}
  /\ at[Main] \in {"joinProducers", "shutdown"} => pc[Main] = "idle" /\ ~closed
  /\ at[Main] \in {"joinConsumers", "done"} => closed
  /\ at[Main] # "joinProducers" => \A p \in Producers : at[p] = "done"
  /\ at[Main] = "done" => \A c \in Consumers : at[c] = "done"

Control == TypeOK /\ ProgramOK /\ ProducerInv /\ ConsumerInv /\ MainInv

Queued == {queue[i] : i \in 1 .. Len(queue)}
Held == {item[c] : c \in {d \in Consumers : Got(d)}}
Sent == {x \in Items : x[2] < sent[x[1]]}
Entered == Sent \cup {x \in Items : x[2] = sent[x[1]] /\ Put(x[1])}

QueuedOnce == \A i, j \in 1 .. Len(queue) : queue[i] = queue[j] => i = j
Apart == Queued \cap handled = {}
HeldOnce ==
  \A c \in Consumers : Got(c) =>
    /\ item[c] \notin handled \cup Queued
    /\ \A d \in Consumers : Got(d) /\ item[c] = item[d] => c = d
NothingLost == Entered = handled \cup Queued \cup Held
Counts == produced = Cardinality(Sent) /\ consumed = Cardinality(handled)

Location == QueuedOnce /\ Apart /\ HeldOnce /\ NothingLost /\ Counts

DemoInv == Control /\ Location

-----------------------------------------------------------------------------
(* Who is who.                                                             *)
LEMMA Roles ==
  /\ Producers \subseteq Threads /\ Consumers \subseteq Threads /\ Main \in Threads
  /\ \A p \in Producers : p \notin Consumers /\ p # Main
  /\ \A c \in Consumers : c \notin Producers /\ c # Main
  /\ \A t \in Threads : t \in Producers \/ t \in Consumers \/ t = Main
  /\ IsFiniteSet(Producers) /\ IsFiniteSet(Consumers)
BY ProgramAssumption, ThreadsAssumption, FS_Subset

LEMMA ItemsFinite == IsFiniteSet(Items)
<1>1. IsFiniteSet(0 .. Frames - 1)
  BY ProgramAssumption, FS_Interval
<1>2. QED
  BY <1>1, Roles, ProgramAssumption, FS_Product

(* What a step does to the other threads: some are woken.                  *)
Awakened(u) ==
  \/ pc'[u] = pc[u]
  \/ pc[u] = "not_full_" /\ pc'[u] = "push"
  \/ pc[u] = "not_empty_" /\ pc'[u] = "pop"

Moves(t, n) ==
  /\ pc' \in [Threads -> Points]
  /\ pc'[t] = n
  /\ \A u \in Threads \ {t} : Awakened(u)

LEMMA GotoMoves ==
  ASSUME PcOK, NEW t \in Threads, NEW n \in Points, Goto(t, n)
  PROVE  Moves(t, n) /\ \A u \in Threads \ {t} : pc'[u] = pc[u]
BY DEF PcOK, Goto, Moves, Awakened

LEMMA NotifyOneMoves ==
  ASSUME PcOK, NEW t \in Threads,
         \/ NotifyOneAndReturn(t, "not_empty_", "pop") /\ pc[t] # "not_empty_"
         \/ NotifyOneAndReturn(t, "not_full_", "push") /\ pc[t] # "not_full_"
  PROVE  Moves(t, "idle")
BY DEF PcOK, NotifyOneAndReturn, Moves, Awakened, On, Points

LEMMA NotifyAllMoves ==
  ASSUME PcOK, NEW t \in Threads, NEW n \in Points,
         NotifyAll(t, "not_empty_", "pop", n) \/ NotifyAll(t, "not_full_", "push", n)
  PROVE  Moves(t, n)
BY DEF PcOK, NotifyAll, Moves, Awakened, Points

LEMMA InitControl == Init => Control
<1> SUFFICES ASSUME Init PROVE Control
  OBVIOUS
<1>1. Items # {}
  <2>1. PICK p \in Producers : TRUE
    BY ProgramAssumption
  <2>2. <<p, 0>> \in Items
    BY ProgramAssumption
  <2>3. QED
    BY <2>2
<1>2. (CHOOSE x \in Items : TRUE) \in Items
  BY <1>1
<1>3. QueueInit
  BY <1>2 DEF Init, QueueInit
<1>4. TypeOK
  BY <1>3, TypeInit
<1>5. /\ \A p \in Producers : at[p] = "push"
      /\ \A c \in Consumers : at[c] = "pop"
      /\ at[Main] = "joinProducers"
  BY Roles DEF Init
<1>6. ProgramOK
  <2>1. at \in [Threads -> {"push", "pop", "joinProducers"}]
    BY <1>5, Roles DEF Init
  <2>2. QED
    BY <2>1, ProgramAssumption DEF Init, ProgramOK
<1>7. ProducerInv /\ ConsumerInv /\ MainInv
  BY <1>5, Roles, ProgramAssumption
     DEF Init, ProducerInv, ConsumerInv, MainInv, Put, Dismissed
<1>8. QED
  BY <1>4, <1>6, <1>7 DEF Control

LEMMA InitLocation == Init => Location
<1> SUFFICES ASSUME Init PROVE Location
  OBVIOUS
<1>1. \A p \in Producers : at[p] = "push" /\ sent[p] = 0
  BY Roles DEF Init
<1>2. \A c \in Consumers : at[c] = "pop"
  BY Roles DEF Init
<1>3. \A x \in Items : x[1] \in Producers /\ x[2] \in Nat
  BY ProgramAssumption
<1>4. Sent = {} /\ Entered = {}
  BY <1>1, <1>3 DEF Sent, Entered, Put
<1>5. Held = {} /\ \A c \in Consumers : ~Got(c)
  BY <1>2 DEF Held, Got
<1>6. Queued = {} /\ handled = {} /\ Len(queue) = 0
  BY DEF Queued, Init
<1>7. Counts
  BY <1>4, <1>6, FS_EmptySet DEF Init, Counts
<1>8. QED
  BY <1>4, <1>5, <1>6, <1>7
     DEF Location, QueuedOnce, Apart, HeldOnce, NothingLost, Counts

-----------------------------------------------------------------------------
(* Every step of the program is a step of the class.                       *)
LEMMA RunIsNext == Control /\ [Run]_vars => [Next]_queueVars
<1> SUFFICES ASSUME Control, [Run]_vars PROVE [Next]_queueVars
  OBVIOUS
<1>1. ASSUME NEW t \in Threads, InQueue(t) \/ Wakes(t) PROVE Next
  BY <1>1 DEF InQueue, Wakes, Next
<1>2. ASSUME NEW p \in Producers, ProducerPushes(p) PROVE Next
  <2>1. <<p, sent[p]>> \in Items
    BY <1>2, ProgramAssumption DEF Control, ProgramOK, ProducerInv, ProducerPushes
  <2>2. StartPush(p, <<p, sent[p]>>) /\ p \in Threads
    BY <1>2, Roles DEF ProducerPushes
  <2>3. QED
    BY <2>1, <2>2 DEF Next, Begin
<1>3. ASSUME NEW c \in Consumers, ConsumerPops(c) PROVE Next
  BY <1>3, Roles DEF ConsumerPops, Next, Begin
<1>4. ASSUME ShutdownQueue PROVE Next
  BY <1>4, Roles DEF ShutdownQueue, Next, Begin
<1>5. ASSUME NEW t \in Threads,
             ProducerReturns(t) \/ ConsumerCounts(t) \/ ConsumerEnds(t) \/ JoinProducers \/ JoinConsumers
      PROVE  UNCHANGED queueVars
  BY <1>5 DEF ProducerReturns, ConsumerCounts, ConsumerEnds, JoinProducers, JoinConsumers
<1>6. CASE UNCHANGED vars
  BY <1>6 DEF vars
<1>7. QED
  BY <1>1, <1>2, <1>3, <1>4, <1>5, <1>6 DEF Run, Step

(* A step inside the queue that returns nothing and changes no data leaves *)
(* everything where it is.                                                 *)
Quiet(t) ==
  /\ UNCHANGED <<queue, closed, item, ret, program>>
  /\ \/ t \in Producers /\ pc[t] \in {"push", "not_full_"} /\ pc'[t] \in {"push", "not_full_"}
     \/ t \in Consumers /\ pc[t] \in {"pop", "not_empty_"} /\ pc'[t] \in {"pop", "not_empty_"}
     \/ t = Main /\ pc[t] \in {"notifyFull", "notifyEmpty"} /\ pc'[t] \in {"notifyEmpty", "idle"}
  /\ Moves(t, pc'[t])

LEMMA QuietControl ==
  ASSUME Control, TypeOK', NEW t \in Threads, Quiet(t)
  PROVE  Control'
<1>1. UNCHANGED <<queue, closed, item, ret, at, sent, handled>>
  BY DEF Quiet, program
<1>2. ProgramOK'
  BY <1>1 DEF Control, ProgramOK
<1>3. ProducerInv'
  <2> SUFFICES ASSUME NEW p \in Producers
               PROVE  /\ pc'[p] \in {"idle", "push", "not_full_"}
                      /\ pc'[p] = "idle" <=> pc[p] = "idle"
    BY <1>1 DEF Control, ProducerInv, Put
  <2> QED
    BY Roles DEF Control, ProducerInv, Quiet, Moves, Awakened
<1>4. ConsumerInv'
  <2> SUFFICES ASSUME NEW c \in Consumers
               PROVE  /\ pc'[c] \in {"idle", "pop", "not_empty_"}
                      /\ pc'[c] = "idle" <=> pc[c] = "idle"
    BY <1>1 DEF Control, ConsumerInv, Dismissed
  <2> QED
    BY Roles DEF Control, ConsumerInv, Quiet, Moves, Awakened
<1>5. MainInv'
  <2>1. pc'[Main] \in {"idle", "notifyFull", "notifyEmpty"} /\ (pc[Main] = "idle" => pc'[Main] = "idle")
    BY Roles DEF Control, MainInv, Quiet, Moves, Awakened
  <2>2. QED
    BY <1>1, <2>1 DEF Control, MainInv
<1>6. QED
  BY <1>2, <1>3, <1>4, <1>5 DEF Control

LEMMA QueueIsQuiet ==
  ASSUME Control, NEW t \in Threads,
         \/ (PushWaits(t) \/ PopWaits(t) \/ ShutdownNotifiesFull(t) \/ ShutdownNotifiesEmpty(t)) /\ UNCHANGED program
         \/ Wakes(t)
  PROVE  Quiet(t)
<1>0. PcOK /\ \A p \in {"push", "pop", "idle", "not_full_", "not_empty_", "notifyFull", "notifyEmpty"} : p \in Points
  BY DEF Control, TypeOK, PcOK, Points
<1>1. /\ t \in Producers => pc[t] \in {"idle", "push", "not_full_"}
      /\ t \in Consumers => pc[t] \in {"idle", "pop", "not_empty_"}
      /\ t = Main => pc[t] \in {"idle", "notifyFull", "notifyEmpty"}
  BY DEF Control, ProducerInv, ConsumerInv, MainInv
<1>2. CASE (PushWaits(t) \/ PopWaits(t)) /\ UNCHANGED program
  <2>1. Moves(t, pc'[t]) /\ pc'[t] \in {"not_full_", "not_empty_"} /\ (pc[t] = "push" <=> pc'[t] = "not_full_")
    BY <1>0, <1>2, GotoMoves DEF PushWaits, PopWaits, Moves
  <2>2. QED
    BY <1>1, <1>2, <2>1, Roles DEF PushWaits, PopWaits, Quiet
<1>3. CASE ShutdownNotifiesFull(t) /\ UNCHANGED program
  <2>1. Moves(t, "notifyEmpty") /\ pc[t] = "notifyFull"
    BY <1>0, <1>3, NotifyAllMoves DEF ShutdownNotifiesFull
  <2>2. QED
    BY <1>1, <1>3, <2>1, Roles DEF ShutdownNotifiesFull, Quiet, Moves
<1>4. CASE ShutdownNotifiesEmpty(t) /\ UNCHANGED program
  <2>1. Moves(t, "idle") /\ pc[t] = "notifyEmpty"
    BY <1>0, <1>4, NotifyAllMoves DEF ShutdownNotifiesEmpty
  <2>2. QED
    BY <1>1, <1>4, <2>1, Roles DEF ShutdownNotifiesEmpty, Quiet, Moves
<1>5. CASE Wakes(t)
  <2>1. \/ pc[t] = "not_full_" /\ Moves(t, "push")
        \/ pc[t] = "not_empty_" /\ Moves(t, "pop")
    BY <1>0, <1>5, GotoMoves DEF Wakes, SpuriousWakeup
  <2>2. QED
    BY <1>1, <1>5, <2>1, Roles DEF Wakes, SpuriousWakeup, Quiet, Moves
<1>6. QED
  BY <1>2, <1>3, <1>4, <1>5

(* What is kept of the others by a step of t that moves and wakes.         *)
LEMMA OthersKept ==
  ASSUME Control, NEW t \in Threads, Moves(t, pc'[t])
  PROVE  /\ \A p \in Producers \ {t} : /\ pc'[p] \in {"idle", "push", "not_full_"}
                                       /\ pc'[p] = "idle" <=> pc[p] = "idle"
         /\ \A c \in Consumers \ {t} : /\ pc'[c] \in {"idle", "pop", "not_empty_"}
                                       /\ pc'[c] = "idle" <=> pc[c] = "idle"
         /\ t # Main => pc'[Main] = pc[Main]
<1>1. \A p \in Producers \ {t} : Awakened(p) /\ pc[p] \in {"idle", "push", "not_full_"}
  BY Roles DEF Moves, Control, ProducerInv
<1>2. \A c \in Consumers \ {t} : Awakened(c) /\ pc[c] \in {"idle", "pop", "not_empty_"}
  BY Roles DEF Moves, Control, ConsumerInv
<1>3. t # Main => Awakened(Main) /\ pc[Main] \in {"idle", "notifyFull", "notifyEmpty"}
  BY Roles DEF Moves, Control, MainInv
<1>4. QED
  BY <1>1, <1>2, <1>3 DEF Awakened

\* Where the steps of the calls go, and what they find.
LEMMA PushProceedsMoves ==
  ASSUME Control, NEW t \in Threads, PushProceeds(t)
  PROVE  /\ t \in Producers /\ at[t] = "pushed" /\ pc[t] = "push"
         /\ ~closed /\ queue' = Append(queue, item[t]) /\ ret' = [ret EXCEPT ![t] = Accepted]
         /\ UNCHANGED <<closed, item>>
         /\ Moves(t, "idle")
<1>1. PcOK
  BY DEF Control, TypeOK, PcOK
<1>2. Moves(t, "idle")
  BY <1>1, NotifyOneMoves DEF PushProceeds, Enqueue
<1>3. t \in Producers /\ at[t] = "pushed"
  BY Roles DEF PushProceeds, Control, ProducerInv, ConsumerInv, MainInv
<1>4. QED
  BY <1>2, <1>3 DEF PushProceeds, Enqueue, Returns

LEMMA PopProceedsMoves ==
  ASSUME Control, NEW t \in Threads, PopProceeds(t)
  PROVE  /\ t \in Consumers /\ at[t] = "popped" /\ pc[t] = "pop"
         /\ queue # <<>> /\ queue' = Tail(queue) /\ ret' = [ret EXCEPT ![t] = Accepted]
         /\ item' = [item EXCEPT ![t] = Head(queue)]
         /\ UNCHANGED closed
         /\ Moves(t, "idle")
<1>1. PcOK
  BY DEF Control, TypeOK, PcOK
<1>2. Moves(t, "idle")
  BY <1>1, NotifyOneMoves DEF PopProceeds, Dequeue
<1>3. t \in Consumers /\ at[t] = "popped"
  BY Roles DEF PopProceeds, Control, ProducerInv, ConsumerInv, MainInv
<1>4. QED
  BY <1>2, <1>3 DEF PopProceeds, Dequeue, Returns

LEMMA PopRefusedMoves ==
  ASSUME Control, NEW t \in Threads, PopRefused(t)
  PROVE  /\ t \in Consumers /\ at[t] = "popped" /\ pc[t] = "pop"
         /\ closed /\ queue = <<>> /\ ret' = [ret EXCEPT ![t] = Refused]
         /\ UNCHANGED <<queue, closed, item>>
         /\ Moves(t, "idle")
<1>1. PcOK /\ "idle" \in Points
  BY DEF Control, TypeOK, PcOK, Points
<1>2. Moves(t, "idle")
  BY <1>1, GotoMoves DEF PopRefused
<1>3. t \in Consumers /\ at[t] = "popped"
  BY Roles DEF PopRefused, Control, ProducerInv, ConsumerInv, MainInv
<1>4. QED
  BY <1>2, <1>3 DEF PopRefused, Returns

(* Nobody's push is refused: the queue is shut down after the producers.   *)
LEMMA NoPushRefused ==
  ASSUME Control, NEW t \in Threads, PushRefused(t)
  PROVE  FALSE
<1>1. t \in Producers /\ at[t] = "pushed"
  BY Roles DEF PushRefused, Control, ProducerInv, ConsumerInv, MainInv
<1>2. closed
  BY DEF PushRefused
<1>3. QED
  BY <1>1, <1>2 DEF Control, MainInv

LEMMA CallControl ==
  ASSUME Control, TypeOK', NEW t \in Threads,
         PushProceeds(t) \/ PopProceeds(t) \/ PopRefused(t), UNCHANGED program
  PROVE  Control'
<1>0. ret \in [Threads -> {"none", Accepted, Refused}] /\ item \in [Threads -> Items]
  BY DEF Control, TypeOK
<1>p. UNCHANGED <<at, sent, handled>>
  BY DEF program
<1>1. ProgramOK'
  BY <1>p DEF Control, ProgramOK
<1>2. CASE PushProceeds(t)
  <2>1. /\ t \in Producers /\ at[t] = "pushed" /\ pc[t] = "push"
        /\ ~closed /\ ret' = [ret EXCEPT ![t] = Accepted]
        /\ UNCHANGED <<closed, item>>
        /\ Moves(t, "idle") /\ pc'[t] = "idle" /\ Moves(t, pc'[t])
    BY <1>2, PushProceedsMoves DEF Moves
  <2>2. ProducerInv'
    BY <1>0, <1>p, <2>1, OthersKept, Roles DEF Control, ProducerInv, Put
  <2>3. ConsumerInv'
    BY <1>0, <1>p, <2>1, OthersKept, Roles DEF Control, ConsumerInv, Dismissed
  <2>4. MainInv'
    BY <1>0, <1>p, <2>1, OthersKept, Roles DEF Control, MainInv
  <2>5. QED
    BY <1>1, <2>2, <2>3, <2>4 DEF Control
<1>3. CASE PopProceeds(t)
  <2>1. /\ t \in Consumers /\ at[t] = "popped" /\ pc[t] = "pop"
        /\ queue # <<>> /\ ret' = [ret EXCEPT ![t] = Accepted]
        /\ item' = [item EXCEPT ![t] = Head(queue)]
        /\ UNCHANGED closed
        /\ Moves(t, "idle") /\ pc'[t] = "idle" /\ Moves(t, pc'[t])
    BY <1>3, PopProceedsMoves DEF Moves
  <2>2. ProducerInv'
    BY <1>0, <1>p, <2>1, OthersKept, Roles DEF Control, ProducerInv, Put
  <2>3. ConsumerInv'
    BY <1>0, <1>p, <2>1, OthersKept, Roles DEF Control, ConsumerInv, Dismissed
  <2>4. MainInv'
    BY <1>0, <1>p, <2>1, OthersKept, Roles DEF Control, MainInv
  <2>5. QED
    BY <1>1, <2>2, <2>3, <2>4 DEF Control
<1>4. CASE PopRefused(t)
  <2>1. /\ t \in Consumers /\ at[t] = "popped" /\ pc[t] = "pop"
        /\ closed /\ queue = <<>> /\ ret' = [ret EXCEPT ![t] = Refused]
        /\ UNCHANGED <<queue, closed, item>>
        /\ Moves(t, "idle") /\ pc'[t] = "idle" /\ Moves(t, pc'[t])
    BY <1>4, PopRefusedMoves DEF Moves
  <2>2. ProducerInv'
    BY <1>0, <1>p, <2>1, OthersKept, Roles DEF Control, ProducerInv, Put
  <2>3. ConsumerInv'
    BY <1>0, <1>p, <2>1, OthersKept, Roles DEF Control, ConsumerInv, Dismissed
  <2>4. MainInv'
    BY <1>0, <1>p, <2>1, OthersKept, Roles DEF Control, MainInv
  <2>5. QED
    BY <1>1, <2>2, <2>3, <2>4 DEF Control
<1>5. QED
  BY <1>2, <1>3, <1>4

LEMMA ProducerControl ==
  ASSUME Control, TypeOK', NEW p \in Producers, ProducerPushes(p) \/ ProducerReturns(p)
  PROVE  Control'
<1>0. /\ PcOK /\ "push" \in Points /\ item \in [Threads -> Items]
      /\ at \in [Threads -> {"push", "pushed", "pop", "popped", "joinProducers", "shutdown",
                             "joinConsumers", "done"}]
      /\ sent \in [Producers -> 0 .. Frames] /\ p \in Threads
  BY Roles DEF Control, TypeOK, PcOK, ProgramOK, Points
<1>1. CASE ProducerPushes(p)
  <2>1. /\ at[p] = "push" /\ at' = [at EXCEPT ![p] = "pushed"]
        /\ pc' = [pc EXCEPT ![p] = "push"] /\ item' = [item EXCEPT ![p] = <<p, sent[p]>>]
        /\ UNCHANGED <<queue, closed, ret, sent, handled>>
    BY <1>1 DEF ProducerPushes, StartPush, Goto, GoesTo
  <2>2. ProgramOK'
    BY <1>0, <2>1 DEF Control, ProgramOK
  <2>3. ProducerInv'
    BY <1>0, <2>1, Roles DEF Control, PcOK, ProducerInv, Put
  <2>4. ConsumerInv'
    BY <1>0, <2>1, Roles DEF Control, PcOK, ConsumerInv, Dismissed
  <2>5. MainInv'
    BY <1>0, <2>1, Roles DEF Control, PcOK, ProducerInv, MainInv
  <2>6. QED
    BY <2>2, <2>3, <2>4, <2>5 DEF Control
<1>2. CASE ProducerReturns(p)
  <2>1. at[p] = "pushed" /\ pc[p] = "idle" /\ ret[p] = Accepted /\ sent[p] < Frames
    BY <1>2 DEF ProducerReturns, Returned, Control, ProducerInv, Put
  <2>2. /\ at' = [at EXCEPT ![p] = IF sent[p] + 1 < Frames THEN "push" ELSE "done"]
        /\ sent' = [sent EXCEPT ![p] = sent[p] + 1]
        /\ UNCHANGED <<queue, closed, pc, ret, item, handled>>
    BY <1>2, <2>1 DEF ProducerReturns, GoesTo, queueVars
  <2>3. sent[p] + 1 \in 0 .. Frames /\ Frames \in Nat
    BY <1>0, <2>1, ProgramAssumption
  <2>4. ProgramOK'
    BY <1>0, <2>2, <2>3 DEF Control, ProgramOK
  <2>5. ProducerInv'
    <3> SUFFICES ASSUME NEW q \in Producers
                 PROVE  /\ at'[q] \in {"push", "pushed", "done"}
                        /\ at'[q] # "pushed" => pc[q] = "idle"
                        /\ sent'[q] < Frames <=> at'[q] # "done"
                        /\ at'[q] = "pushed" => item[q] = <<q, sent'[q]>> /\ (pc[q] = "idle" => ret[q] = Accepted)
      BY <2>2 DEF Control, ProducerInv, Put
    <3>1. CASE q = p
      BY <1>0, <2>1, <2>2, <2>3, <3>1
    <3>2. CASE q # p
      BY <1>0, <2>2, <3>2, Roles DEF Control, ProducerInv, Put
    <3>3. QED
      BY <3>1, <3>2
  <2>6. ConsumerInv'
    BY <1>0, <2>2, Roles DEF Control, PcOK, ConsumerInv, Dismissed
  <2>7. MainInv'
    BY <1>0, <2>1, <2>2, Roles DEF Control, PcOK, ProducerInv, MainInv
  <2>8. QED
    BY <2>4, <2>5, <2>6, <2>7 DEF Control
<1>3. QED
  BY <1>1, <1>2

LEMMA ConsumerControl ==
  ASSUME Control, TypeOK', NEW c \in Consumers, ConsumerPops(c) \/ ConsumerCounts(c) \/ ConsumerEnds(c)
  PROVE  Control'
<1>0. /\ PcOK /\ "pop" \in Points /\ item \in [Threads -> Items]
      /\ at \in [Threads -> {"push", "pushed", "pop", "popped", "joinProducers", "shutdown",
                             "joinConsumers", "done"}]
      /\ c \in Threads
  BY Roles DEF Control, TypeOK, PcOK, ProgramOK, Points
<1>1. PICK n \in {"pop", "popped", "done"} :
        /\ at' = [at EXCEPT ![c] = n] /\ at[c] \in {"pop", "popped"}
        /\ pc' = [pc EXCEPT ![c] = IF n = "popped" THEN "pop" ELSE "idle"]
        /\ UNCHANGED <<queue, closed, ret, item, sent>>
        /\ n = "done" => at[c] = "popped" /\ pc[c] = "idle" /\ ret[c] # Accepted
  <2>1. CASE ConsumerPops(c)
    BY <1>0, <2>1 DEF ConsumerPops, StartPop, Goto, GoesTo
  <2>2. CASE ConsumerCounts(c)
    BY <1>0, <2>2 DEF ConsumerCounts, GoesTo, Returned, queueVars, PcOK
  <2>3. CASE ConsumerEnds(c)
    BY <1>0, <2>3 DEF ConsumerEnds, GoesTo, Returned, queueVars, PcOK, Accepted, Refused
  <2>4. QED
    BY <2>1, <2>2, <2>3
<1>2. handled' \subseteq Items
  BY <1>0 DEF Control, ProgramOK, ConsumerPops, ConsumerCounts, ConsumerEnds
<1>3. ProgramOK'
  BY <1>0, <1>1, <1>2 DEF Control, ProgramOK
<1>4. ProducerInv'
  BY <1>0, <1>1, Roles DEF Control, PcOK, ProducerInv, Put
<1>5. ConsumerInv'
  BY <1>0, <1>1, Roles DEF Control, PcOK, ConsumerInv, Dismissed
<1>6. MainInv'
  BY <1>0, <1>1, Roles DEF Control, PcOK, ConsumerInv, MainInv
<1>7. QED
  BY <1>3, <1>4, <1>5, <1>6 DEF Control

LEMMA MainControl ==
  ASSUME Control, TypeOK', JoinProducers \/ ShutdownQueue \/ JoinConsumers
  PROVE  Control'
<1>0. /\ PcOK /\ "notifyFull" \in Points
      /\ at \in [Threads -> {"push", "pushed", "pop", "popped", "joinProducers", "shutdown",
                             "joinConsumers", "done"}]
      /\ Main \in Threads
  BY Roles DEF Control, TypeOK, PcOK, ProgramOK, Points
<1>1. PICK n \in {"shutdown", "joinConsumers", "done"} :
        /\ at' = [at EXCEPT ![Main] = n]
        /\ pc' = [pc EXCEPT ![Main] = IF n = "joinConsumers" THEN "notifyFull" ELSE "idle"]
        /\ UNCHANGED <<queue, ret, item, sent, handled>>
        /\ closed' = IF n = "shutdown" THEN closed ELSE TRUE
        /\ \A p \in Producers : at[p] = "done"
        /\ n = "shutdown" => at[Main] = "joinProducers"
        /\ n = "done" => \A c \in Consumers : at[c] = "done"
  <2>1. CASE JoinProducers
    BY <1>0, <2>1 DEF Control, MainInv, JoinProducers, GoesTo, queueVars, PcOK
  <2>2. CASE ShutdownQueue
    BY <1>0, <2>2 DEF Control, MainInv, ShutdownQueue, Shutdown, Goto, GoesTo
  <2>3. CASE JoinConsumers
    <3>1. closed /\ pc[Main] = "idle"
      <4>1. \E c \in Consumers : Dismissed(c)
        BY <2>3, ProgramAssumption DEF JoinConsumers, Dismissed
      <4>2. QED
        BY <2>3, <4>1 DEF Control, ConsumerInv, JoinConsumers, Returned
    <3>2. closed' = TRUE
      BY <2>3, <3>1 DEF Control, TypeOK, JoinConsumers, queueVars
    <3>3. QED
      BY <1>0, <2>3, <3>1, <3>2 DEF Control, MainInv, JoinConsumers, GoesTo, queueVars, PcOK
  <2>4. QED
    BY <2>1, <2>2, <2>3
<1>2. ProgramOK'
  BY <1>0, <1>1 DEF Control, ProgramOK
<1>3. ProducerInv'
  BY <1>0, <1>1, Roles DEF Control, PcOK, ProducerInv, Put
<1>4. ConsumerInv'
  BY <1>0, <1>1, Roles DEF Control, PcOK, ConsumerInv, Dismissed
<1>5. MainInv'
  BY <1>0, <1>1, Roles DEF Control, PcOK, MainInv
<1>6. QED
  BY <1>2, <1>3, <1>4, <1>5 DEF Control

-----------------------------------------------------------------------------
(* Where the frames are.                                                   *)

LEMMA LocationKept ==
  ASSUME Location, UNCHANGED <<queue, sent, handled, produced, consumed>>,
         \A p \in Producers : Put(p)' <=> Put(p),
         \A c \in Consumers : (Got(c)' <=> Got(c)) /\ (Got(c) => item'[c] = item[c])
  PROVE  Location'
<1>1. Queued' = Queued /\ Sent' = Sent
  BY DEF Queued, Sent
<1>2. Entered' = Entered
  <2>1. \A x \in Items : x[1] \in Producers
    BY ProgramAssumption
  <2>2. QED
    BY <1>1, <2>1 DEF Entered
<1>3. Held' = Held
  BY DEF Held
<1>4. HeldOnce'
  BY <1>1 DEF Location, HeldOnce
<1>5. QED
  BY <1>1, <1>2, <1>3, <1>4 DEF Location, QueuedOnce, Apart, NothingLost, Counts

LEMMA QuietLocation ==
  ASSUME Control, Location, NEW t \in Threads, Quiet(t)
  PROVE  Location'
<1>1. \A p \in Producers : pc'[p] = "idle" <=> pc[p] = "idle"
  BY OthersKept, Roles DEF Quiet
<1>2. \A c \in Consumers : pc'[c] = "idle" <=> pc[c] = "idle"
  BY OthersKept, Roles DEF Quiet
<1>3. QED
  BY <1>1, <1>2, LocationKept DEF Quiet, program, Put, Got

LEMMA RefusedLocation ==
  ASSUME Control, Location, NEW t \in Threads, PopRefused(t), UNCHANGED program
  PROVE  Location'
<1>1. /\ t \in Consumers /\ pc[t] = "pop" /\ ret'[t] = Refused /\ Moves(t, pc'[t])
      /\ \A c \in Threads \ {t} : ret'[c] = ret[c]
      /\ UNCHANGED <<queue, item>>
  BY PopRefusedMoves DEF Control, TypeOK, Moves
<1>2. \A p \in Producers : pc'[p] = "idle" <=> pc[p] = "idle"
  BY <1>1, OthersKept, Roles
<1>3. \A c \in Consumers \ {t} : pc'[c] = "idle" <=> pc[c] = "idle"
  BY <1>1, OthersKept
<1>4. ~Got(t) /\ ~Got(t)'
  BY <1>1 DEF Got, Accepted, Refused
<1>5. QED
  BY <1>1, <1>2, <1>3, <1>4, LocationKept, Roles DEF program, Put, Got

(* A push: the frame joins the queue, and no frame was put in before it.   *)
LEMMA PushLocation ==
  ASSUME Control, Location, NEW t \in Threads, PushProceeds(t), UNCHANGED program
  PROVE  Location'
<1> DEFINE x == <<t, sent[t]>>
<1>1. /\ t \in Producers /\ at[t] = "pushed" /\ pc[t] = "push" /\ item[t] = x
      /\ queue' = Append(queue, x) /\ pc'[t] = "idle" /\ Moves(t, pc'[t])
      /\ \A c \in Threads \ {t} : ret'[c] = ret[c]
      /\ UNCHANGED item
  BY PushProceedsMoves DEF Control, ProducerInv, TypeOK, Moves
<1>2. x \in Items /\ queue \in Seq(Items)
  BY <1>1, ProgramAssumption DEF Control, TypeOK, ProgramOK, ProducerInv
<1>3. \A p \in Producers \ {t} : Put(p)' <=> Put(p)
  BY <1>1, OthersKept DEF Put, program
<1>4. ~Put(t) /\ Put(t)'
  BY <1>1 DEF Put, program
<1>5. \A c \in Consumers : Got(c)' <=> Got(c)
  BY <1>1, OthersKept, Roles DEF Got, program
<1>6. Sent' = Sent /\ Entered' = Entered \cup {x} /\ x \notin Entered
  <2>1. \A y \in Items : y[1] \in Producers /\ y = <<y[1], y[2]>>
    BY ProgramAssumption
  <2>2. Sent' = Sent
    BY DEF program, Sent
  <2>3. \A y \in Items : y[2] = sent[y[1]] /\ Put(y[1])' <=> y = x \/ (y[2] = sent[y[1]] /\ Put(y[1]))
    BY <1>1, <1>2, <1>3, <1>4, <2>1
  <2>4. x \notin Entered
    BY <1>2, <1>4, <1>1 DEF Entered, Sent, Control, ProgramOK
  <2>5. QED
    BY <1>2, <2>2, <2>3, <2>4 DEF Entered, program
<1>7. /\ Len(queue') = Len(queue) + 1 /\ Len(queue) \in Nat
      /\ \A i \in 1 .. Len(queue) : queue'[i] = queue[i]
      /\ queue'[Len(queue) + 1] = x
  BY <1>1, <1>2
<1>8. Queued' = Queued \cup {x}
  <2>1. \A i \in 1 .. Len(queue) + 1 : i \in 1 .. Len(queue) \/ i = Len(queue) + 1
    BY <1>7
  <2>2. 1 .. Len(queue) \subseteq 1 .. Len(queue) + 1 /\ Len(queue) + 1 \in 1 .. Len(queue) + 1
    BY <1>7
  <2>3. QED
    BY <1>7, <2>1, <2>2 DEF Queued
<1>9. Held' = Held /\ handled' = handled /\ produced' = produced /\ consumed' = consumed
  BY <1>1, <1>5 DEF Held, program
<1>10. x \notin Queued /\ x \notin handled /\ x \notin Held
  BY <1>6 DEF Location, NothingLost
<1>11. QueuedOnce'
  <2> SUFFICES ASSUME NEW i \in 1 .. Len(queue) + 1, NEW j \in 1 .. Len(queue) + 1, queue'[i] = queue'[j]
               PROVE  i = j
    BY <1>7 DEF QueuedOnce
  <2>1. \A k \in 1 .. Len(queue) : queue[k] # x
    BY <1>10 DEF Queued
  <2>2. QED
    BY <1>7, <2>1 DEF Location, QueuedOnce
<1>12. Apart'
  BY <1>8, <1>9, <1>10 DEF Location, Apart
<1>13. HeldOnce'
  <2>1. \A c \in Consumers : Got(c) => item[c] # x
    BY <1>10 DEF Held
  <2>2. QED
    BY <1>1, <1>5, <1>8, <1>9, <2>1 DEF Location, HeldOnce
<1>14. NothingLost'
  BY <1>6, <1>8, <1>9 DEF Location, NothingLost
<1>15. Counts'
  BY <1>6, <1>9 DEF Location, Counts
<1>16. QED
  BY <1>11, <1>12, <1>13, <1>14, <1>15 DEF Location

(* A pop: the first frame goes from the queue into the consumer's hands.   *)
LEMMA PopLocation ==
  ASSUME Control, Location, NEW t \in Threads, PopProceeds(t), UNCHANGED program
  PROVE  Location'
<1> DEFINE x == queue[1]
           n == Len(queue)
<1>1. /\ t \in Consumers /\ at[t] = "popped" /\ pc[t] = "pop" /\ queue # <<>> /\ ret'[t] = Accepted
      /\ queue' = Tail(queue) /\ item' = [item EXCEPT ![t] = Head(queue)]
      /\ pc'[t] = "idle" /\ Moves(t, pc'[t])
      /\ \A c \in Threads \ {t} : ret'[c] = ret[c]
  BY PopProceedsMoves DEF Control, TypeOK, Moves
<1>2. queue \in Seq(Items) /\ item \in [Threads -> Items]
  BY DEF Control, TypeOK
<1>3. /\ n \in Nat \ {0} /\ Len(queue') = n - 1
      /\ \A i \in 1 .. n - 1 : queue'[i] = queue[i + 1]
      /\ Head(queue) = x
  BY <1>1, <1>2
<1>4. item'[t] = x /\ \A c \in Consumers \ {t} : item'[c] = item[c]
  BY <1>1, <1>2, <1>3, Roles
<1>5. \A p \in Producers : Put(p)' <=> Put(p)
  BY <1>1, OthersKept, Roles DEF Put, program
<1>6. /\ ~Got(t) /\ Got(t)'
      /\ \A c \in Consumers \ {t} : Got(c)' <=> Got(c)
  BY <1>1, OthersKept, Roles DEF Got, program
<1>7. Entered' = Entered /\ Sent' = Sent /\ UNCHANGED <<handled, produced, consumed>>
  <2>1. \A y \in Items : y[1] \in Producers
    BY ProgramAssumption
  <2>2. QED
    BY <1>5, <2>1 DEF Entered, Sent, program
<1>8. x \in Queued /\ Queued' = Queued \ {x}
  <2>1. 1 \in 1 .. n /\ \A i \in 1 .. n : i # 1 => queue[i] # x
    BY <1>3 DEF Location, QueuedOnce
  <2>2. \A i \in 1 .. n - 1 : i + 1 \in 1 .. n /\ i + 1 # 1
    BY <1>3
  <2>3. \A j \in 1 .. n : j # 1 => j - 1 \in 1 .. n - 1 /\ (j - 1) + 1 = j
    BY <1>3
  <2>4. Queued' \subseteq Queued \ {x}
    BY <1>3, <2>1, <2>2 DEF Queued
  <2>5. Queued \ {x} \subseteq Queued'
    <3> SUFFICES ASSUME NEW j \in 1 .. n, queue[j] # x PROVE queue[j] \in Queued'
      BY DEF Queued
    <3>1. j - 1 \in 1 .. n - 1 /\ queue'[j - 1] = queue[j]
      BY <1>3, <2>3
    <3>2. QED
      BY <1>3, <3>1 DEF Queued
  <2>6. QED
    BY <2>1, <2>4, <2>5 DEF Queued
<1>9. Held' = Held \cup {x}
  BY <1>1, <1>4, <1>6 DEF Held
<1>10. x \notin handled /\ \A c \in Consumers : Got(c) => item[c] # x
  BY <1>8 DEF Location, Apart, HeldOnce
<1>11. QueuedOnce'
  <2> SUFFICES ASSUME NEW i \in 1 .. n - 1, NEW j \in 1 .. n - 1, queue'[i] = queue'[j]
               PROVE  i = j
    BY <1>3 DEF QueuedOnce
  <2>1. i + 1 \in 1 .. n /\ j + 1 \in 1 .. n /\ queue[i + 1] = queue[j + 1]
    BY <1>3
  <2>2. QED
    BY <1>3, <2>1 DEF Location, QueuedOnce
<1>12. Apart'
  BY <1>7, <1>8 DEF Location, Apart
<1>13. HeldOnce'
  <2> SUFFICES ASSUME NEW c \in Consumers, Got(c)'
               PROVE  /\ item'[c] \notin handled \cup Queued'
                      /\ \A d \in Consumers : Got(d)' /\ item'[c] = item'[d] => c = d
    BY <1>7 DEF HeldOnce
  <2>1. CASE c = t
    BY <1>4, <1>6, <1>8, <1>10, <2>1
  <2>2. CASE c # t
    BY <1>4, <1>6, <1>8, <1>10, <2>2 DEF Location, HeldOnce
  <2>3. QED
    BY <2>1, <2>2
<1>14. NothingLost'
  BY <1>7, <1>8, <1>9 DEF Location, NothingLost
<1>15. Counts'
  BY <1>7 DEF Location, Counts
<1>16. QED
  BY <1>11, <1>12, <1>13, <1>14, <1>15 DEF Location

(* The producer counts its frame.                                          *)
LEMMA SentLocation ==
  ASSUME Control, Location, NEW p \in Producers, ProducerReturns(p)
  PROVE  Location'
<1> DEFINE x == <<p, sent[p]>>
<1>1. at[p] = "pushed" /\ pc[p] = "idle" /\ ret[p] = Accepted /\ sent[p] \in 0 .. Frames - 1 /\ Put(p)
  BY ProgramAssumption DEF ProducerReturns, Returned, Control, ProgramOK, ProducerInv, Put
<1>2. /\ at'[p] # "pushed" /\ \A t \in Threads \ {p} : at'[t] = at[t]
      /\ sent' = [sent EXCEPT ![p] = sent[p] + 1] /\ produced' = produced + 1
      /\ UNCHANGED <<queue, pc, item, ret, handled, consumed>>
  BY <1>1, Roles DEF ProducerReturns, GoesTo, queueVars, Control, ProgramOK
<1>3. x \in Items /\ x \notin Sent
  BY <1>1, ProgramAssumption DEF Sent
<1>4. \A q \in Producers : sent'[q] = IF q = p THEN sent[p] + 1 ELSE sent[q]
  BY <1>2 DEF Control, ProgramOK
<1>5. \A q \in Producers : Put(q)' <=> Put(q) /\ q # p
  BY <1>1, <1>2, Roles DEF Put
<1>6. \A y \in Items : /\ y[1] \in Producers /\ y[2] \in Nat /\ sent[y[1]] \in Nat
                       /\ y = x <=> y[1] = p /\ y[2] = sent[p]
  BY ProgramAssumption DEF Control, ProgramOK
<1>7. Sent' = Sent \cup {x}
  <2>1. \A y \in Items : y[2] < sent'[y[1]] <=> y[2] < sent[y[1]] \/ y = x
    BY <1>4, <1>6
  <2>2. QED
    BY <1>3, <2>1 DEF Sent
<1>8. Entered' = Entered
  <2>1. \A y \in Items : /\ y \in Entered <=> y \in Sent \/ (y[2] = sent[y[1]] /\ Put(y[1]))
                         /\ y \in Entered' <=> y \in Sent' \/ (y[2] = sent'[y[1]] /\ Put(y[1])')
    BY DEF Entered
  <2>2. \A y \in Items : y[2] = sent'[y[1]] /\ Put(y[1])' <=> y[2] = sent[y[1]] /\ Put(y[1]) /\ y # x
    BY <1>4, <1>5, <1>6
  <2>3. x \in Entered
    BY <1>1, <1>3 DEF Entered
  <2>4. \A y \in Items : y \in Entered' <=> y \in Entered
    BY <1>7, <2>1, <2>2, <2>3
  <2>5. QED
    BY <2>4 DEF Entered, Sent
<1>9. \A c \in Consumers : Got(c)' <=> Got(c)
  BY <1>2, Roles DEF Got
<1>10. Queued' = Queued /\ Held' = Held
  BY <1>2, <1>9 DEF Queued, Held
<1>11. Counts'
  <2>1. IsFiniteSet(Sent)
    BY ItemsFinite, FS_Subset DEF Sent
  <2>2. Cardinality(Sent') = Cardinality(Sent) + 1
    BY <1>3, <1>7, <2>1, FS_AddElement
  <2>3. QED
    BY <1>2, <2>2 DEF Location, Counts
<1>12. HeldOnce'
  BY <1>2, <1>9, <1>10 DEF Location, HeldOnce
<1>13. QED
  BY <1>2, <1>8, <1>10, <1>11, <1>12 DEF Location, QueuedOnce, Apart, NothingLost

(* The consumer counts its frame.                                          *)
LEMMA HandledLocation ==
  ASSUME Control, Location, NEW c \in Consumers, ConsumerCounts(c)
  PROVE  Location'
<1> DEFINE x == item[c]
<1>1. /\ Got(c) /\ at'[c] = "pop" /\ \A t \in Threads \ {c} : at'[t] = at[t]
      /\ handled' = handled \cup {x} /\ consumed' = consumed + 1
      /\ UNCHANGED <<queue, pc, item, ret, sent, produced>>
  BY Roles DEF ConsumerCounts, Returned, GoesTo, queueVars, Control, ProgramOK, Got
<1>2. /\ ~Got(c)'
      /\ \A d \in Consumers \ {c} : Got(d)' <=> Got(d)
  BY <1>1, Roles DEF Got
<1>3. /\ x \notin handled /\ x \notin Queued
      /\ \A d \in Consumers \ {c} : Got(d) => item[d] # x
  BY <1>1 DEF Location, HeldOnce
<1>4. Queued' = Queued /\ Sent' = Sent /\ Entered' = Entered
  <2>1. \A p \in Producers : Put(p)' <=> Put(p)
    BY <1>1, Roles DEF Put
  <2>2. \A y \in Items : y[1] \in Producers
    BY ProgramAssumption
  <2>3. QED
    BY <1>1, <2>1, <2>2 DEF Queued, Sent, Entered
<1>5. Held = Held' \cup {x}
  BY <1>1, <1>2 DEF Held
<1>6. Counts'
  <2>1. IsFiniteSet(handled)
    BY ItemsFinite, FS_Subset DEF Control, ProgramOK
  <2>2. Cardinality(handled') = Cardinality(handled) + 1
    BY <1>1, <1>3, <2>1, FS_AddElement
  <2>3. QED
    BY <1>1, <1>4, <2>2 DEF Location, Counts
<1>7. HeldOnce'
  BY <1>1, <1>2, <1>3, <1>4 DEF Location, HeldOnce
<1>8. Apart'
  BY <1>1, <1>3, <1>4 DEF Location, Apart
<1>9. NothingLost'
  BY <1>1, <1>4, <1>5 DEF Location, NothingLost
<1>10. QED
  BY <1>1, <1>6, <1>7, <1>8, <1>9 DEF Location, QueuedOnce

(* The other steps of the program move no frame.                           *)
LEMMA OtherLocation ==
  ASSUME Control, Location,
         \/ \E p \in Producers : ProducerPushes(p)
         \/ \E c \in Consumers : ConsumerPops(c) \/ ConsumerEnds(c)
         \/ JoinProducers \/ ShutdownQueue \/ JoinConsumers
  PROVE  Location'
<1>0. PcOK /\ at \in [Threads -> {"push", "pushed", "pop", "popped", "joinProducers", "shutdown",
                                  "joinConsumers", "done"}]
      /\ item \in [Threads -> Items] /\ ret \in [Threads -> {"none", Accepted, Refused}]
  BY DEF Control, TypeOK, PcOK, ProgramOK
<1>1. ASSUME NEW p \in Producers, ProducerPushes(p) PROVE Location'
  <2>1. /\ \A t \in Threads \ {p} : pc'[t] = pc[t] /\ at'[t] = at[t] /\ item'[t] = item[t]
        /\ at[p] = "push" /\ pc'[p] = "push"
        /\ UNCHANGED <<queue, ret, sent, handled, produced, consumed>>
    BY <1>0, <1>1, Roles DEF PcOK, ProducerPushes, StartPush, Goto, GoesTo
  <2>2. QED
    BY <2>1, LocationKept, Roles DEF Put, Got
<1>2. ASSUME NEW c \in Consumers, ConsumerPops(c) \/ ConsumerEnds(c) PROVE Location'
  <2>1. /\ \A t \in Threads \ {c} : pc'[t] = pc[t] /\ at'[t] = at[t]
        /\ ~Got(c) /\ ~Got(c)'
        /\ UNCHANGED <<queue, item, ret, sent, handled, produced, consumed>>
    BY <1>0, <1>2, Roles
       DEF PcOK, ConsumerPops, ConsumerEnds, StartPop, Goto, GoesTo, Got, queueVars, Accepted, Refused
  <2>2. QED
    BY <2>1, LocationKept, Roles DEF Put, Got
<1>3. ASSUME JoinProducers \/ ShutdownQueue \/ JoinConsumers PROVE Location'
  <2>1. /\ \A t \in Threads \ {Main} : pc'[t] = pc[t] /\ at'[t] = at[t]
        /\ UNCHANGED <<queue, item, ret, sent, handled, produced, consumed>>
    BY <1>0, <1>3, Roles
       DEF PcOK, JoinProducers, ShutdownQueue, JoinConsumers, Shutdown, Goto, GoesTo, queueVars
  <2>2. QED
    BY <2>1, LocationKept, Roles DEF Put, Got
<1>4. QED
  BY <1>1, <1>2, <1>3

LEMMA DemoStep == DemoInv /\ [Run]_vars => DemoInv'
<1> SUFFICES ASSUME Control, Location, [Run]_vars PROVE Control' /\ Location'
  BY DEF DemoInv
<1>1. TypeOK'
  BY RunIsNext, TypeStep DEF Control
<1>2. ASSUME NEW t \in Threads, InQueue(t) PROVE Control' /\ Location'
  <2>1. CASE PushWaits(t) \/ PopWaits(t) \/ ShutdownNotifiesFull(t) \/ ShutdownNotifiesEmpty(t)
    BY <1>1, <1>2, <2>1, QueueIsQuiet, QuietControl, QuietLocation DEF InQueue
  <2>2. CASE PushRefused(t)
    BY <2>2, NoPushRefused
  <2>3. CASE PushProceeds(t)
    BY <1>1, <1>2, <2>3, CallControl, PushLocation DEF InQueue
  <2>4. CASE PopProceeds(t)
    BY <1>1, <1>2, <2>4, CallControl, PopLocation DEF InQueue
  <2>5. CASE PopRefused(t)
    BY <1>1, <1>2, <2>5, CallControl, RefusedLocation DEF InQueue
  <2>6. QED
    BY <1>2, <2>1, <2>2, <2>3, <2>4, <2>5 DEF InQueue, Proceed
<1>3. ASSUME NEW t \in Threads, Wakes(t) PROVE Control' /\ Location'
  BY <1>1, <1>3, QueueIsQuiet, QuietControl, QuietLocation
<1>4. ASSUME NEW p \in Producers, ProducerPushes(p) \/ ProducerReturns(p) PROVE Control' /\ Location'
  BY <1>1, <1>4, ProducerControl, SentLocation, OtherLocation
<1>5. ASSUME NEW c \in Consumers, ConsumerPops(c) \/ ConsumerCounts(c) \/ ConsumerEnds(c)
      PROVE  Control' /\ Location'
  BY <1>1, <1>5, ConsumerControl, HandledLocation, OtherLocation
<1>6. ASSUME JoinProducers \/ ShutdownQueue \/ JoinConsumers PROVE Control' /\ Location'
  BY <1>1, <1>6, MainControl, OtherLocation
<1>7. CASE UNCHANGED vars
  <2>1. UNCHANGED <<queue, closed, pc, item, ret, at, produced, consumed, sent, handled>>
    BY <1>7 DEF vars, queueVars, program
  <2>2. Control'
    BY <1>1, <2>1 DEF Control, ProgramOK, ProducerInv, ConsumerInv, MainInv, Put, Dismissed
  <2>3. QED
    BY <2>1, <2>2, LocationKept DEF Put, Got
<1>8. QED
  BY <1>2, <1>3, <1>4, <1>5, <1>6, <1>7 DEF Run, Step

(* The inductive invariant holds of every behaviour of the program.        *)
THEOREM DemoInvHolds == DemoSpec => []DemoInv
<1>1. Init => DemoInv
  BY InitControl, InitLocation DEF DemoInv
<1>2. QED
  BY <1>1, DemoStep, PTL DEF DemoSpec

(* The program calls the class as the class allows, so that what is proved *)
(* of the class for any callers holds in the program: the wakeups and the  *)
(* abstract queue in particular.                                           *)
THEOREM DemoUsesQueue == DemoSpec => Spec
<1>1. Init => QueueInit
  BY InitControl DEF Init, QueueInit, Control, TypeOK
<1>2. DemoInv /\ [Run]_vars => [Next]_queueVars
  BY RunIsNext DEF DemoInv
<1>3. QED
  BY <1>1, <1>2, DemoInvHolds, PTL DEF DemoSpec, Spec

(* The program's queue is the abstract bounded queue.                      *)
THEOREM DemoRefinesBoundedQueue == DemoSpec => ImplementsBoundedQueue
BY DemoUsesQueue, RefinesBoundedQueue

-----------------------------------------------------------------------------
(* Counting sets of frames.                                                *)
LEMMA UpTo == ASSUME NEW n \in Nat PROVE IsFiniteSet(1 .. n) /\ Cardinality(1 .. n) = n
BY FS_Interval

LEMMA QueuedBound == Control => IsFiniteSet(Queued) /\ Cardinality(Queued) <= Capacity
<1> SUFFICES ASSUME Control PROVE IsFiniteSet(Queued) /\ Cardinality(Queued) <= Capacity
  OBVIOUS
<1> DEFINE n == Len(queue)
           f == [i \in 1 .. n |-> queue[i]]
<1>1. n \in Nat /\ n <= Capacity
  BY DEF Control, TypeOK
<1>2. f \in Surjection(1 .. n, Queued)
  BY DEF Queued, Surjection
<1>3. IsFiniteSet(1 .. n) /\ Cardinality(1 .. n) = n
  BY <1>1, UpTo
<1>4. IsFiniteSet(Queued) /\ Cardinality(Queued) <= n
  BY <1>2, <1>3, FS_Surjection
<1>5. QED
  BY <1>1, <1>4, CapacityAssumption, FS_CardinalityType

LEMMA HeldBound == IsFiniteSet(Held) /\ Cardinality(Held) <= Cardinality(Consumers)
<1> DEFINE D == {d \in Consumers : Got(d)}
           f == [d \in D |-> item[d]]
<1>1. IsFiniteSet(D) /\ Cardinality(D) <= Cardinality(Consumers)
  BY Roles, FS_Subset
<1>2. f \in Surjection(D, Held)
  BY DEF Held, Surjection
<1>3. IsFiniteSet(Held) /\ Cardinality(Held) <= Cardinality(D)
  BY <1>1, <1>2, FS_Surjection
<1>4. Cardinality(D) \in Nat /\ Cardinality(Held) \in Nat /\ Cardinality(Consumers) \in Nat
  BY <1>1, <1>3, Roles, FS_CardinalityType
<1>5. QED
  BY <1>1, <1>3, <1>4

(* Each producer has at most one frame in the queue that it has not counted. *)
LEMMA EnteredBound ==
  Cardinality(Entered \ Sent) <= Cardinality(Producers) /\ IsFiniteSet(Entered \ Sent)
<1> DEFINE E == Entered \ Sent
           f == [x \in E |-> x[1]]
<1>1. \A x \in E : x \in Items /\ x[1] \in Producers /\ x[2] = sent[x[1]] /\ x = <<x[1], x[2]>>
  BY ProgramAssumption DEF Entered, Sent
<1>2. f \in Injection(E, Producers)
  <2>1. f \in [E -> Producers]
    BY <1>1
  <2>2. \A x, y \in E : f[x] = f[y] => x = y
    BY <1>1
  <2>3. QED
    BY <2>1, <2>2 DEF Injection, IsInjective
<1>3. QED
  BY <1>2, Roles, FS_Injection

LEMMA CardSplit ==
  ASSUME NEW S, NEW T, IsFiniteSet(T), S \subseteq T
  PROVE  Cardinality(T) = Cardinality(S) + Cardinality(T \ S)
<1>1. T \cap S = S
  OBVIOUS
<1>2. Cardinality(T \ S) = Cardinality(T) - Cardinality(S)
  BY <1>1, FS_Difference
<1>3. IsFiniteSet(S)
  BY FS_Subset
<1>4. Cardinality(S) \in Nat /\ Cardinality(T) \in Nat
  BY <1>3, FS_CardinalityType
<1>5. QED
  BY <1>2, <1>4

LEMMA BackpressureHolds == DemoInv => Backpressure
<1> SUFFICES ASSUME Control, Location PROVE Backpressure
  BY DEF DemoInv
<1>1. /\ IsFiniteSet(Sent) /\ IsFiniteSet(handled) /\ IsFiniteSet(Entered)
      /\ IsFiniteSet(Queued) /\ IsFiniteSet(Held) /\ IsFiniteSet(Entered \ Sent)
  BY ItemsFinite, QueuedBound, HeldBound, FS_Subset DEF Control, ProgramOK, Sent, Entered
<1>2. /\ Cardinality(Sent) \in Nat /\ Cardinality(handled) \in Nat /\ Cardinality(Entered) \in Nat
      /\ Cardinality(Queued) \in Nat /\ Cardinality(Held) \in Nat /\ Cardinality(Entered \ Sent) \in Nat
      /\ Cardinality(Producers) \in Nat /\ Cardinality(Consumers) \in Nat
  BY <1>1, Roles, FS_CardinalityType
<1>3. Sent \subseteq Entered /\ Entered = Sent \cup (Entered \ Sent)
  BY DEF Entered
<1>4. Cardinality(Sent) <= Cardinality(Entered)
  BY <1>1, <1>3, FS_Subset
<1>5. Cardinality(Entered) <= Cardinality(handled) + Cardinality(Queued) + Cardinality(Held)
  <2>1. /\ IsFiniteSet(handled \cup Queued)
        /\ Cardinality(handled \cup Queued) \in Nat
        /\ Cardinality(handled \cup Queued) <= Cardinality(handled) + Cardinality(Queued)
    <3>1. /\ IsFiniteSet(handled \cup Queued)
          /\ Cardinality(handled \cup Queued)
               = Cardinality(handled) + Cardinality(Queued) - Cardinality(handled \cap Queued)
      BY <1>1, FS_Union
    <3>2. Cardinality(handled \cap Queued) \in Nat
      BY <1>1, FS_Intersection, FS_CardinalityType
    <3>3. QED
      BY <1>2, <3>1, <3>2, FS_CardinalityType
  <2>2. Cardinality((handled \cup Queued) \cup Held) <= Cardinality(handled \cup Queued) + Cardinality(Held)
    <3>1. Cardinality((handled \cup Queued) \cup Held)
            = Cardinality(handled \cup Queued) + Cardinality(Held) - Cardinality((handled \cup Queued) \cap Held)
      BY <1>1, <2>1, FS_Union
    <3>2. Cardinality((handled \cup Queued) \cap Held) \in Nat
      BY <2>1, FS_Intersection, FS_CardinalityType
    <3>3. QED
      BY <1>2, <2>1, <3>1, <3>2
  <2>3. Entered = (handled \cup Queued) \cup Held
    BY DEF Location, NothingLost
  <2>4. QED
    BY <1>2, <2>1, <2>2, <2>3
<1>6. Cardinality(handled) <= Cardinality(Entered)
  BY <1>1, FS_Subset DEF Location, NothingLost
<1>7. Cardinality(Entered) = Cardinality(Sent) + Cardinality(Entered \ Sent)
  BY <1>1, <1>3, CardSplit
<1>8. QED
  BY <1>2, <1>4, <1>5, <1>6, <1>7, QueuedBound, HeldBound, EnteredBound, CapacityAssumption
     DEF Backpressure, Location, Counts

LEMMA AllHandledAtEnd == DemoInv => NothingLeftBehind
<1> SUFFICES ASSUME Control, Location, at[Main] = "done" PROVE handled = Items /\ Sent = Items
  BY DEF DemoInv, NothingLeftBehind, Location, Counts
<1>1. \A p \in Producers : at[p] = "done" /\ sent[p] = Frames
  BY ProgramAssumption DEF Control, MainInv, ProgramOK, ProducerInv
<1>2. Sent = Items
  BY <1>1, ProgramAssumption DEF Sent
<1>3. \A c \in Consumers : at[c] = "done"
  BY DEF Control, MainInv
<1>4. queue = <<>>
  BY <1>3, ProgramAssumption DEF Control, ConsumerInv, Dismissed
<1>5. Queued = {} /\ Held = {}
  BY <1>3, <1>4 DEF Queued, Held, Got
<1>6. Items \subseteq handled
  BY <1>2, <1>5 DEF Entered, Location, NothingLost
<1>7. QED
  BY <1>2, <1>6 DEF Control, ProgramOK

(* Back pressure, for any number of producers, consumers, places and       *)
(* frames: g_produced and g_consumed are never further apart than the      *)
(* places of the queue and the threads between call and count.             *)
THEOREM PressureIsBounded == DemoSpec => []Backpressure
BY BackpressureHolds, DemoInvHolds, PTL

(* When main prints its totals every frame has been processed once.        *)
THEOREM NothingIsLeft == DemoSpec => []NothingLeftBehind
BY AllHandledAtEnd, DemoInvHolds, PTL

-----------------------------------------------------------------------------
(* Who waits for whom.                                                     *)
LEMMA SomebodyCan ==
  ASSUME Capacity > 0, DemoInv, NoLostWakeup, ShutdownWakesAll, at[Main] # "done"
  PROVE  \E t \in Threads : GoesOn(t)
<1> SUFFICES ASSUME \A t \in Threads : ~GoesOn(t) PROVE FALSE
  OBVIOUS
<1>1. Control /\ Len(queue) \in Nat
  BY DEF DemoInv, Control, TypeOK
<1>2. ASSUME NEW p \in Producers PROVE at[p] = "done" \/ pc[p] = "not_full_"
  BY <1>1, <1>2, Roles DEF GoesOn, Control, ProducerInv
<1>3. ASSUME NEW c \in Consumers PROVE at[c] = "done" \/ pc[c] = "not_empty_"
  BY <1>1, <1>3, Roles DEF GoesOn, Control, ConsumerInv
<1>4. /\ at[Main] \in {"joinProducers", "joinConsumers"} /\ pc[Main] \in {"idle", "notifyFull", "notifyEmpty"}
      /\ at[Main] = "joinProducers" => \E p \in Producers : at[p] # "done"
      /\ at[Main] = "joinConsumers" => pc[Main] = "idle" /\ \E c \in Consumers : at[c] # "done"
  BY <1>1, Roles DEF GoesOn, Returned, Control, MainInv
<1>5. \A r \in {"push", "pop", "notifyFull", "notifyEmpty"} : pc[Main] # r => On(r) = {}
  BY <1>1, <1>2, <1>3, Roles DEF On, Control, ProducerInv, ConsumerInv
<1>6. CASE at[Main] = "joinProducers"
  <2>1. PICK p \in Producers : pc[p] = "not_full_"
    BY <1>2, <1>4, <1>6
  <2>2. ~closed /\ pc[Main] = "idle" /\ On("not_full_") # {}
    BY <1>1, <1>6, <2>1, Roles DEF Control, MainInv, On
  <2>3. PICK c \in Consumers : TRUE
    BY ProgramAssumption
  <2>4. On("not_empty_") # {}
    <3>1. at[c] # "done"
      BY <1>1, <2>2 DEF Control, ConsumerInv, Dismissed
    <3> QED
      BY <1>3, <3>1, Roles DEF On
  <2>5. On("push") = {} /\ On("pop") = {}
    BY <1>5, <2>2
  <2>6. Len(queue) <= 0 /\ Capacity - Len(queue) <= 0
    BY <2>2, <2>4, <2>5, FS_EmptySet DEF NoLostWakeup
  <2> QED
    BY <1>1, <2>6, CapacityAssumption
<1>7. CASE at[Main] = "joinConsumers"
  <2>1. PICK c \in Consumers : pc[c] = "not_empty_"
    BY <1>3, <1>4, <1>7
  <2>2. closed /\ pc[Main] = "idle" /\ On("not_empty_") # {}
    BY <1>1, <1>4, <1>7, <2>1, Roles DEF Control, MainInv, On
  <2>3. On("notifyFull") = {} /\ On("notifyEmpty") = {}
    BY <1>5, <2>2
  <2> QED
    BY <2>2, <2>3 DEF ShutdownWakesAll
<1> QED
  BY <1>4, <1>6, <1>7

(* With room for at least one frame in the queue, as long as main has not  *)
(* ended some thread can take its next step: producers asleep on a full    *)
(* queue, consumers asleep on an empty one and a main that waits for them  *)
(* never make a state nobody leaves.                                       *)
THEOREM DemoIsNeverStuck ==
  ASSUME Capacity > 0
  PROVE  DemoSpec => []SomebodyGoesOn
<1>1. DemoInv /\ NoLostWakeup /\ ShutdownWakesAll => SomebodyGoesOn
  BY SomebodyCan DEF SomebodyGoesOn
<1> QED
  BY <1>1, DemoInvHolds, DemoUsesQueue, WakeupsReachEnough, ShutdownReachesAll, PTL

=============================================================================
