---------------------------- MODULE ShmRing_proofs ----------------------------
(***************************************************************************)
(* Theorems about ShmRing for every capacity, number of frames, of starts  *)
(* and of kills, as long as people wait for the programs (Patient).        *)
(***************************************************************************)
EXTENDS ShmRing, TLAPS

(* Points of the writer's loop, and of the reader's with its set-up.       *)
WriterLoop == {"waitEmpty", "waitMutex", "put", "postMutex", "postFull"}
ReaderLoop == {"open", "waitFull", "waitMutex", "take", "postMutex", "postEmpty"}
SettingUp == {"clear", "unlink", "open"}

One(b) == IF b THEN 1 ELSE 0

Current(s) == value[s][run]

(* The memory of the name, if there is one, is the writer's; memory of     *)
(* runs to come is zero.                                                   *)
MemoryInv ==
  /\ run = 0 => /\ shmName = 0 /\ writer.region = 0 /\ ~Running(writer)
                /\ put = 0 /\ taken = 0
  /\ run > 0 => writer.region \in 1 .. run /\ shmName \in {0, writer.region}
  /\ \A r \in Runs : r > run => region[r] = ClearRegion

(* The writer's set-up, name by name.                                      *)
SetupInv ==
  /\ ready => run > 0 /\ writer.pc \notin SettingUp
  /\ writer.pc \in {"unlink", "open"} =>
       writer.k \in 1 .. 3 /\ put = 0 /\ taken = 0
  /\ writer.pc \in SettingUp => writer.i = 0
  /\ writer.pc = "clear" => writer.k = 1
  /\ writer.pc = "unlink" => \A j \in 1 .. writer.k - 1 : semName[SemNames[j]] = 0
  /\ writer.pc = "open" =>
       /\ \A j \in 1 .. writer.k - 1 :
            /\ semName[SemNames[j]] = run /\ writer.sem[SemNames[j]] = run
            /\ Current(SemNames[j]) = InitialValue(SemNames[j])
       /\ \A j \in writer.k .. 3 : semName[SemNames[j]] = 0

(* Whoever is past the set-up has the semaphores of this run.              *)
HandlesInv ==
  /\ writer.pc \in WriterLoop => ready /\ \A s \in Sems : writer.sem[s] = run
  /\ ready => \A s \in Sems : semName[s] \in {0, run}
  /\ Running(reader) =>
       /\ ready /\ reader.region = writer.region
       /\ \A s \in Sems : reader.sem[s] \in {0, run}
  /\ reader.pc = "open" => reader.k \in 1 .. 3
  /\ reader.pc = "take" => reader.sem["mutex"] = run
  /\ reader.pc = "postMutex" => reader.sem["mutex"] = run

(* The semaphores account for the places of the ring: what a process has   *)
(* waited for and not used yet counts for it.  A process that is killed    *)
(* takes its share with it, so these are inequalities.                     *)
TokensInv ==
  ready =>
    /\ Current("mutex") + One(writer.pc \in {"put", "postMutex"})
         + One(reader.pc \in {"take", "postMutex"}) <= 1
    /\ Current("full") + One(writer.pc \in {"postMutex", "postFull"})
         + One(reader.pc \in {"waitMutex", "take"}) <= put - taken
    /\ Current("empty") + One(writer.pc \in {"waitMutex", "put"})
         + One(reader.pc \in {"postMutex", "postEmpty"}) <= Capacity - (put - taken)

(* The writer's counter and the reader's printout follow the ring.         *)
CountInv ==
  /\ writer.pc \in {"waitEmpty", "waitMutex", "put"} => writer.i = put /\ put < Total
  /\ writer.pc \in {"postMutex", "postFull"} => writer.i + 1 = put /\ put <= Total
  /\ reader.pc \in ReaderLoop => reader.i < Total
  /\ Running(reader) =>
       /\ Len(reader.got) <= taken
       /\ \A k \in 1 .. Len(reader.got) : reader.got[k] = taken - Len(reader.got) + k - 1

(* While no process is killed no share is lost: the semaphores account for *)
(* the places exactly.                                                     *)
CleanTokens ==
  /\ Current("mutex") + One(writer.pc \in {"put", "postMutex"})
       + One(reader.pc \in {"take", "postMutex"}) = 1
  /\ Current("full") + One(writer.pc \in {"postMutex", "postFull"})
       + One(reader.pc \in {"waitMutex", "take"}) = put - taken
  /\ Current("empty") + One(writer.pc \in {"waitMutex", "put"})
       + One(reader.pc \in {"postMutex", "postEmpty"}) = Capacity - (put - taken)

CleanWriter ==
  /\ writer.pc \in WriterLoop \cup {"done"}
  /\ writer.pc = "done" => put = Total

(* The one reader of the run opens the semaphores of the run and prints    *)
(* from the first frame on; the names go when it has printed the last one. *)
CleanReader ==
  /\ reader.pc \in ReaderLoop \cup {"teardown", "done", "off"}
  /\ shmName = 0 =>
       reader.pc = "done" /\ taken = Total /\ reader.got = [k \in 1 .. Total |-> k - 1]
  /\ shmName # 0 /\ ~Running(reader) => taken = 0
  /\ shmName # 0 /\ reader.pc # "teardown" => \A s \in Sems : semName[s] = run
  /\ reader.pc = "open" => \A j \in 1 .. reader.k - 1 : reader.sem[SemNames[j]] = run
  /\ reader.pc \in ReaderLoop \ {"open"} => \A s \in Sems : reader.sem[s] = run
  /\ reader.pc \in {"open", "waitFull", "waitMutex", "take"} => taken = reader.i
  /\ reader.pc \in {"postMutex", "postEmpty"} => taken = reader.i + 1
  /\ reader.pc = "teardown" => taken = Total
  /\ Running(reader) => Len(reader.got) = taken

CleanInv ==
  /\ writer.pc \in SettingUp => shmName # 0
  /\ ready /\ clean => CleanTokens /\ CleanWriter /\ CleanReader

Inv ==
  /\ TypeOK /\ MemoryInv /\ SetupInv /\ HandlesInv /\ TokensInv
  /\ RingHoldsUnread /\ CountInv /\ Successive /\ CleanInv

-----------------------------------------------------------------------------
(* Arithmetic of the ring: positions less than a round apart are different *)
(* slots, and the slot after that of n is that of n + 1.                   *)

LEMMA DivMod ==
  ASSUME NEW c \in Nat \ {0}, NEW a \in Nat
  PROVE  /\ a = (c * (a \div c)) + (a % c)
         /\ a \div c \in Int /\ a % c \in 0 .. c - 1
  OBVIOUS

LEMMA RestIsUnique ==
  ASSUME NEW c \in Nat \ {0}, NEW q \in Int, NEW p \in Int,
         NEW r \in 0 .. c - 1, NEW s \in 0 .. c - 1, (c * q) + r = (c * p) + s
  PROVE  r = s
<1> DEFINE k == q - p
<1>1. c * k = s - r /\ k \in Int
  OBVIOUS
<1> HIDE DEF k
<1>2. k <= -1 => c * k <= -c
  BY <1>1
<1>3. k >= 1 => c * k >= c
  BY <1>1
<1>4. k = 0
  BY <1>1, <1>2, <1>3
<1> QED
  BY <1>1, <1>4

LEMMA SlotsDiffer ==
  ASSUME NEW c \in Nat \ {0}, NEW a \in Nat, NEW b \in Nat, a < b, b < a + c
  PROVE  a % c # b % c
<1> SUFFICES ASSUME a % c = b % c PROVE FALSE
  OBVIOUS
<1>1. /\ a = (c * (a \div c)) + (a % c) /\ b = (c * (b \div c)) + (b % c)
      /\ a \div c \in Int /\ b \div c \in Int
  BY DivMod
<1> DEFINE k == (b \div c) - (a \div c)
<1>2. b - a = c * k /\ k \in Int
  BY <1>1
<1> HIDE DEF k
<1>3. k <= 0 => c * k <= 0
  BY <1>2
<1>4. k >= 1 => c * k >= c
  BY <1>2
<1> QED
  BY <1>2, <1>3, <1>4

LEMMA LaterSlot ==
  ASSUME NEW c \in Nat \ {0}, NEW a \in Nat, NEW n \in Nat
  PROVE  ((a % c) + n) % c = (a + n) % c
<1> DEFINE r == a % c
           q == a \div c
           x == (r + n) \div c
           y == (r + n) % c
           u == (a + n) \div c
           v == (a + n) % c
<1>1. a = (c * q) + r /\ q \in Int /\ r \in 0 .. c - 1
  BY DivMod
<1>2. a + n \in Nat /\ r + n \in Nat
  BY <1>1
<1>3. /\ a + n = (c * u) + v /\ u \in Int /\ v \in 0 .. c - 1
      /\ r + n = (c * x) + y /\ x \in Int /\ y \in 0 .. c - 1
  BY <1>2, DivMod
<1> HIDE DEF x, y, u, v, q, r
<1>4. q + x \in Int /\ (c * u) + v = (c * (q + x)) + y
  BY <1>1, <1>3
<1>5. v = y
  BY <1>3, <1>4, RestIsUnique
<1> QED
  BY <1>5 DEF v, y, r

LEMMA NextSlot ==
  ASSUME NEW c \in Nat \ {0}, NEW a \in Nat
  PROVE  ((a % c) + 1) % c = (a + 1) % c
  BY LaterSlot

(* A sequence that counts up from zero.                                    *)
LEMMA CountingSequence ==
  ASSUME NEW S, NEW q \in Seq(S), NEW n \in Nat, Len(q) = n,
         \A k \in 1 .. n : q[k] = k - 1
  PROVE  q = [k \in 1 .. n |-> k - 1]
  OBVIOUS

LEMMA SameSequence ==
  ASSUME NEW S, NEW q \in Seq(S), NEW r \in Seq(S), Len(q) = Len(r),
         \A k \in 1 .. Len(q) : q[k] = r[k]
  PROVE  q = r
  OBVIOUS

(* The numbers from a on that are less than b.                             *)
Span(a, b) == [k \in 1 .. b - a |-> a + k - 1]

LEMMA SpanQueue ==
  ASSUME NEW a \in Nat, NEW b \in Nat, a <= b
  PROVE  /\ Len(Span(a, b)) = b - a
         /\ Append(Span(a, b), b) = Span(a, b + 1)
         /\ a < b => /\ Span(a, b) # <<>> /\ Head(Span(a, b)) = a
                     /\ Tail(Span(a, b)) = Span(a + 1, b)
         /\ Span(0, 0) = <<>>
<1>1. Span(a, b) \in Seq(Nat) /\ Len(Span(a, b)) = b - a
  <2>1. \A k \in 1 .. b - a : a + k - 1 \in Nat
    OBVIOUS
  <2>2. b - a \in Nat
    OBVIOUS
  <2> QED
    BY <2>1, <2>2 DEF Span
<1>2. Append(Span(a, b), b) = Span(a, b + 1)
  BY <1>1 DEF Span
<1>3. ASSUME a < b
      PROVE  /\ Span(a, b) # <<>> /\ Head(Span(a, b)) = a
             /\ Tail(Span(a, b)) = Span(a + 1, b)
  <2>1. Span(a, b) # <<>> /\ Head(Span(a, b)) = a
    BY <1>1, <1>3 DEF Span
  <2> DEFINE t == Tail(Span(a, b))
             u == Span(a + 1, b)
  <2>2. /\ t \in Seq(Nat) /\ Len(t) = Len(Span(a, b)) - 1
        /\ \A k \in 1 .. Len(t) : t[k] = Span(a, b)[k + 1]
    BY <1>1, <2>1
  <2>3. u \in Seq(Nat) /\ Len(u) = b - (a + 1)
    <3>1. \A k \in 1 .. b - (a + 1) : (a + 1) + k - 1 \in Nat
      OBVIOUS
    <3>2. b - (a + 1) \in Nat
      BY <1>3
    <3> QED
      BY <3>1, <3>2 DEF Span
  <2>4. Len(t) = Len(u)
    BY <1>1, <2>2, <2>3
  <2>5. ASSUME NEW k \in 1 .. Len(t) PROVE t[k] = u[k]
    <3>1. t[k] = Span(a, b)[k + 1] /\ k \in 1 .. b - (a + 1) /\ k + 1 \in 1 .. b - a
      BY <1>1, <2>2, <2>3, <2>4
    <3>2. Span(a, b)[k + 1] = a + (k + 1) - 1 /\ u[k] = (a + 1) + k - 1
      BY <3>1 DEF Span
    <3> QED
      BY <3>1, <3>2
  <2> HIDE DEF t, u
  <2>6. t = u
    BY <2>2, <2>3, <2>4, <2>5, SameSequence
  <2> QED
    BY <2>1, <2>6 DEF t, u
<1>4. Span(0, 0) = <<>>
  BY DEF Span
<1> QED
  BY <1>1, <1>2, <1>3, <1>4

LEMMA Names ==
  /\ \A k \in 1 .. 3 : SemNames[k] \in Sems
  /\ \A s \in Sems : \E k \in 1 .. 3 : s = SemNames[k]
  /\ \A j, k \in 1 .. 3 : SemNames[j] = SemNames[k] => j = k
  /\ SemNames[1] = "mutex" /\ SemNames[2] = "full" /\ SemNames[3] = "empty"
  BY DEF SemNames, Sems

(* A process that goes on in its set-up is still a process.                *)
LEMMA StillProcess ==
  ASSUME NEW p \in Processes, NEW k \in 1 .. 4, NEW f \in [Sems -> 0 .. MaxRuns]
  PROVE  /\ [p EXCEPT !.k = k] \in Processes
         /\ [p EXCEPT !.k = k, !.pc = "open"] \in Processes
         /\ [p EXCEPT !.sem = f, !.k = k] \in Processes
         /\ [p EXCEPT !.sem = f, !.k = k, !.pc = "waitFull"] \in Processes
         /\ [p EXCEPT !.sem = f, !.k = k, !.pc = "waitEmpty"] \in Processes
  BY DEF Processes


-----------------------------------------------------------------------------
(* At the slots: the semaphores have kept a place or a frame.              *)
LEMMA InTheRing ==
  ASSUME Inv, ready
  PROVE  /\ run \in Runs /\ writer.region \in 1 .. run /\ writer.region \in Runs
         /\ put \in Nat /\ taken \in Nat /\ put \in taken .. taken + Capacity
         /\ region[writer.region].tail = taken % Capacity
         /\ \A f \in taken .. put - 1 : region[writer.region].frames[f % Capacity] = f
         /\ Current("full") \in Nat /\ Current("empty") \in Nat
<1>1. /\ run \in Nat /\ run > 0 /\ run <= MaxRuns /\ put \in Nat /\ taken \in Nat
      /\ value \in [Sems -> [Runs -> Nat]]
  BY ShmAssumption DEF Inv, TypeOK, SetupInv
<1>2. writer.region \in 1 .. run
  BY <1>1 DEF Inv, MemoryInv
<1>3. run \in Runs /\ writer.region \in Runs /\ writer.region # 0
  BY <1>1, <1>2, ShmAssumption DEF Runs
<1> QED
  BY <1>1, <1>2, <1>3 DEF Inv, RingHoldsUnread, Current, Sems

LEMMA PlaceToPut ==
  ASSUME Inv, writer.pc = "put"
  PROVE  put - taken \in 0 .. Capacity - 1 /\ put < Total /\ writer.i = put
<1>1. ready
  BY DEF Inv, HandlesInv, WriterLoop
<1>2. Current("empty") + 1 + One(reader.pc \in {"postMutex", "postEmpty"}) <= Capacity - (put - taken)
  BY <1>1 DEF Inv, TokensInv, One
<1>3. put - taken <= Capacity - 1
  BY <1>1, <1>2, InTheRing, ShmAssumption DEF One
<1> QED
  BY <1>1, <1>3, InTheRing, ShmAssumption DEF Inv, CountInv

LEMMA FrameToTake ==
  ASSUME Inv, reader.pc = "take"
  PROVE  /\ put - taken \in 1 .. Capacity /\ reader.region = writer.region
         /\ region[reader.region].frames[region[reader.region].tail] = taken
<1>1. ready /\ reader.region = writer.region
  BY DEF Inv, HandlesInv, Running
<1>2. Current("full") + One(writer.pc \in {"postMutex", "postFull"}) + 1 <= put - taken
  BY <1>1 DEF Inv, TokensInv, One
<1>3. put - taken >= 1
  BY <1>1, <1>2, InTheRing DEF One
<1>4. taken \in taken .. put - 1
  BY <1>1, <1>3, InTheRing
<1> QED
  BY <1>1, <1>3, <1>4, InTheRing, ShmAssumption

-----------------------------------------------------------------------------
LEMMA WriterWaitsKeeps == Patient /\ Inv /\ WriterWaits => Inv'
<1> SUFFICES ASSUME Inv, WriterWaits PROVE Inv'
  OBVIOUS
<1>1. /\ TypeOK /\ MemoryInv /\ SetupInv /\ HandlesInv /\ TokensInv
      /\ RingHoldsUnread /\ CountInv /\ Successive /\ CleanInv
  BY DEF Inv
<1>2. /\ writer \in Processes /\ reader \in Processes /\ run \in Nat /\ run <= MaxRuns
      /\ value \in [Sems -> [Runs -> Nat]] /\ put \in Nat /\ taken \in Nat
  BY <1>1, ShmAssumption DEF TypeOK
<1>3. /\ shmName' = shmName /\ semName' = semName /\ region' = region
      /\ put' = put /\ taken' = taken /\ reader' = reader
      /\ run' = run /\ ready' = ready /\ crashes' = crashes /\ clean' = clean
  BY DEF WriterWaits, ring, people
<1>4. writer.pc \in {"waitEmpty", "waitMutex"}
  BY DEF WriterWaits
<1>5. /\ ready /\ run \in Runs /\ \A s \in Sems : writer.sem[s] = run
  BY <1>1, <1>2, <1>4 DEF HandlesInv, SetupInv, WriterLoop, Runs
<1>6. /\ writer'.k = writer.k /\ writer'.region = writer.region /\ writer'.sem = writer.sem
      /\ writer'.i = writer.i /\ writer'.got = writer.got
      /\ writer.pc = "waitEmpty" => writer'.pc = "waitMutex"
      /\ writer.pc = "waitMutex" => writer'.pc = "put"
      /\ writer' \in Processes
  BY <1>2 DEF WriterWaits, Processes
<1>7. /\ value' \in [Sems -> [Runs -> Nat]]
      /\ writer.pc = "waitEmpty" =>
           /\ Current("empty") > 0
           /\ value'["empty"][run] = Current("empty") - 1
           /\ value'["mutex"] = value["mutex"] /\ value'["full"] = value["full"]
      /\ writer.pc = "waitMutex" =>
           /\ Current("mutex") > 0
           /\ value'["mutex"][run] = Current("mutex") - 1
           /\ value'["empty"] = value["empty"] /\ value'["full"] = value["full"]
  BY <1>2, <1>4, <1>5 DEF WriterWaits, Wait, Current, Sems
<1>a. TypeOK'
  BY <1>1, <1>3, <1>6, <1>7 DEF TypeOK
<1>b. MemoryInv'
  BY <1>1, <1>3, <1>4, <1>5, <1>6 DEF MemoryInv, Running, Runs
<1>c. SetupInv'
  BY <1>1, <1>3, <1>4, <1>5, <1>6 DEF SetupInv, SettingUp
<1>d. HandlesInv'
  BY <1>1, <1>3, <1>4, <1>5, <1>6 DEF HandlesInv, WriterLoop, Running
<1>e. TokensInv'
  BY <1>1, <1>2, <1>3, <1>4, <1>5, <1>6, <1>7, ShmAssumption DEF TokensInv, One, Current, Sems
<1>f. RingHoldsUnread'
  BY <1>1, <1>3, <1>6 DEF RingHoldsUnread
<1>g. CountInv'
  BY <1>1, <1>3, <1>4, <1>6 DEF CountInv, Running
<1>h. Successive'
  BY <1>1, <1>3 DEF Successive
<1>i. CleanInv'
  <2> SUFFICES ASSUME ready', clean' PROVE CleanTokens' /\ CleanWriter' /\ CleanReader'
    BY <1>4, <1>6 DEF CleanInv, SettingUp
  <2>1. ready /\ clean /\ CleanTokens /\ CleanWriter /\ CleanReader
    BY <1>1, <1>3 DEF CleanInv
  <2>2. CleanTokens'
    BY <2>1, <1>2, <1>3, <1>4, <1>5, <1>6, <1>7, ShmAssumption DEF CleanTokens, One, Current, Sems
  <2>3. CleanWriter'
    BY <2>1, <1>3, <1>4, <1>6 DEF CleanWriter, WriterLoop
  <2>4. CleanReader'
    BY <2>1, <1>3 DEF CleanReader, Running
  <2> QED
    BY <2>1, <2>2, <2>3, <2>4
<1> QED
  BY <1>a, <1>b, <1>c, <1>d, <1>e, <1>f, <1>g, <1>h, <1>i DEF Inv

LEMMA WriterPutsKeeps == Patient /\ Inv /\ WriterPuts => Inv'
<1> SUFFICES ASSUME Inv, WriterPuts PROVE Inv'
  OBVIOUS
<1> DEFINE r == writer.region
<1>1. /\ TypeOK /\ MemoryInv /\ SetupInv /\ HandlesInv /\ TokensInv
      /\ RingHoldsUnread /\ CountInv /\ Successive /\ CleanInv
  BY DEF Inv
<1>2. /\ writer \in Processes /\ reader \in Processes /\ run \in Nat /\ run <= MaxRuns
      /\ value \in [Sems -> [Runs -> Nat]] /\ put \in Nat /\ taken \in Nat
      /\ region \in [Runs -> [frames : [Slots -> Frames \cup {Blank}], head : Slots, tail : Slots]]
  BY <1>1, ShmAssumption DEF TypeOK
<1>3. /\ shmName' = shmName /\ semName' = semName /\ value' = value
      /\ put' = put + 1 /\ taken' = taken /\ reader' = reader
      /\ run' = run /\ ready' = ready /\ crashes' = crashes /\ clean' = clean
  BY DEF WriterPuts, kernel, people
<1>4. writer.pc = "put"
  BY DEF WriterPuts
<1>5. /\ ready /\ run \in Runs /\ \A s \in Sems : writer.sem[s] = run
      /\ r \in 1 .. run /\ r \in Runs
  <2>1. ready /\ \A s \in Sems : writer.sem[s] = run
    BY <1>1, <1>4 DEF HandlesInv, WriterLoop
  <2>2. run > 0
    BY <1>1, <2>1 DEF SetupInv
  <2>3. r \in 1 .. run
    BY <1>1, <2>2 DEF MemoryInv
  <2> QED
    BY <1>2, <2>1, <2>2, <2>3, ShmAssumption DEF Runs
<1>6. /\ writer'.k = writer.k /\ writer'.region = r /\ writer'.sem = writer.sem
      /\ writer'.i = writer.i /\ writer'.got = writer.got /\ writer'.pc = "postMutex"
      /\ writer' \in Processes
  BY <1>2 DEF WriterPuts, Processes
<1>7. put - taken \in 0 .. Capacity - 1 /\ put < Total /\ writer.i = put
  BY <1>4, PlaceToPut
<1>8. /\ writer.i \in Frames /\ region[r].head \in Slots
      /\ (region[r].head + 1) % Capacity \in Slots
  <2>1. region[r].head \in Slots
    BY <1>2, <1>5
  <2>2. region[r].head + 1 \in Nat
    BY <2>1 DEF Slots
  <2>3. (region[r].head + 1) % Capacity \in Slots
    BY <2>2, DivMod, ShmAssumption DEF Slots
  <2> QED
    BY <1>2, <1>7, <2>1, <2>3, ShmAssumption DEF Frames
<1>9. /\ region' \in [Runs -> [frames : [Slots -> Frames \cup {Blank}], head : Slots, tail : Slots]]
      /\ \A q \in Runs : q # r => region'[q] = region[q]
      /\ region'[r].head = (region[r].head + 1) % Capacity
      /\ region'[r].tail = region[r].tail
      /\ region'[r].frames[region[r].head] = writer.i
      /\ \A s \in Slots : s # region[r].head => region'[r].frames[s] = region[r].frames[s]
  <2>1. region' = [region EXCEPT ![r] = [region[r] EXCEPT !.frames = [@ EXCEPT ![region[r].head] = writer.i],
                                                          !.head = (@ + 1) % Capacity]]
    BY <1>2, <1>5 DEF WriterPuts
  <2>2. region[r].frames \in [Slots -> Frames \cup {Blank}]
    BY <1>2, <1>5
  <2> DEFINE slots == [region[r].frames EXCEPT ![region[r].head] = writer.i]
             full == [region[r] EXCEPT !.frames = slots, !.head = (@ + 1) % Capacity]
  <2>3. /\ slots \in [Slots -> Frames \cup {Blank}]
        /\ slots[region[r].head] = writer.i
        /\ \A s \in Slots : s # region[r].head => slots[s] = region[r].frames[s]
    BY <1>8, <2>2
  <2> HIDE DEF slots
  <2>4. /\ full \in [frames : [Slots -> Frames \cup {Blank}], head : Slots, tail : Slots]
        /\ full.head = (region[r].head + 1) % Capacity /\ full.tail = region[r].tail
        /\ full.frames = slots
    BY <1>2, <1>5, <1>8, <2>3
  <2>5. region' = [region EXCEPT ![r] = full]
    BY <2>1 DEF slots
  <2> HIDE DEF full
  <2>6. /\ region' \in [Runs -> [frames : [Slots -> Frames \cup {Blank}], head : Slots, tail : Slots]]
        /\ \A q \in Runs : q # r => region'[q] = region[q]
        /\ region'[r] = full
    BY <1>2, <1>5, <2>4, <2>5
  <2> QED
    BY <2>3, <2>4, <2>6
<1>a. TypeOK'
  BY <1>1, <1>2, <1>3, <1>6, <1>9 DEF TypeOK
<1>b. MemoryInv'
  BY <1>1, <1>3, <1>4, <1>5, <1>6, <1>9 DEF MemoryInv, Running, Runs
<1>c. SetupInv'
  BY <1>1, <1>3, <1>4, <1>5, <1>6 DEF SetupInv, SettingUp
<1>d. HandlesInv'
  BY <1>1, <1>3, <1>4, <1>5, <1>6 DEF HandlesInv, WriterLoop, Running
<1>e. TokensInv'
  BY <1>1, <1>2, <1>3, <1>4, <1>5, <1>6, <1>7, ShmAssumption DEF TokensInv, One, Current, Sems
<1>f. RingHoldsUnread'
  <2>1. /\ region[r].head = put % Capacity /\ region[r].tail = taken % Capacity
        /\ \A f \in taken .. put - 1 : region[r].frames[f % Capacity] = f
    BY <1>1, <1>2, <1>5 DEF RingHoldsUnread
  <2>2. region'[r].head = (put + 1) % Capacity
    BY <1>2, <1>9, <2>1, NextSlot, ShmAssumption
  <2>3. ASSUME NEW f \in taken .. put PROVE region'[r].frames[f % Capacity] = f
    <3>1. CASE f = put
      BY <3>1, <1>7, <1>9, <2>1
    <3>2. CASE f # put
      <4>1. f \in Nat /\ f < put /\ put < f + Capacity /\ f \in taken .. put - 1
        BY <3>2, <1>2, <1>7, ShmAssumption
      <4>2. f % Capacity # put % Capacity
        BY <4>1, <1>2, SlotsDiffer, ShmAssumption
      <4>3. f % Capacity \in Slots
        BY <4>1, ShmAssumption DEF Slots
      <4> QED
        BY <4>1, <4>2, <4>3, <1>9, <2>1
    <3> QED
      BY <3>1, <3>2
  <2> QED
    BY <1>2, <1>3, <1>6, <1>7, <1>9, <2>1, <2>2, <2>3, ShmAssumption DEF RingHoldsUnread
<1>g. CountInv'
  <2>1. writer'.i + 1 = put' /\ put' <= Total
    BY <1>2, <1>3, <1>6, <1>7, ShmAssumption
  <2> QED
    BY <1>1, <1>3, <1>6, <2>1 DEF CountInv, Running
<1>h. Successive'
  BY <1>1, <1>3 DEF Successive
<1>i. CleanInv'
  <2> SUFFICES ASSUME ready', clean' PROVE CleanTokens' /\ CleanWriter' /\ CleanReader'
    BY <1>6 DEF CleanInv, SettingUp
  <2>1. ready /\ clean /\ CleanTokens /\ CleanWriter /\ CleanReader
    BY <1>1, <1>3 DEF CleanInv
  <2>2. CleanTokens'
    BY <2>1, <1>2, <1>3, <1>4, <1>5, <1>6, ShmAssumption DEF CleanTokens, One, Current, Sems
  <2>3. CleanWriter'
    BY <1>6 DEF CleanWriter, WriterLoop
  <2>4. CleanReader'
    BY <2>1, <1>3 DEF CleanReader, Running
  <2> QED
    BY <2>1, <2>2, <2>3, <2>4
<1> QED
  BY <1>a, <1>b, <1>c, <1>d, <1>e, <1>f, <1>g, <1>h, <1>i DEF Inv

LEMMA WriterPostsKeeps == Patient /\ Inv /\ WriterPosts => Inv'
<1> SUFFICES ASSUME Inv, WriterPosts PROVE Inv'
  OBVIOUS
<1>1. /\ TypeOK /\ MemoryInv /\ SetupInv /\ HandlesInv /\ TokensInv
      /\ RingHoldsUnread /\ CountInv /\ Successive /\ CleanInv
  BY DEF Inv
<1>2. /\ writer \in Processes /\ reader \in Processes /\ run \in Nat /\ run <= MaxRuns
      /\ value \in [Sems -> [Runs -> Nat]] /\ put \in Nat /\ taken \in Nat
  BY <1>1, ShmAssumption DEF TypeOK
<1>3. /\ shmName' = shmName /\ semName' = semName /\ region' = region
      /\ put' = put /\ taken' = taken /\ reader' = reader
      /\ run' = run /\ ready' = ready /\ crashes' = crashes /\ clean' = clean
  BY DEF WriterPosts, ring, people
<1>4. writer.pc \in {"postMutex", "postFull"}
  BY DEF WriterPosts
<1>5. /\ ready /\ run \in Runs /\ \A s \in Sems : writer.sem[s] = run
  BY <1>1, <1>2, <1>4 DEF HandlesInv, SetupInv, WriterLoop, Runs
<1>6. writer.i \in Nat /\ writer.i + 1 = put /\ put <= Total
  BY <1>1, <1>2, <1>4 DEF CountInv, Processes
<1>7. /\ writer'.k = writer.k /\ writer'.region = writer.region /\ writer'.sem = writer.sem
      /\ writer'.got = writer.got
      /\ writer.pc = "postMutex" => writer'.pc = "postFull" /\ writer'.i = writer.i
      /\ writer.pc = "postFull" =>
           /\ writer'.i = put
           /\ writer'.pc = IF put < Total THEN "waitEmpty" ELSE "done"
      /\ writer' \in Processes
  <2>1. CASE writer.pc = "postMutex"
    BY <2>1, <1>2 DEF WriterPosts, Processes
  <2>2. CASE writer.pc = "postFull"
    <3>1. writer' = [writer EXCEPT !.i = put, !.pc = IF put < Total THEN "waitEmpty" ELSE "done"]
      BY <2>2, <1>2, <1>6 DEF WriterPosts, Processes
    <3>2. put \in 0 .. Total
      BY <1>2, <1>6, ShmAssumption
    <3> QED
      BY <2>2, <3>1, <3>2, <1>2 DEF Processes
  <2> QED
    BY <1>4, <2>1, <2>2
<1>8. /\ value' \in [Sems -> [Runs -> Nat]]
      /\ writer.pc = "postMutex" =>
           /\ value'["mutex"][run] = Current("mutex") + 1
           /\ value'["empty"] = value["empty"] /\ value'["full"] = value["full"]
      /\ writer.pc = "postFull" =>
           /\ value'["full"][run] = Current("full") + 1
           /\ value'["empty"] = value["empty"] /\ value'["mutex"] = value["mutex"]
  BY <1>2, <1>4, <1>5 DEF WriterPosts, Post, Current, Sems
<1>a. TypeOK'
  BY <1>1, <1>3, <1>7, <1>8 DEF TypeOK
<1>b. MemoryInv'
  BY <1>1, <1>3, <1>4, <1>5, <1>7 DEF MemoryInv, Running, Runs
<1>c. SetupInv'
  BY <1>1, <1>3, <1>4, <1>5, <1>7 DEF SetupInv, SettingUp
<1>d. HandlesInv'
  BY <1>1, <1>3, <1>4, <1>5, <1>7 DEF HandlesInv, WriterLoop, Running
<1>e. TokensInv'
  BY <1>1, <1>2, <1>3, <1>4, <1>5, <1>7, <1>8, ShmAssumption DEF TokensInv, One, Current, Sems
<1>f. RingHoldsUnread'
  BY <1>1, <1>3, <1>7 DEF RingHoldsUnread
<1>g. CountInv'
  BY <1>1, <1>3, <1>4, <1>6, <1>7 DEF CountInv, Running
<1>h. Successive'
  BY <1>1, <1>3 DEF Successive
<1>i. CleanInv'
  <2> SUFFICES ASSUME ready', clean' PROVE CleanTokens' /\ CleanWriter' /\ CleanReader'
    BY <1>4, <1>7 DEF CleanInv, SettingUp
  <2>1. ready /\ clean /\ CleanTokens /\ CleanWriter /\ CleanReader
    BY <1>1, <1>3 DEF CleanInv
  <2>2. CleanTokens'
    BY <2>1, <1>2, <1>3, <1>4, <1>5, <1>7, <1>8, ShmAssumption DEF CleanTokens, One, Current, Sems
  <2>3. CleanWriter'
    BY <1>2, <1>3, <1>4, <1>6, <1>7, ShmAssumption DEF CleanWriter, WriterLoop
  <2>4. CleanReader'
    BY <2>1, <1>3 DEF CleanReader, Running
  <2> QED
    BY <2>1, <2>2, <2>3, <2>4
<1> QED
  BY <1>a, <1>b, <1>c, <1>d, <1>e, <1>f, <1>g, <1>h, <1>i DEF Inv

LEMMA StartReaderKeeps == Patient /\ Inv /\ StartReader => Inv'
<1> SUFFICES ASSUME Patient, Inv, StartReader PROVE Inv'
  OBVIOUS
<1>1. /\ TypeOK /\ MemoryInv /\ SetupInv /\ HandlesInv /\ TokensInv
      /\ RingHoldsUnread /\ CountInv /\ Successive /\ CleanInv
  BY DEF Inv
<1>2. /\ run \in Nat /\ put \in Nat /\ taken \in Nat /\ shmName \in 0 .. MaxRuns
      /\ value \in [Sems -> [Runs -> Nat]]
  BY <1>1, ShmAssumption DEF TypeOK
<1>3. /\ shmName' = shmName /\ semName' = semName /\ value' = value /\ region' = region
      /\ put' = put /\ taken' = taken /\ writer' = writer
      /\ run' = run /\ ready' = ready /\ crashes' = crashes /\ clean' = clean
  BY DEF StartReader, kernel, ring, people
<1>4. /\ ready /\ ~Running(reader) /\ shmName # 0
  BY DEF StartReader
<1>5. run > 0 /\ shmName = writer.region
  BY <1>1, <1>4 DEF SetupInv, MemoryInv
<1>6. /\ reader'.pc = "open" /\ reader'.k = 1 /\ reader'.region = shmName
      /\ reader'.sem = [s \in Sems |-> 0] /\ reader'.i = 0 /\ reader'.got = <<>>
      /\ reader' \in Processes
  <2>1. reader' = [pc |-> "open", k |-> 1, region |-> shmName, sem |-> [s \in Sems |-> 0],
                   i |-> 0, got |-> <<>>]
    BY DEF StartReader, Process
  <2> QED
    BY <1>2, <2>1, ShmAssumption DEF Processes
<1>a. TypeOK'
  BY <1>1, <1>3, <1>6 DEF TypeOK
<1>b. MemoryInv'
  BY <1>1, <1>3 DEF MemoryInv, Running
<1>c. SetupInv'
  BY <1>1, <1>3 DEF SetupInv, Current
<1>d. HandlesInv'
  BY <1>1, <1>3, <1>4, <1>5, <1>6 DEF HandlesInv, Running
<1>e. TokensInv'
  BY <1>1, <1>2, <1>3, <1>4, <1>6 DEF TokensInv, One, Current, Running
<1>f. RingHoldsUnread'
  BY <1>1, <1>3 DEF RingHoldsUnread
<1>g. CountInv'
  BY <1>1, <1>2, <1>3, <1>6, ShmAssumption DEF CountInv, ReaderLoop
<1>h. Successive'
  BY <1>6 DEF Successive
<1>i. CleanInv'
  <2>0. writer.pc \notin SettingUp
    BY <1>1, <1>4 DEF SetupInv
  <2> SUFFICES ASSUME ready', clean' PROVE CleanTokens' /\ CleanWriter' /\ CleanReader'
    BY <2>0, <1>3 DEF CleanInv
  <2>1. ready /\ clean /\ CleanTokens /\ CleanWriter /\ CleanReader
    BY <1>1, <1>3 DEF CleanInv
  <2>2. CleanTokens'
    BY <2>1, <1>3, <1>4, <1>6 DEF CleanTokens, One, Current, Running
  <2>3. CleanWriter'
    BY <2>1, <1>3 DEF CleanWriter
  <2>4. CleanReader'
    <3>1. taken = 0 /\ \A s \in Sems : semName[s] = run
      BY <2>1, <1>4 DEF CleanReader, Running
    <3> QED
      BY <3>1, <1>3, <1>4, <1>6 DEF CleanReader, ReaderLoop, Running
  <2> QED
    BY <2>1, <2>2, <2>3, <2>4
<1> QED
  BY <1>a, <1>b, <1>c, <1>d, <1>e, <1>f, <1>g, <1>h, <1>i DEF Inv

LEMMA ReaderOpensKeeps == Patient /\ Inv /\ ReaderOpens => Inv'
<1> SUFFICES ASSUME Inv, ReaderOpens PROVE Inv'
  OBVIOUS
<1> DEFINE s == SemNames[reader.k]
<1>1. /\ TypeOK /\ MemoryInv /\ SetupInv /\ HandlesInv /\ TokensInv
      /\ RingHoldsUnread /\ CountInv /\ Successive /\ CleanInv
  BY DEF Inv
<1>2. /\ run \in Nat /\ put \in Nat /\ taken \in Nat /\ reader \in Processes
      /\ value \in [Sems -> [Runs -> Nat]] /\ semName \in [Sems -> 0 .. MaxRuns]
  BY <1>1, ShmAssumption DEF TypeOK
<1>3. /\ shmName' = shmName /\ semName' = semName /\ value' = value /\ region' = region
      /\ put' = put /\ taken' = taken /\ writer' = writer
      /\ run' = run /\ ready' = ready /\ crashes' = crashes /\ clean' = clean
  BY DEF ReaderOpens, kernel, ring, people
<1>4. reader.pc = "open" /\ reader.k \in 1 .. 3 /\ s \in Sems
  BY <1>1, Names DEF ReaderOpens, HandlesInv
<1>5. ready /\ semName[s] \in {0, run}
  BY <1>1, <1>4 DEF HandlesInv, Running
<1>6. /\ reader'.pc \in {"open", "waitFull"} /\ reader'.k \in 1 .. 3
      /\ reader'.region = reader.region
      /\ reader'.sem = [reader.sem EXCEPT ![s] = semName[s]]
      /\ reader'.i = reader.i /\ reader'.got = reader.got
  <2>1. CASE reader.k < 3
    BY <1>2, <1>4, <2>1 DEF ReaderOpens, Processes
  <2>2. CASE reader.k = 3
    BY <1>2, <1>4, <2>2 DEF ReaderOpens, Processes
  <2> QED
    BY <1>4, <2>1, <2>2
<1>9. reader' \in Processes
  <2>1. [reader.sem EXCEPT ![s] = semName[s]] \in [Sems -> 0 .. MaxRuns]
    BY <1>2, <1>4 DEF Processes
  <2>2. CASE reader.k < 3
    <3>1. reader' = [reader EXCEPT !.sem = [reader.sem EXCEPT ![s] = semName[s]], !.k = reader.k + 1]
      BY <1>2, <2>2 DEF ReaderOpens, Processes
    <3>2. reader.k + 1 \in 1 .. 4
      BY <1>4
    <3> QED
      BY <1>2, <2>1, <3>1, <3>2, StillProcess
  <2>3. CASE reader.k = 3
    <3>1. reader' = [reader EXCEPT !.sem = [reader.sem EXCEPT ![s] = semName[s]], !.k = 1, !.pc = "waitFull"]
      BY <1>2, <2>3 DEF ReaderOpens, Processes
    <3>2. 1 \in 1 .. 4
      OBVIOUS
    <3> QED
      BY <1>2, <2>1, <3>1, <3>2, StillProcess
  <2> QED
    BY <1>4, <2>2, <2>3
<1>7. \A t \in Sems : reader'.sem[t] \in {0, run}
  BY <1>1, <1>2, <1>4, <1>5, <1>6 DEF HandlesInv, Running, Processes
<1>8. reader.i < Total
  BY <1>1, <1>4 DEF CountInv, ReaderLoop
<1>a. TypeOK'
  BY <1>1, <1>3, <1>9 DEF TypeOK
<1>b. MemoryInv'
  BY <1>1, <1>3 DEF MemoryInv, Running
<1>c. SetupInv'
  BY <1>1, <1>3 DEF SetupInv, Current
<1>d. HandlesInv'
  BY <1>1, <1>3, <1>4, <1>5, <1>6, <1>7 DEF HandlesInv, Running
<1>e. TokensInv'
  BY <1>1, <1>2, <1>3, <1>4, <1>6 DEF TokensInv, One, Current
<1>f. RingHoldsUnread'
  BY <1>1, <1>3 DEF RingHoldsUnread
<1>g. CountInv'
  BY <1>1, <1>2, <1>3, <1>4, <1>6, <1>8 DEF CountInv, ReaderLoop, Running
<1>h. Successive'
  BY <1>1, <1>6 DEF Successive
<1>i. CleanInv'
  <2>0. writer.pc \notin SettingUp
    BY <1>1, <1>5 DEF SetupInv
  <2> SUFFICES ASSUME ready', clean' PROVE CleanTokens' /\ CleanWriter' /\ CleanReader'
    BY <2>0, <1>3 DEF CleanInv
  <2>1. ready /\ clean /\ CleanTokens /\ CleanWriter /\ CleanReader
    BY <1>1, <1>3 DEF CleanInv
  <2>2. CleanTokens'
    BY <2>1, <1>2, <1>3, <1>4, <1>6, ShmAssumption DEF CleanTokens, One, Current, Sems
  <2>3. CleanWriter'
    BY <2>1, <1>3 DEF CleanWriter
  <2>4. CleanReader'
    <3>1. /\ taken = reader.i /\ Len(reader.got) = taken /\ shmName # 0
          /\ \A t \in Sems : semName[t] = run
          /\ \A j \in 1 .. reader.k - 1 : reader.sem[SemNames[j]] = run
      BY <2>1, <1>4 DEF CleanReader, Running
    <3>2. \A j \in 1 .. reader.k : reader'.sem[SemNames[j]] = run
      BY <3>1, <1>2, <1>4, <1>6, Names DEF Processes
    <3>3. reader.k < 3 => reader'.pc = "open" /\ reader'.k = reader.k + 1
      BY <1>2, <1>4 DEF ReaderOpens, Processes
    <3>4. reader.k = 3 => reader'.pc = "waitFull"
      BY <1>2, <1>4 DEF ReaderOpens, Processes
    <3>5. CASE reader.k < 3
      <4>1. reader'.pc = "open" /\ \A j \in 1 .. reader'.k - 1 : reader'.sem[SemNames[j]] = run
        BY <3>2, <3>3, <3>5, <1>4
      <4> QED
        BY <4>1, <3>1, <1>3, <1>6 DEF CleanReader, ReaderLoop, Running
    <3>6. CASE reader.k = 3
      <4>1. reader'.pc = "waitFull" /\ \A t \in Sems : reader'.sem[t] = run
        BY <3>2, <3>4, <3>6, Names
      <4> QED
        BY <4>1, <3>1, <1>3, <1>6 DEF CleanReader, ReaderLoop, Running
    <3> QED
      BY <3>5, <3>6, <1>4
  <2> QED
    BY <2>1, <2>2, <2>3, <2>4
<1> QED
  BY <1>a, <1>b, <1>c, <1>d, <1>e, <1>f, <1>g, <1>h, <1>i DEF Inv

LEMMA ReaderFaultsKeeps == Patient /\ Inv /\ ReaderFaults => Inv'
<1> SUFFICES ASSUME Inv, ReaderFaults PROVE Inv'
  OBVIOUS
<1>1. /\ TypeOK /\ MemoryInv /\ SetupInv /\ HandlesInv /\ TokensInv
      /\ RingHoldsUnread /\ CountInv /\ Successive /\ CleanInv
  BY DEF Inv
<1>2. /\ run \in Nat /\ put \in Nat /\ taken \in Nat /\ reader \in Processes
      /\ value \in [Sems -> [Runs -> Nat]]
  BY <1>1, ShmAssumption DEF TypeOK
<1>3. /\ shmName' = shmName /\ semName' = semName /\ value' = value /\ region' = region
      /\ put' = put /\ taken' = taken /\ writer' = writer
      /\ run' = run /\ ready' = ready /\ crashes' = crashes /\ clean' = FALSE
  BY DEF ReaderFaults, kernel, ring
<1>4. /\ reader'.pc = "off" /\ reader'.got = reader.got /\ reader' \in Processes
  BY <1>2 DEF ReaderFaults, Processes
<1>a. TypeOK'
  BY <1>1, <1>3, <1>4 DEF TypeOK
<1>b. MemoryInv'
  BY <1>1, <1>3 DEF MemoryInv, Running
<1>c. SetupInv'
  BY <1>1, <1>3 DEF SetupInv, Current
<1>d. HandlesInv'
  BY <1>1, <1>3, <1>4 DEF HandlesInv, Running
<1>e. TokensInv'
  <2>1. ready => run \in Runs
    BY <1>1, <1>2, ShmAssumption DEF SetupInv, TypeOK, Runs
  <2> QED
    BY <1>1, <1>2, <1>3, <1>4, <2>1, ShmAssumption DEF TokensInv, One, Current, Sems
<1>f. RingHoldsUnread'
  BY <1>1, <1>3 DEF RingHoldsUnread
<1>g. CountInv'
  BY <1>1, <1>3, <1>4 DEF CountInv, ReaderLoop, Running
<1>h. Successive'
  BY <1>1, <1>4 DEF Successive
<1>i. CleanInv'
  BY <1>1, <1>3 DEF CleanInv
<1> QED
  BY <1>a, <1>b, <1>c, <1>d, <1>e, <1>f, <1>g, <1>h, <1>i DEF Inv

LEMMA ReaderWaitsKeeps == Patient /\ Inv /\ ReaderWaits => Inv'
<1> SUFFICES ASSUME Inv, ReaderWaits PROVE Inv'
  OBVIOUS
<1>1. /\ TypeOK /\ MemoryInv /\ SetupInv /\ HandlesInv /\ TokensInv
      /\ RingHoldsUnread /\ CountInv /\ Successive /\ CleanInv
  BY DEF Inv
<1>2. /\ writer \in Processes /\ reader \in Processes /\ run \in Nat /\ run <= MaxRuns
      /\ value \in [Sems -> [Runs -> Nat]] /\ put \in Nat /\ taken \in Nat
  BY <1>1, ShmAssumption DEF TypeOK
<1>3. /\ shmName' = shmName /\ semName' = semName /\ region' = region
      /\ put' = put /\ taken' = taken /\ writer' = writer
      /\ run' = run /\ ready' = ready /\ crashes' = crashes /\ clean' = clean
  BY DEF ReaderWaits, ring, people
<1>4. /\ reader.pc \in {"waitFull", "waitMutex"}
      /\ reader.pc = "waitFull" => reader.sem["full"] # 0
      /\ reader.pc = "waitMutex" => reader.sem["mutex"] # 0
  BY DEF ReaderWaits
<1>5. /\ ready /\ run \in Runs
      /\ reader.pc = "waitFull" => reader.sem["full"] = run
      /\ reader.pc = "waitMutex" => reader.sem["mutex"] = run
  BY <1>1, <1>2, <1>4 DEF HandlesInv, SetupInv, Running, Runs, Sems
<1>6. /\ reader'.k = reader.k /\ reader'.region = reader.region /\ reader'.sem = reader.sem
      /\ reader'.i = reader.i /\ reader'.got = reader.got
      /\ reader.pc = "waitFull" => reader'.pc = "waitMutex"
      /\ reader.pc = "waitMutex" => reader'.pc = "take"
      /\ reader' \in Processes
  BY <1>2 DEF ReaderWaits, Processes
<1>7. /\ value' \in [Sems -> [Runs -> Nat]]
      /\ reader.pc = "waitFull" =>
           /\ Current("full") > 0
           /\ value'["full"][run] = Current("full") - 1
           /\ value'["mutex"] = value["mutex"] /\ value'["empty"] = value["empty"]
      /\ reader.pc = "waitMutex" =>
           /\ Current("mutex") > 0
           /\ value'["mutex"][run] = Current("mutex") - 1
           /\ value'["empty"] = value["empty"] /\ value'["full"] = value["full"]
  BY <1>2, <1>4, <1>5 DEF ReaderWaits, Wait, Current, Sems
<1>a. TypeOK'
  BY <1>1, <1>3, <1>6, <1>7 DEF TypeOK
<1>b. MemoryInv'
  BY <1>1, <1>3 DEF MemoryInv, Running
<1>c. SetupInv'
  <2>1. writer.pc \notin SettingUp
    BY <1>1, <1>5 DEF SetupInv
  <2> QED
    BY <1>1, <1>3, <2>1 DEF SetupInv, SettingUp
<1>d. HandlesInv'
  BY <1>1, <1>3, <1>4, <1>5, <1>6 DEF HandlesInv, Running
<1>e. TokensInv'
  BY <1>1, <1>2, <1>3, <1>4, <1>5, <1>6, <1>7, ShmAssumption DEF TokensInv, One, Current, Sems
<1>f. RingHoldsUnread'
  BY <1>1, <1>3 DEF RingHoldsUnread
<1>g. CountInv'
  BY <1>1, <1>3, <1>4, <1>6 DEF CountInv, Running, ReaderLoop
<1>h. Successive'
  BY <1>1, <1>6 DEF Successive
<1>i. CleanInv'
  <2>0. writer.pc \notin SettingUp
    BY <1>1, <1>5 DEF SetupInv
  <2> SUFFICES ASSUME ready', clean' PROVE CleanTokens' /\ CleanWriter' /\ CleanReader'
    BY <2>0, <1>3 DEF CleanInv
  <2>1. ready /\ clean /\ CleanTokens /\ CleanWriter /\ CleanReader
    BY <1>1, <1>3 DEF CleanInv
  <2>2. CleanTokens'
    BY <2>1, <1>2, <1>3, <1>4, <1>5, <1>6, <1>7, ShmAssumption DEF CleanTokens, One, Current, Sems
  <2>3. CleanWriter'
    BY <2>1, <1>3 DEF CleanWriter
  <2>4. CleanReader'
    BY <2>1, <1>3, <1>4, <1>6 DEF CleanReader, ReaderLoop, Running
  <2> QED
    BY <2>1, <2>2, <2>3, <2>4
<1> QED
  BY <1>a, <1>b, <1>c, <1>d, <1>e, <1>f, <1>g, <1>h, <1>i DEF Inv

LEMMA ReaderTakesKeeps == Patient /\ Inv /\ ReaderTakes => Inv'
<1> SUFFICES ASSUME Inv, ReaderTakes PROVE Inv'
  OBVIOUS
<1> DEFINE r == writer.region
           frame == region[r].frames[region[r].tail]
<1>1. /\ TypeOK /\ MemoryInv /\ SetupInv /\ HandlesInv /\ TokensInv
      /\ RingHoldsUnread /\ CountInv /\ Successive /\ CleanInv
  BY DEF Inv
<1>2. /\ writer \in Processes /\ reader \in Processes /\ run \in Nat /\ run <= MaxRuns
      /\ value \in [Sems -> [Runs -> Nat]] /\ put \in Nat /\ taken \in Nat
      /\ region \in [Runs -> [frames : [Slots -> Frames \cup {Blank}], head : Slots, tail : Slots]]
  BY <1>1, ShmAssumption DEF TypeOK
<1>3. /\ shmName' = shmName /\ semName' = semName /\ value' = value
      /\ put' = put /\ taken' = taken + 1 /\ writer' = writer
      /\ run' = run /\ ready' = ready /\ crashes' = crashes /\ clean' = clean
  BY DEF ReaderTakes, kernel, people
<1>4. reader.pc = "take"
  BY DEF ReaderTakes
<1>5. /\ ready /\ run \in Runs /\ reader.region = r /\ r \in 1 .. run /\ r \in Runs
      /\ reader.sem["mutex"] = run
  <2>1. ready /\ reader.region = r /\ reader.sem["mutex"] = run
    BY <1>1, <1>4 DEF HandlesInv, Running
  <2>2. run > 0
    BY <1>1, <2>1 DEF SetupInv
  <2>3. r \in 1 .. run
    BY <1>1, <2>2 DEF MemoryInv
  <2> QED
    BY <1>2, <2>1, <2>2, <2>3, ShmAssumption DEF Runs
<1>6. /\ put - taken \in 1 .. Capacity
      /\ region[r].head = put % Capacity /\ region[r].tail = taken % Capacity
      /\ \A f \in taken .. put - 1 : region[r].frames[f % Capacity] = f
  BY <1>1, <1>2, <1>4, <1>5, FrameToTake DEF RingHoldsUnread
<1>7. frame = taken
  BY <1>4, <1>5, FrameToTake
<1>8. (region[r].tail + 1) % Capacity \in Slots
  <2>1. region[r].tail \in Slots
    BY <1>2, <1>5
  <2>2. region[r].tail + 1 \in Nat
    BY <2>1 DEF Slots
  <2> QED
    BY <2>2, DivMod, ShmAssumption DEF Slots
<1>9. /\ region' \in [Runs -> [frames : [Slots -> Frames \cup {Blank}], head : Slots, tail : Slots]]
      /\ \A q \in Runs : q # r => region'[q] = region[q]
      /\ region'[r].tail = (region[r].tail + 1) % Capacity
      /\ region'[r].head = region[r].head
      /\ region'[r].frames = region[r].frames
  <2>1. region' = [region EXCEPT ![r] = [region[r] EXCEPT !.tail = (@ + 1) % Capacity]]
    BY <1>2, <1>5 DEF ReaderTakes
  <2> QED
    BY <1>2, <1>5, <1>8, <2>1
<1>10. reader.got \in Seq(Frames \cup {Blank}) /\ frame \in Frames \cup {Blank}
  <2>1. region[r].tail \in Slots /\ region[r].frames \in [Slots -> Frames \cup {Blank}]
    BY <1>2, <1>5
  <2> QED
    BY <1>2, <2>1 DEF Processes
<1>11. /\ reader'.pc = "postMutex" /\ reader'.k = reader.k /\ reader'.region = r
       /\ reader'.sem = reader.sem /\ reader'.i = reader.i
       /\ reader'.got = Append(reader.got, taken)
       /\ reader' \in Processes
  <2>1. reader' = [reader EXCEPT !.pc = "postMutex", !.got = Append(reader.got, taken)]
    BY <1>2, <1>5, <1>7 DEF ReaderTakes, Processes
  <2>2. Append(reader.got, taken) \in Seq(Frames \cup {Blank})
    BY <1>7, <1>10
  <2> QED
    BY <1>2, <1>5, <2>1, <2>2 DEF Processes
<1>12. /\ Len(reader.got) \in Nat /\ Len(reader'.got) = Len(reader.got) + 1
       /\ \A k \in 1 .. Len(reader.got) : reader'.got[k] = reader.got[k]
       /\ reader'.got[Len(reader.got) + 1] = taken
  BY <1>10, <1>11
<1>13. /\ Len(reader.got) <= taken /\ reader.i < Total
       /\ \A k \in 1 .. Len(reader.got) : reader.got[k] = taken - Len(reader.got) + k - 1
  BY <1>1, <1>4 DEF CountInv, ReaderLoop, Running
<1>a. TypeOK'
  BY <1>1, <1>2, <1>3, <1>9, <1>11 DEF TypeOK
<1>b. MemoryInv'
  BY <1>1, <1>3, <1>5, <1>9 DEF MemoryInv, Running, Runs
<1>c. SetupInv'
  <2>1. writer.pc \notin SettingUp
    BY <1>1, <1>5 DEF SetupInv
  <2> QED
    BY <1>1, <1>3, <2>1 DEF SetupInv, SettingUp
<1>d. HandlesInv'
  BY <1>1, <1>3, <1>4, <1>5, <1>11 DEF HandlesInv, Running
<1>e. TokensInv'
  <2>1. Current("mutex") \in Nat /\ Current("full") \in Nat /\ Current("empty") \in Nat
    BY <1>2, <1>5 DEF Current, Sems
  <2>2. \A s : Current(s)' = Current(s)
    BY <1>3 DEF Current
  <2>3. /\ Current("mutex") + One(writer.pc \in {"put", "postMutex"}) + 1 <= 1
        /\ Current("full") + One(writer.pc \in {"postMutex", "postFull"}) + 1 <= put - taken
        /\ Current("empty") + One(writer.pc \in {"waitMutex", "put"}) + 0 <= Capacity - (put - taken)
    BY <1>1, <1>4, <1>5 DEF TokensInv, One
  <2>4. /\ One(reader'.pc \in {"take", "postMutex"}) = 1
        /\ One(reader'.pc \in {"waitMutex", "take"}) = 0
        /\ One(reader'.pc \in {"postMutex", "postEmpty"}) = 1
    BY <1>11 DEF One
  <2>5. /\ One(writer.pc \in {"postMutex", "postFull"}) \in {0, 1}
        /\ One(writer.pc \in {"waitMutex", "put"}) \in {0, 1}
    BY DEF One
  <2>6. /\ Current("full") + One(writer.pc \in {"postMutex", "postFull"}) + 0 <= put - (taken + 1)
        /\ Current("empty") + One(writer.pc \in {"waitMutex", "put"}) + 1
             <= Capacity - (put - (taken + 1))
    BY <1>2, <2>1, <2>3, <2>5, ShmAssumption
  <2> QED
    BY <1>3, <2>2, <2>3, <2>4, <2>6 DEF TokensInv
<1>f. RingHoldsUnread'
  <2>1. region'[r].tail = (taken + 1) % Capacity
    BY <1>2, <1>6, <1>9, NextSlot, ShmAssumption
  <2>2. put \in (taken + 1) .. (taken + 1) + Capacity
    BY <1>2, <1>6, ShmAssumption
  <2>3. \A f \in (taken + 1) .. put - 1 : region'[r].frames[f % Capacity] = f
    BY <1>2, <1>6, <1>9
  <2> QED
    BY <1>3, <1>6, <1>9, <2>1, <2>2, <2>3 DEF RingHoldsUnread
<1>g. CountInv'
  <2>1. Len(reader'.got) <= taken' /\ reader'.i < Total
    BY <1>2, <1>3, <1>11, <1>12, <1>13
  <2>2. ASSUME NEW k \in 1 .. Len(reader'.got)
        PROVE  reader'.got[k] = taken' - Len(reader'.got) + k - 1
    <3>1. CASE k = Len(reader.got) + 1
      BY <3>1, <1>2, <1>3, <1>12
    <3>2. CASE k # Len(reader.got) + 1
      <4>1. k \in 1 .. Len(reader.got)
        BY <3>2, <1>12
      <4>2. reader'.got[k] = reader.got[k] /\ reader.got[k] = taken - Len(reader.got) + k - 1
        BY <4>1, <1>12, <1>13
      <4>3. /\ taken' = taken + 1 /\ Len(reader'.got) = Len(reader.got) + 1
            /\ taken \in Nat /\ Len(reader.got) \in Nat /\ k \in Nat
        BY <4>1, <1>2, <1>3, <1>12
      <4> QED
        BY <4>2, <4>3
    <3> QED
      BY <3>1, <3>2
  <2>3. \A k \in 1 .. Len(reader'.got) : reader'.got[k] = taken' - Len(reader'.got) + k - 1
    BY <2>2
  <2> QED
    BY <1>1, <1>3, <2>1, <2>3 DEF CountInv
<1>h. Successive'
  <2>1. ASSUME NEW k \in 1 .. Len(reader'.got)
        PROVE  reader'.got[k] = taken - Len(reader.got) + k - 1 /\ k \in Nat
    <3>1. CASE k = Len(reader.got) + 1
      BY <3>1, <1>2, <1>12
    <3>2. CASE k # Len(reader.got) + 1
      <4>1. k \in 1 .. Len(reader.got)
        BY <3>2, <1>12
      <4>2. reader'.got[k] = reader.got[k] /\ reader.got[k] = taken - Len(reader.got) + k - 1
        BY <4>1, <1>12, <1>13
      <4> QED
        BY <4>2
    <3> QED
      BY <3>1, <3>2
  <2>2. ASSUME NEW k \in 1 .. Len(reader'.got) PROVE reader'.got[k] # Blank
    <3>1. reader'.got[k] = taken - Len(reader.got) + k - 1 /\ k >= 1
      BY <2>1
    <3> QED
      BY <3>1, <1>2, <1>12, <1>13 DEF Blank
  <2>3. ASSUME NEW k \in 2 .. Len(reader'.got)
        PROVE  reader'.got[k] = reader'.got[k - 1] + 1
    <3>1. k \in 1 .. Len(reader'.got) /\ k - 1 \in 1 .. Len(reader'.got)
      BY <1>12
    <3>2. /\ reader'.got[k] = taken - Len(reader.got) + k - 1
          /\ reader'.got[k - 1] = taken - Len(reader.got) + (k - 1) - 1
      BY <2>1, <3>1
    <3> QED
      BY <3>1, <3>2, <1>2, <1>12
  <2> QED
    BY <2>2, <2>3 DEF Successive
<1>i. CleanInv'
  <2>0. writer.pc \notin SettingUp
    BY <1>1, <1>5 DEF SetupInv
  <2> SUFFICES ASSUME ready', clean' PROVE CleanTokens' /\ CleanWriter' /\ CleanReader'
    BY <2>0, <1>3 DEF CleanInv
  <2>1. ready /\ clean /\ CleanTokens /\ CleanWriter /\ CleanReader
    BY <1>1, <1>3 DEF CleanInv
  <2>2. CleanTokens'
    <3>1. Current("mutex") \in Nat /\ Current("full") \in Nat /\ Current("empty") \in Nat
      BY <1>2, <1>5 DEF Current, Sems
    <3>2. \A s : Current(s)' = Current(s)
      BY <1>3 DEF Current
    <3>3. /\ Current("mutex") + One(writer.pc \in {"put", "postMutex"}) + 1 = 1
          /\ Current("full") + One(writer.pc \in {"postMutex", "postFull"}) + 1 = put - taken
          /\ Current("empty") + One(writer.pc \in {"waitMutex", "put"}) + 0 = Capacity - (put - taken)
      BY <2>1, <1>4 DEF CleanTokens, One
    <3>4. /\ One(reader'.pc \in {"take", "postMutex"}) = 1
          /\ One(reader'.pc \in {"waitMutex", "take"}) = 0
          /\ One(reader'.pc \in {"postMutex", "postEmpty"}) = 1
      BY <1>11 DEF One
    <3>5. /\ One(writer.pc \in {"postMutex", "postFull"}) \in {0, 1}
          /\ One(writer.pc \in {"waitMutex", "put"}) \in {0, 1}
      BY DEF One
    <3>6. /\ Current("full") + One(writer.pc \in {"postMutex", "postFull"}) + 0 = put - (taken + 1)
          /\ Current("empty") + One(writer.pc \in {"waitMutex", "put"}) + 1
               = Capacity - (put - (taken + 1))
      <4> DEFINE p == One(writer.pc \in {"postMutex", "postFull"})
                 w == One(writer.pc \in {"waitMutex", "put"})
                 f == Current("full")
                 e == Current("empty")
      <4>1. /\ p \in {0, 1} /\ w \in {0, 1} /\ f \in Nat /\ e \in Nat
            /\ f + p + 1 = put - taken /\ e + w + 0 = Capacity - (put - taken)
        BY <3>1, <3>3, <3>5
      <4> HIDE DEF p, w, f, e
      <4>2. f + p + 0 = put - (taken + 1) /\ e + w + 1 = Capacity - (put - (taken + 1))
        BY <1>2, <4>1, ShmAssumption
      <4> QED
        BY <4>2 DEF p, w, f, e
    <3> QED
      BY <1>3, <3>2, <3>3, <3>4, <3>6 DEF CleanTokens
  <2>3. CleanWriter'
    BY <2>1, <1>3 DEF CleanWriter
  <2>4. CleanReader'
    <3>1. /\ taken = reader.i /\ Len(reader.got) = taken /\ shmName # 0
          /\ \A t \in Sems : semName[t] = run /\ reader.sem[t] = run
      BY <2>1, <1>4 DEF CleanReader, ReaderLoop, Running
    <3> QED
      BY <3>1, <1>3, <1>11, <1>12 DEF CleanReader, ReaderLoop, Running
  <2> QED
    BY <2>1, <2>2, <2>3, <2>4
<1> QED
  BY <1>a, <1>b, <1>c, <1>d, <1>e, <1>f, <1>g, <1>h, <1>i DEF Inv

LEMMA ReaderPostsKeeps == Patient /\ Inv /\ ReaderPosts => Inv'
<1> SUFFICES ASSUME Inv, ReaderPosts PROVE Inv'
  OBVIOUS
<1>1. /\ TypeOK /\ MemoryInv /\ SetupInv /\ HandlesInv /\ TokensInv
      /\ RingHoldsUnread /\ CountInv /\ Successive /\ CleanInv
  BY DEF Inv
<1>2. /\ writer \in Processes /\ reader \in Processes /\ run \in Nat /\ run <= MaxRuns
      /\ value \in [Sems -> [Runs -> Nat]] /\ put \in Nat /\ taken \in Nat
  BY <1>1, ShmAssumption DEF TypeOK
<1>3. /\ shmName' = shmName /\ semName' = semName /\ region' = region
      /\ put' = put /\ taken' = taken /\ writer' = writer
      /\ run' = run /\ ready' = ready /\ crashes' = crashes /\ clean' = clean
  BY DEF ReaderPosts, ring, people
<1>4. /\ reader.pc \in {"postMutex", "postEmpty"}
      /\ reader.pc = "postEmpty" => reader.sem["empty"] # 0
  BY DEF ReaderPosts
<1>5. /\ ready /\ run \in Runs
      /\ reader.pc = "postMutex" => reader.sem["mutex"] = run
      /\ reader.pc = "postEmpty" => reader.sem["empty"] = run
  BY <1>1, <1>2, <1>4 DEF HandlesInv, SetupInv, Running, Runs, Sems
<1>6. reader.i \in Nat /\ reader.i < Total
  BY <1>1, <1>2, <1>4 DEF CountInv, ReaderLoop, Processes
<1>7. /\ reader'.k = reader.k /\ reader'.region = reader.region /\ reader'.sem = reader.sem
      /\ reader'.got = reader.got
      /\ reader.pc = "postMutex" => reader'.pc = "postEmpty" /\ reader'.i = reader.i
      /\ reader.pc = "postEmpty" =>
           /\ reader'.i = reader.i + 1
           /\ reader'.pc = IF reader.i + 1 < Total THEN "waitFull" ELSE "teardown"
      /\ reader' \in Processes
  <2>1. CASE reader.pc = "postMutex"
    BY <2>1, <1>2 DEF ReaderPosts, Processes
  <2>2. CASE reader.pc = "postEmpty"
    <3>1. reader' = [reader EXCEPT !.i = reader.i + 1,
                                   !.pc = IF reader.i + 1 < Total THEN "waitFull" ELSE "teardown"]
      BY <2>2, <1>2 DEF ReaderPosts, NextFrame, Processes
    <3>2. reader.i + 1 \in 0 .. Total
      BY <1>6, ShmAssumption
    <3> QED
      BY <2>2, <3>1, <3>2, <1>2 DEF Processes
  <2> QED
    BY <1>4, <2>1, <2>2
<1>8. /\ value' \in [Sems -> [Runs -> Nat]]
      /\ reader.pc = "postMutex" =>
           /\ value'["mutex"][run] = Current("mutex") + 1
           /\ value'["empty"] = value["empty"] /\ value'["full"] = value["full"]
      /\ reader.pc = "postEmpty" =>
           /\ value'["empty"][run] = Current("empty") + 1
           /\ value'["full"] = value["full"] /\ value'["mutex"] = value["mutex"]
  BY <1>2, <1>4, <1>5 DEF ReaderPosts, Post, Current, Sems
<1>a. TypeOK'
  BY <1>1, <1>3, <1>7, <1>8 DEF TypeOK
<1>b. MemoryInv'
  BY <1>1, <1>3 DEF MemoryInv, Running
<1>c. SetupInv'
  <2>1. writer.pc \notin SettingUp
    BY <1>1, <1>5 DEF SetupInv
  <2> QED
    BY <1>1, <1>3, <2>1 DEF SetupInv, SettingUp
<1>d. HandlesInv'
  BY <1>1, <1>3, <1>4, <1>5, <1>7 DEF HandlesInv, Running
<1>e. TokensInv'
  BY <1>1, <1>2, <1>3, <1>4, <1>5, <1>7, <1>8, ShmAssumption DEF TokensInv, One, Current, Sems
<1>f. RingHoldsUnread'
  BY <1>1, <1>3 DEF RingHoldsUnread
<1>g. CountInv'
  BY <1>1, <1>2, <1>3, <1>4, <1>6, <1>7 DEF CountInv, Running, ReaderLoop
<1>h. Successive'
  BY <1>1, <1>7 DEF Successive
<1>i. CleanInv'
  <2>0. writer.pc \notin SettingUp
    BY <1>1, <1>5 DEF SetupInv
  <2> SUFFICES ASSUME ready', clean' PROVE CleanTokens' /\ CleanWriter' /\ CleanReader'
    BY <2>0, <1>3 DEF CleanInv
  <2>1. ready /\ clean /\ CleanTokens /\ CleanWriter /\ CleanReader
    BY <1>1, <1>3 DEF CleanInv
  <2>2. CleanTokens'
    BY <2>1, <1>2, <1>3, <1>4, <1>5, <1>7, <1>8, ShmAssumption DEF CleanTokens, One, Current, Sems
  <2>3. CleanWriter'
    BY <2>1, <1>3 DEF CleanWriter
  <2>4. CleanReader'
    <3>1. /\ taken = reader.i + 1 /\ Len(reader.got) = taken /\ shmName # 0
          /\ \A t \in Sems : semName[t] = run /\ reader.sem[t] = run
      BY <2>1, <1>4 DEF CleanReader, ReaderLoop, Running
    <3>2. CASE reader.pc = "postMutex"
      BY <3>1, <3>2, <1>3, <1>7 DEF CleanReader, ReaderLoop, Running
    <3>3. CASE reader.pc = "postEmpty"
      <4>1. \/ reader'.pc = "waitFull" /\ taken = reader'.i
            \/ reader'.pc = "teardown" /\ taken = Total
        BY <3>1, <3>3, <1>6, <1>7, ShmAssumption
      <4> QED
        BY <4>1, <3>1, <1>3, <1>7 DEF CleanReader, ReaderLoop, Running
    <3> QED
      BY <3>2, <3>3, <1>4
  <2> QED
    BY <2>1, <2>2, <2>3, <2>4
<1> QED
  BY <1>a, <1>b, <1>c, <1>d, <1>e, <1>f, <1>g, <1>h, <1>i DEF Inv

LEMMA ReaderUnlinksKeeps == Patient /\ Inv /\ ReaderUnlinks => Inv'
<1> SUFFICES ASSUME Inv, ReaderUnlinks PROVE Inv'
  OBVIOUS
<1>1. /\ TypeOK /\ MemoryInv /\ SetupInv /\ HandlesInv /\ TokensInv
      /\ RingHoldsUnread /\ CountInv /\ Successive /\ CleanInv
  BY DEF Inv
<1>2. /\ reader \in Processes /\ run \in Nat
      /\ shmName \in 0 .. MaxRuns /\ semName \in [Sems -> 0 .. MaxRuns]
  BY <1>1, ShmAssumption DEF TypeOK
<1>3. /\ value' = value /\ region' = region /\ put' = put /\ taken' = taken
      /\ writer' = writer /\ run' = run /\ ready' = ready /\ crashes' = crashes /\ clean' = clean
  BY DEF ReaderUnlinks, ring, people
<1>4. reader.pc = "teardown"
  BY DEF ReaderUnlinks
<1>5. ready /\ writer.pc \notin SettingUp
  BY <1>1, <1>4 DEF HandlesInv, SetupInv, Running
<1>6. /\ reader'.pc \in {"teardown", "done"} /\ reader'.region = reader.region
      /\ reader'.sem = reader.sem /\ reader'.got = reader.got
      /\ reader' \in Processes
      /\ shmName' \in {0, shmName} /\ semName' \in [Sems -> 0 .. MaxRuns]
      /\ \A s \in Sems : semName'[s] \in {0, semName[s]}
  <2>1. CASE reader.k <= 3
    <3>1. reader.k \in 1 .. 3 /\ SemNames[reader.k] \in Sems
      BY <1>2, <2>1, Names DEF Processes
    <3>2. /\ semName' = [semName EXCEPT ![SemNames[reader.k]] = 0] /\ shmName' = shmName
          /\ reader' = [reader EXCEPT !.k = @ + 1]
      BY <2>1 DEF ReaderUnlinks
    <3>3. reader'.pc = "teardown" /\ reader'.region = reader.region
          /\ reader'.sem = reader.sem /\ reader'.got = reader.got /\ reader' \in Processes
      <4>1. reader.k + 1 \in 1 .. 4
        BY <3>1
      <4> QED
        BY <3>2, <4>1, <1>2, <1>4 DEF Processes
    <3>4. /\ semName' \in [Sems -> 0 .. MaxRuns]
          /\ \A s \in Sems : semName'[s] \in {0, semName[s]}
      BY <3>1, <3>2, <1>2, ShmAssumption
    <3> QED
      BY <3>2, <3>3, <3>4
  <2>2. CASE ~(reader.k <= 3)
    BY <2>2, <1>2 DEF ReaderUnlinks, Processes
  <2> QED
    BY <2>1, <2>2
<1>a. TypeOK'
  BY <1>1, <1>2, <1>3, <1>6, ShmAssumption DEF TypeOK
<1>b. MemoryInv'
  BY <1>1, <1>3, <1>6 DEF MemoryInv, Running
<1>c. SetupInv'
  BY <1>1, <1>3, <1>5 DEF SetupInv, SettingUp
<1>d. HandlesInv'
  BY <1>1, <1>3, <1>4, <1>5, <1>6 DEF HandlesInv, Running
<1>e. TokensInv'
  BY <1>1, <1>3, <1>4, <1>6 DEF TokensInv, One, Current
<1>f. RingHoldsUnread'
  BY <1>1, <1>3 DEF RingHoldsUnread
<1>g. CountInv'
  BY <1>1, <1>3, <1>4, <1>6 DEF CountInv, ReaderLoop, Running
<1>h. Successive'
  BY <1>1, <1>6 DEF Successive
<1>i. CleanInv'
  <2> SUFFICES ASSUME ready', clean' PROVE CleanTokens' /\ CleanWriter' /\ CleanReader'
    BY <1>3, <1>5 DEF CleanInv
  <2>1. ready /\ clean /\ CleanTokens /\ CleanWriter /\ CleanReader
    BY <1>1, <1>3 DEF CleanInv
  <2>2. CleanTokens'
    BY <2>1, <1>3, <1>4, <1>6 DEF CleanTokens, One, Current
  <2>3. CleanWriter'
    BY <2>1, <1>3 DEF CleanWriter
  <2>4. CleanReader'
    <3>1. taken = Total /\ Len(reader.got) = taken /\ shmName # 0
      BY <2>1, <1>4 DEF CleanReader, Running
    <3>2. CASE reader.k <= 3
      <4>1. reader'.pc = "teardown" /\ shmName' = shmName
        BY <3>2, <1>2, <1>4 DEF ReaderUnlinks, Processes
      <4> QED
        BY <4>1, <3>1, <1>3, <1>6 DEF CleanReader, ReaderLoop, Running
    <3>3. CASE ~(reader.k <= 3)
      <4>1. reader'.pc = "done" /\ shmName' = 0
        BY <3>3, <1>2, <1>4 DEF ReaderUnlinks, Processes
      <4>2. reader.got \in Seq(Frames \cup {Blank})
        BY <1>2 DEF Processes
      <4>3. \A k \in 1 .. Total : reader.got[k] = k - 1
        BY <3>1, <1>1, <1>4, ShmAssumption DEF CountInv, Running
      <4>4. reader.got = [k \in 1 .. Total |-> k - 1]
        BY <3>1, <4>2, <4>3, CountingSequence, ShmAssumption
      <4> QED
        BY <4>1, <4>4, <3>1, <1>3, <1>6 DEF CleanReader, ReaderLoop, Running
    <3> QED
      BY <3>2, <3>3
  <2> QED
    BY <2>1, <2>2, <2>3, <2>4
<1> QED
  BY <1>a, <1>b, <1>c, <1>d, <1>e, <1>f, <1>g, <1>h, <1>i DEF Inv

LEMMA CrashKeeps == Patient /\ Inv /\ Crash => Inv'
<1> SUFFICES ASSUME Inv, Crash PROVE Inv'
  OBVIOUS
<1>1. /\ TypeOK /\ MemoryInv /\ SetupInv /\ HandlesInv /\ TokensInv
      /\ RingHoldsUnread /\ CountInv /\ Successive /\ CleanInv
  BY DEF Inv
<1>2. /\ writer \in Processes /\ reader \in Processes /\ run \in Nat /\ put \in Nat /\ taken \in Nat
      /\ value \in [Sems -> [Runs -> Nat]] /\ crashes \in 0 .. MaxCrashes
  BY <1>1, ShmAssumption DEF TypeOK
<1>3. /\ shmName' = shmName /\ semName' = semName /\ value' = value /\ region' = region
      /\ put' = put /\ taken' = taken /\ run' = run /\ ready' = ready
      /\ crashes' \in 0 .. MaxCrashes /\ clean' = FALSE
  BY <1>2, ShmAssumption DEF Crash, kernel, ring
<1>4. \/ writer' = [writer EXCEPT !.pc = "off"] /\ reader' = reader
      \/ reader' = [reader EXCEPT !.pc = "off"] /\ writer' = writer
  BY DEF Crash
<1>5. /\ writer' \in Processes /\ reader' \in Processes
      /\ writer'.region = writer.region /\ reader'.region = reader.region
      /\ writer'.k = writer.k /\ writer'.sem = writer.sem /\ writer'.i = writer.i
      /\ reader'.k = reader.k /\ reader'.sem = reader.sem /\ reader'.i = reader.i
      /\ reader'.got = reader.got
      /\ writer'.pc \in {writer.pc, "off"} /\ reader'.pc \in {reader.pc, "off"}
  BY <1>2, <1>4 DEF Processes
<1>a. TypeOK'
  BY <1>1, <1>3, <1>5 DEF TypeOK
<1>b. MemoryInv'
  BY <1>1, <1>3, <1>5 DEF MemoryInv, Running
<1>c. SetupInv'
  BY <1>1, <1>3, <1>5 DEF SetupInv, SettingUp, Current
<1>d. HandlesInv'
  BY <1>1, <1>3, <1>5 DEF HandlesInv, Running, WriterLoop
<1>e. TokensInv'
  <2>1. ready => run \in Runs
    BY <1>1, <1>2, ShmAssumption DEF SetupInv, TypeOK, Runs
  <2>2. ready => Current("mutex") \in Nat /\ Current("full") \in Nat /\ Current("empty") \in Nat
    BY <1>2, <2>1 DEF Current, Sems
  <2> QED
    BY <1>1, <1>2, <1>3, <1>5, <2>2, ShmAssumption DEF TokensInv, One, Current
<1>f. RingHoldsUnread'
  BY <1>1, <1>3, <1>5 DEF RingHoldsUnread
<1>g. CountInv'
  BY <1>1, <1>3, <1>5 DEF CountInv, ReaderLoop, Running
<1>h. Successive'
  BY <1>1, <1>5 DEF Successive
<1>i. CleanInv'
  BY <1>1, <1>3, <1>5 DEF CleanInv, SettingUp
<1> QED
  BY <1>a, <1>b, <1>c, <1>d, <1>e, <1>f, <1>g, <1>h, <1>i DEF Inv

LEMMA StartWriterKeeps == Patient /\ Inv /\ StartWriter => Inv'
<1> SUFFICES ASSUME Patient, Inv, StartWriter PROVE Inv'
  OBVIOUS
<1>1. /\ TypeOK /\ MemoryInv /\ SetupInv /\ HandlesInv /\ TokensInv
      /\ RingHoldsUnread /\ CountInv /\ Successive /\ CleanInv
  BY DEF Inv
<1>2. /\ run \in Nat /\ run < MaxRuns /\ put \in Nat /\ taken \in Nat
      /\ shmName \in 0 .. MaxRuns /\ MaxRuns \in Nat
      /\ region \in [Runs -> [frames : [Slots -> Frames \cup {Blank}], head : Slots, tail : Slots]]
  BY <1>1, ShmAssumption DEF TypeOK, StartWriter
<1>3. /\ semName' = semName /\ value' = value /\ region' = region
      /\ reader' = reader /\ crashes' = crashes
      /\ run' = run + 1 /\ ready' = FALSE /\ clean' \in BOOLEAN
  BY DEF StartWriter
<1>4. ~Running(reader) /\ reader.pc \in {"off", "done"}
  BY DEF StartWriter, Running
<1>5. /\ shmName = 0 => shmName' = run + 1 /\ put' = 0 /\ taken' = 0
      /\ shmName # 0 => shmName' = shmName /\ put' = put /\ taken' = taken
  BY DEF StartWriter
<1>6. /\ shmName' \in 1 .. run + 1 /\ shmName' \in Runs
      /\ shmName # 0 => run > 0 /\ shmName = writer.region
  <2>1. shmName # 0 => run > 0 /\ shmName = writer.region /\ writer.region \in 1 .. run
    BY <1>1, <1>2 DEF MemoryInv
  <2> QED
    BY <1>2, <1>5, <2>1 DEF Runs
<1>7. /\ writer'.pc = "clear" /\ writer'.k = 1 /\ writer'.i = 0 /\ writer'.region = shmName'
      /\ writer' \in Processes
  <2>1. writer' = [pc |-> "clear", k |-> 1, region |-> shmName', sem |-> [s \in Sems |-> 0],
                   i |-> 0, got |-> <<>>]
    BY DEF StartWriter, Process
  <2> QED
    BY <1>2, <1>6, <2>1, ShmAssumption DEF Processes, Runs
<1>a. TypeOK'
  <2>1. put' \in Nat /\ taken' \in Nat
    BY <1>2, <1>5
  <2>2. run' \in 0 .. MaxRuns /\ shmName' \in 0 .. MaxRuns
    BY <1>2, <1>3, <1>6 DEF Runs
  <2> QED
    BY <1>1, <1>3, <1>7, <2>1, <2>2 DEF TypeOK
<1>b. MemoryInv'
  BY <1>1, <1>2, <1>3, <1>6, <1>7 DEF MemoryInv, Runs
<1>c. SetupInv'
  BY <1>3, <1>7 DEF SetupInv, SettingUp
<1>d. HandlesInv'
  BY <1>3, <1>4, <1>7 DEF HandlesInv, WriterLoop, Running
<1>e. TokensInv'
  BY <1>3 DEF TokensInv
<1>f. RingHoldsUnread'
  <2>1. CASE shmName = 0
    <3>1. region[run + 1] = ClearRegion
      BY <1>1, <1>2 DEF MemoryInv, Runs
    <3>2. ClearRegion.head = 0 /\ ClearRegion.tail = 0
      BY DEF ClearRegion
    <3>3. 0 % Capacity = 0
      BY ShmAssumption
    <3> QED
      BY <1>3, <1>5, <1>7, <2>1, <3>1, <3>2, <3>3, ShmAssumption DEF RingHoldsUnread
  <2>2. CASE shmName # 0
    BY <1>1, <1>3, <1>5, <1>6, <1>7, <2>2 DEF RingHoldsUnread
  <2> QED
    BY <2>1, <2>2
<1>g. CountInv'
  BY <1>3, <1>4, <1>7 DEF CountInv, ReaderLoop, Running
<1>h. Successive'
  BY <1>1, <1>3 DEF Successive
<1>i. CleanInv'
  BY <1>2, <1>3, <1>6 DEF CleanInv, Runs
<1> QED
  BY <1>a, <1>b, <1>c, <1>d, <1>e, <1>f, <1>g, <1>h, <1>i DEF Inv

LEMMA WriterClearsKeeps == Patient /\ Inv /\ WriterClears => Inv'
<1> SUFFICES ASSUME Inv, WriterClears PROVE Inv'
  OBVIOUS
<1> DEFINE r == writer.region
<1>1. /\ TypeOK /\ MemoryInv /\ SetupInv /\ HandlesInv /\ TokensInv
      /\ RingHoldsUnread /\ CountInv /\ Successive /\ CleanInv
  BY DEF Inv
<1>2. /\ writer \in Processes /\ reader \in Processes /\ run \in Nat /\ run <= MaxRuns
      /\ region \in [Runs -> [frames : [Slots -> Frames \cup {Blank}], head : Slots, tail : Slots]]
  BY <1>1, ShmAssumption DEF TypeOK
<1>3. /\ shmName' = shmName /\ semName' = semName /\ value' = value
      /\ put' = 0 /\ taken' = 0 /\ reader' = reader
      /\ run' = run /\ ready' = ready /\ crashes' = crashes /\ clean' = clean
      /\ region' = [region EXCEPT ![r] = ClearRegion]
  BY DEF WriterClears, kernel, people
<1>4. writer.pc = "clear"
  BY DEF WriterClears
<1>5. ~ready /\ ~Running(reader) /\ writer.k = 1 /\ writer.i = 0
  BY <1>1, <1>4 DEF SetupInv, HandlesInv, SettingUp
<1>6. r \in 1 .. run /\ r \in Runs /\ run > 0
  <2>1. run # 0
    BY <1>1, <1>4 DEF MemoryInv, Running
  <2>2. r \in 1 .. run
    BY <1>1, <1>2, <2>1 DEF MemoryInv
  <2> QED
    BY <1>2, <2>1, <2>2, ShmAssumption DEF Runs
<1>7. /\ writer'.pc = "unlink" /\ writer'.k = 1 /\ writer'.i = 0 /\ writer'.region = r
      /\ writer' \in Processes
  BY <1>2, <1>5 DEF WriterClears, Processes
<1>8. /\ ClearRegion \in [frames : [Slots -> Frames \cup {Blank}], head : Slots, tail : Slots]
      /\ ClearRegion.head = 0 /\ ClearRegion.tail = 0
  BY ShmAssumption DEF ClearRegion, Slots
<1>9. /\ region' \in [Runs -> [frames : [Slots -> Frames \cup {Blank}], head : Slots, tail : Slots]]
      /\ region'[r] = ClearRegion /\ \A q \in Runs : q # r => region'[q] = region[q]
  BY <1>2, <1>3, <1>6, <1>8
<1>a. TypeOK'
  BY <1>1, <1>3, <1>7, <1>9 DEF TypeOK
<1>b. MemoryInv'
  BY <1>1, <1>2, <1>3, <1>6, <1>7, <1>9 DEF MemoryInv
<1>c. SetupInv'
  BY <1>3, <1>5, <1>7 DEF SetupInv, SettingUp
<1>d. HandlesInv'
  BY <1>1, <1>3, <1>5, <1>7 DEF HandlesInv, WriterLoop, Running
<1>e. TokensInv'
  BY <1>3, <1>5 DEF TokensInv
<1>f. RingHoldsUnread'
  <2>1. 0 % Capacity = 0
    BY ShmAssumption
  <2> QED
    BY <1>3, <1>7, <1>8, <1>9, <2>1, ShmAssumption DEF RingHoldsUnread
<1>g. CountInv'
  BY <1>3, <1>5, <1>7 DEF CountInv, ReaderLoop, Running
<1>h. Successive'
  BY <1>1, <1>3 DEF Successive
<1>i. CleanInv'
  BY <1>1, <1>3, <1>4, <1>5 DEF CleanInv, SettingUp
<1> QED
  BY <1>a, <1>b, <1>c, <1>d, <1>e, <1>f, <1>g, <1>h, <1>i DEF Inv

LEMMA WriterUnlinksKeeps == Patient /\ Inv /\ WriterUnlinks => Inv'
<1> SUFFICES ASSUME Inv, WriterUnlinks PROVE Inv'
  OBVIOUS
<1>1. /\ TypeOK /\ MemoryInv /\ SetupInv /\ HandlesInv /\ TokensInv
      /\ RingHoldsUnread /\ CountInv /\ Successive /\ CleanInv
  BY DEF Inv
<1>2. /\ writer \in Processes /\ run \in Nat /\ semName \in [Sems -> 0 .. MaxRuns]
  BY <1>1, ShmAssumption DEF TypeOK
<1>3. /\ shmName' = shmName /\ value' = value /\ region' = region
      /\ put' = put /\ taken' = taken /\ reader' = reader
      /\ run' = run /\ ready' = ready /\ crashes' = crashes /\ clean' = clean
      /\ semName' = [semName EXCEPT ![SemNames[writer.k]] = 0]
  BY DEF WriterUnlinks, ring, people
<1>4. writer.pc = "unlink"
  BY DEF WriterUnlinks
<1>5. /\ ~ready /\ writer.k \in 1 .. 3 /\ put = 0 /\ taken = 0 /\ writer.i = 0
      /\ \A j \in 1 .. writer.k - 1 : semName[SemNames[j]] = 0
      /\ ~Running(reader)
  BY <1>1, <1>4 DEF SetupInv, HandlesInv, SettingUp
<1>6. /\ writer'.region = writer.region /\ writer'.i = 0 /\ writer' \in Processes
      /\ writer.k < 3 => writer'.pc = "unlink" /\ writer'.k = writer.k + 1
      /\ writer.k = 3 => writer'.pc = "open" /\ writer'.k = 1
  <2>1. CASE writer.k < 3
    <3>1. writer' = [writer EXCEPT !.k = writer.k + 1]
      BY <2>1, <1>2 DEF WriterUnlinks, Processes
    <3>2. writer.k + 1 \in 1 .. 4
      BY <1>5
    <3>3. writer' \in Processes
      BY <3>1, <3>2, <1>2, StillProcess
    <3>4. /\ writer'.region = writer.region /\ writer'.i = writer.i
          /\ writer'.pc = "unlink" /\ writer'.k = writer.k + 1
      BY <3>1, <1>2, <1>4 DEF Processes
    <3> QED
      BY <2>1, <3>3, <3>4, <1>5
  <2>2. CASE writer.k = 3
    <3>1. writer' = [writer EXCEPT !.k = 1, !.pc = "open"]
      BY <2>2, <1>2 DEF WriterUnlinks, Processes
    <3>2. 1 \in 1 .. 4
      OBVIOUS
    <3>3. writer' \in Processes
      BY <3>1, <3>2, <1>2, StillProcess
    <3>4. /\ writer'.region = writer.region /\ writer'.i = writer.i
          /\ writer'.pc = "open" /\ writer'.k = 1
      BY <3>1, <1>2 DEF Processes
    <3> QED
      BY <2>2, <3>3, <3>4, <1>5
  <2> QED
    BY <1>5, <2>1, <2>2
<1>7. /\ semName' \in [Sems -> 0 .. MaxRuns]
      /\ \A j \in 1 .. writer.k : semName'[SemNames[j]] = 0
  <2>1. semName' \in [Sems -> 0 .. MaxRuns]
    <3>1. 0 \in 0 .. MaxRuns /\ SemNames[writer.k] \in Sems
      BY <1>5, Names, ShmAssumption
    <3> QED
      BY <1>2, <1>3, <3>1
  <2>2. ASSUME NEW j \in 1 .. writer.k PROVE semName'[SemNames[j]] = 0
    <3>1. j \in 1 .. 3 /\ SemNames[j] \in Sems
      BY <1>5, Names
    <3>2. CASE j = writer.k
      BY <3>1, <3>2, <1>2, <1>3
    <3>3. CASE j # writer.k
      <4>1. j \in 1 .. writer.k - 1
        BY <3>3, <1>5
      <4> QED
        BY <4>1, <3>1, <1>2, <1>3, <1>5
    <3> QED
      BY <3>2, <3>3
  <2> QED
    BY <2>1, <2>2
<1>a. TypeOK'
  BY <1>1, <1>3, <1>6, <1>7 DEF TypeOK
<1>b. MemoryInv'
  BY <1>1, <1>3, <1>4, <1>6 DEF MemoryInv, Running
<1>c. SetupInv'
  BY <1>3, <1>5, <1>6, <1>7 DEF SetupInv, SettingUp
<1>d. HandlesInv'
  BY <1>1, <1>3, <1>5, <1>6 DEF HandlesInv, WriterLoop, Running
<1>e. TokensInv'
  BY <1>3, <1>5 DEF TokensInv
<1>f. RingHoldsUnread'
  BY <1>1, <1>3, <1>6 DEF RingHoldsUnread
<1>g. CountInv'
  BY <1>1, <1>3, <1>5, <1>6 DEF CountInv, ReaderLoop, Running
<1>h. Successive'
  BY <1>1, <1>3 DEF Successive
<1>i. CleanInv'
  BY <1>1, <1>3, <1>4, <1>5 DEF CleanInv, SettingUp
<1> QED
  BY <1>a, <1>b, <1>c, <1>d, <1>e, <1>f, <1>g, <1>h, <1>i DEF Inv

LEMMA WriterOpensKeeps == Patient /\ Inv /\ WriterOpens => Inv'
<1> SUFFICES ASSUME Inv, WriterOpens PROVE Inv'
  OBVIOUS
<1> DEFINE s == SemNames[writer.k]
<1>1. /\ TypeOK /\ MemoryInv /\ SetupInv /\ HandlesInv /\ TokensInv
      /\ RingHoldsUnread /\ CountInv /\ Successive /\ CleanInv
  BY DEF Inv
<1>2. /\ writer \in Processes /\ reader \in Processes /\ run \in Nat /\ run <= MaxRuns
      /\ semName \in [Sems -> 0 .. MaxRuns] /\ value \in [Sems -> [Runs -> Nat]]
      /\ ready \in BOOLEAN
  BY <1>1, ShmAssumption DEF TypeOK
<1>3. /\ shmName' = shmName /\ region' = region
      /\ put' = put /\ taken' = taken /\ reader' = reader
      /\ run' = run /\ crashes' = crashes /\ clean' = clean
  BY DEF WriterOpens, ring
<1>4. writer.pc = "open"
  BY DEF WriterOpens
<1>5. /\ ~ready /\ writer.k \in 1 .. 3 /\ put = 0 /\ taken = 0 /\ writer.i = 0
      /\ \A j \in 1 .. writer.k - 1 :
            /\ semName[SemNames[j]] = run /\ writer.sem[SemNames[j]] = run
            /\ Current(SemNames[j]) = InitialValue(SemNames[j])
      /\ \A j \in writer.k .. 3 : semName[SemNames[j]] = 0
      /\ ~Running(reader)
  BY <1>1, <1>4 DEF SetupInv, HandlesInv, SettingUp
<1>6. run \in Runs /\ s \in Sems /\ semName[s] = 0
  <2>1. run # 0
    BY <1>1, <1>4 DEF MemoryInv, Running
  <2>2. semName[s] = 0
    BY <1>5
  <2>3. s \in Sems
    BY <1>5, Names
  <2>4. run \in Runs
    BY <1>2, <2>1, ShmAssumption DEF Runs
  <2> QED
    BY <2>2, <2>3, <2>4
<1>7. /\ semName' = [semName EXCEPT ![s] = run]
      /\ value' = [value EXCEPT ![s][run] = InitialValue(s)]
  BY <1>6 DEF WriterOpens
<1>8. InitialValue(s) \in Nat
  BY <1>6, ShmAssumption DEF InitialValue, Sems
<1>9. [writer.sem EXCEPT ![s] = run] \in [Sems -> 0 .. MaxRuns]
  BY <1>2, <1>6 DEF Processes
<1>k. writer.k < 3 \/ writer.k = 3
  BY <1>5
<1>10. /\ writer' \in Processes /\ writer'.region = writer.region /\ writer'.i = writer.i
       /\ writer'.sem = [writer.sem EXCEPT ![s] = run]
       /\ writer.k < 3 => writer'.pc = "open" /\ writer'.k = writer.k + 1 /\ ready' = ready
       /\ writer.k = 3 => writer'.pc = "waitEmpty" /\ ready' = TRUE
  <2>1. CASE writer.k < 3
    <3>1. /\ writer' = [writer EXCEPT !.sem = [writer.sem EXCEPT ![s] = run], !.k = writer.k + 1]
          /\ ready' = ready
      BY <1>2, <1>6, <2>1 DEF WriterOpens, Processes
    <3>2. writer.k + 1 \in 1 .. 4
      BY <1>5
    <3>3. writer' \in Processes
      BY <1>2, <1>9, <3>1, <3>2, StillProcess
    <3>4. /\ writer'.region = writer.region /\ writer'.i = writer.i /\ writer'.pc = "open"
          /\ writer'.k = writer.k + 1 /\ writer'.sem = [writer.sem EXCEPT ![s] = run]
      BY <1>2, <1>4, <3>1 DEF Processes
    <3> QED
      BY <1>5, <2>1, <3>1, <3>3, <3>4
  <2>2. CASE writer.k = 3
    <3>1. /\ writer' = [writer EXCEPT !.sem = [writer.sem EXCEPT ![s] = run], !.k = 1,
                                      !.pc = "waitEmpty"]
          /\ ready' = TRUE
      BY <1>2, <1>6, <2>2 DEF WriterOpens, Processes
    <3>2. 1 \in 1 .. 4
      OBVIOUS
    <3>3. writer' \in Processes
      BY <1>2, <1>9, <3>1, <3>2, StillProcess
    <3>4. /\ writer'.region = writer.region /\ writer'.i = writer.i /\ writer'.pc = "waitEmpty"
          /\ writer'.sem = [writer.sem EXCEPT ![s] = run]
      BY <1>2, <3>1 DEF Processes
    <3> QED
      BY <1>5, <2>2, <3>1, <3>3, <3>4
  <2> QED
    BY <1>k, <2>1, <2>2
<1>11. /\ semName' \in [Sems -> 0 .. MaxRuns] /\ value' \in [Sems -> [Runs -> Nat]]
       /\ ready' \in BOOLEAN
  <2>1. run \in 0 .. MaxRuns
    BY <1>2
  <2>2. [value[s] EXCEPT ![run] = InitialValue(s)] \in [Runs -> Nat]
    BY <1>2, <1>6, <1>8
  <2>3. value' = [value EXCEPT ![s] = [value[s] EXCEPT ![run] = InitialValue(s)]]
    BY <1>2, <1>6, <1>7
  <2>4. value' \in [Sems -> [Runs -> Nat]]
    BY <1>2, <2>2, <2>3
  <2>5. semName' \in [Sems -> 0 .. MaxRuns]
    BY <1>2, <1>7, <2>1
  <2>6. ready' \in BOOLEAN
    BY <1>2, <1>k, <1>10
  <2> QED
    BY <2>4, <2>5, <2>6
<1>12. ASSUME NEW j \in 1 .. 3
       PROVE  /\ j <= writer.k =>
                   /\ semName'[SemNames[j]] = run /\ writer'.sem[SemNames[j]] = run
                   /\ value'[SemNames[j]][run] = InitialValue(SemNames[j])
              /\ j > writer.k => semName'[SemNames[j]] = 0
  <2>1. SemNames[j] \in Sems
    BY Names
  <2>2. CASE j = writer.k
    BY <2>1, <2>2, <1>2, <1>5, <1>6, <1>7, <1>10 DEF Processes
  <2>3. CASE j # writer.k
    <3>1. SemNames[j] # s
      BY <2>3, <1>5, Names
    <3>2. /\ semName'[SemNames[j]] = semName[SemNames[j]]
          /\ writer'.sem[SemNames[j]] = writer.sem[SemNames[j]]
          /\ value'[SemNames[j]] = value[SemNames[j]]
      BY <2>1, <3>1, <1>2, <1>6, <1>7, <1>10 DEF Processes
    <3>3. CASE j < writer.k
      <4>1. j \in 1 .. writer.k - 1
        BY <3>3, <1>5
      <4> QED
        BY <4>1, <3>2, <3>3, <1>5 DEF Current
    <3>4. CASE j > writer.k
      <4>1. j \in writer.k .. 3
        BY <3>4, <1>5
      <4> QED
        BY <4>1, <3>2, <3>4, <1>5
    <3> QED
      BY <2>3, <3>3, <3>4, <1>5
  <2> QED
    BY <2>2, <2>3
<1>13. writer.k = 3 => /\ \A t \in Sems : semName'[t] = run /\ writer'.sem[t] = run
                       /\ value'["mutex"][run] = 1 /\ value'["full"][run] = 0
                       /\ value'["empty"][run] = Capacity
  BY <1>12, Names DEF InitialValue
<1>a. TypeOK'
  BY <1>1, <1>3, <1>10, <1>11 DEF TypeOK
<1>b. MemoryInv'
  BY <1>1, <1>3, <1>4, <1>10 DEF MemoryInv, Running
<1>c. SetupInv'
  <2>1. CASE writer.k < 3
    <3>1. \A j \in 1 .. writer'.k - 1 :
            /\ semName'[SemNames[j]] = run' /\ writer'.sem[SemNames[j]] = run'
            /\ Current(SemNames[j])' = InitialValue(SemNames[j])
      BY <2>1, <1>3, <1>5, <1>10, <1>12 DEF Current
    <3>2. \A j \in writer'.k .. 3 : semName'[SemNames[j]] = 0
      BY <2>1, <1>5, <1>10, <1>12
    <3> QED
      BY <2>1, <3>1, <3>2, <1>3, <1>5, <1>10 DEF SetupInv, SettingUp
  <2>2. CASE writer.k = 3
    BY <2>2, <1>2, <1>3, <1>6, <1>10 DEF SetupInv, SettingUp, Runs
  <2> QED
    BY <1>k, <2>1, <2>2
<1>d. HandlesInv'
  <2>1. CASE writer.k < 3
    BY <2>1, <1>1, <1>3, <1>5, <1>10 DEF HandlesInv, WriterLoop, Running
  <2>2. CASE writer.k = 3
    BY <2>2, <1>1, <1>3, <1>5, <1>10, <1>13 DEF HandlesInv, WriterLoop, Running
  <2> QED
    BY <1>k, <2>1, <2>2
<1>e. TokensInv'
  <2>1. CASE writer.k < 3
    BY <2>1, <1>5, <1>10 DEF TokensInv
  <2>2. CASE writer.k = 3
    BY <2>2, <1>3, <1>5, <1>10, <1>13, ShmAssumption DEF TokensInv, One, Current, Running
  <2> QED
    BY <1>k, <2>1, <2>2
<1>f. RingHoldsUnread'
  BY <1>1, <1>3, <1>10 DEF RingHoldsUnread
<1>g. CountInv'
  BY <1>1, <1>3, <1>5, <1>10, ShmAssumption DEF CountInv, ReaderLoop, Running
<1>h. Successive'
  BY <1>1, <1>3 DEF Successive
<1>i. CleanInv'
  <2>1. shmName # 0
    BY <1>1, <1>4 DEF CleanInv, SettingUp
  <2>2. CASE writer.k < 3
    BY <2>1, <2>2, <1>3, <1>5, <1>10 DEF CleanInv
  <2>3. CASE writer.k = 3
    <3>1. CleanTokens'
      BY <2>3, <1>3, <1>5, <1>10, <1>13, ShmAssumption DEF CleanTokens, One, Current, Running
    <3>2. CleanWriter'
      BY <2>3, <1>10 DEF CleanWriter, WriterLoop
    <3>3. CleanReader'
      BY <2>1, <2>3, <1>3, <1>5, <1>13 DEF CleanReader, ReaderLoop, Running
    <3> QED
      BY <2>1, <3>1, <3>2, <3>3, <1>3 DEF CleanInv
  <2> QED
    BY <1>k, <2>2, <2>3
<1> QED
  BY <1>a, <1>b, <1>c, <1>d, <1>e, <1>f, <1>g, <1>h, <1>i DEF Inv

-----------------------------------------------------------------------------
LEMMA InitInv == Init => Inv
<1> SUFFICES ASSUME Init PROVE Inv
  OBVIOUS
<1>1. /\ Process \in Processes
      /\ ClearRegion \in [frames : [Slots -> Frames \cup {Blank}], head : Slots, tail : Slots]
  BY ShmAssumption DEF Process, Processes, ClearRegion, Slots
<1>2. Process.pc = "off" /\ Process.region = 0 /\ Process.got = <<>>
  BY DEF Process
<1>3. TypeOK
  <2>1. 0 \in 0 .. MaxRuns /\ 0 \in 0 .. MaxCrashes /\ 0 \in Nat
    BY ShmAssumption
  <2>2. region \in [Runs -> [frames : [Slots -> Frames \cup {Blank}], head : Slots, tail : Slots]]
    BY <1>1 DEF Init
  <2>3. semName \in [Sems -> 0 .. MaxRuns] /\ value \in [Sems -> [Runs -> Nat]]
    BY <2>1 DEF Init
  <2> QED
    BY <1>1, <2>1, <2>2, <2>3 DEF Init, TypeOK
<1>4. MemoryInv /\ SetupInv /\ HandlesInv
  BY <1>2 DEF Init, MemoryInv, SetupInv, HandlesInv, SettingUp, WriterLoop, Running
<1>5. TokensInv /\ RingHoldsUnread /\ CountInv /\ Successive
  BY <1>2 DEF Init, TokensInv, RingHoldsUnread, CountInv, ReaderLoop, Running, Successive
<1>6. CleanInv
  BY <1>2 DEF Init, CleanInv, SettingUp
<1> QED
  BY <1>3, <1>4, <1>5, <1>6 DEF Inv

LEMMA StepKeepsInv == Patient /\ Inv /\ [Next]_vars => Inv'
<1> SUFFICES ASSUME Patient, Inv, [Next]_vars PROVE Inv'
  OBVIOUS
<1>1. CASE StartWriter \/ StartReader \/ Crash
  BY <1>1, StartWriterKeeps, StartReaderKeeps, CrashKeeps
<1>2. CASE Writer
  BY <1>2, WriterClearsKeeps, WriterUnlinksKeeps, WriterOpensKeeps, WriterWaitsKeeps,
     WriterPutsKeeps, WriterPostsKeeps DEF Writer
<1>3. CASE Reader
  BY <1>3, ReaderOpensKeeps, ReaderFaultsKeeps, ReaderWaitsKeeps, ReaderTakesKeeps,
     ReaderPostsKeeps, ReaderUnlinksKeeps DEF Reader
<1>4. CASE UNCHANGED vars
  <2>1. /\ shmName' = shmName /\ semName' = semName /\ value' = value /\ region' = region
        /\ put' = put /\ taken' = taken /\ writer' = writer /\ reader' = reader
        /\ run' = run /\ ready' = ready /\ crashes' = crashes /\ clean' = clean
    BY <1>4 DEF vars, kernel, ring, people
  <2>2. TypeOK'
    BY <2>1 DEF Inv, TypeOK
  <2>3. MemoryInv' /\ HandlesInv'
    BY <2>1 DEF Inv, MemoryInv, HandlesInv, Running
  <2>4. SetupInv'
    BY <2>1 DEF Inv, SetupInv, Current
  <2>5. TokensInv'
    BY <2>1 DEF Inv, TokensInv, Current
  <2>6. RingHoldsUnread' /\ CountInv' /\ Successive'
    BY <2>1 DEF Inv, RingHoldsUnread, CountInv, Running, Successive
  <2>7. CleanInv'
    BY <2>1 DEF Inv, CleanInv, CleanTokens, CleanWriter, CleanReader, Current, Running
  <2> QED
    BY <2>2, <2>3, <2>4, <2>5, <2>6, <2>7 DEF Inv
<1> QED
  BY <1>1, <1>2, <1>3, <1>4 DEF Next

(* As long as people wait for the programs, the invariant holds.           *)
LEMMA Invariance == ASSUME Patient PROVE Spec => []Inv
<1>1. Inv /\ [Next]_vars => Inv'
  BY StepKeepsInv
<1> QED
  BY InitInv, <1>1, PTL DEF Spec

(* Types; head and tail stay inside the ring (writer.cpp:43,               *)
(* reader.cpp:33).                                                         *)
THEOREM TypeCorrect == ASSUME Patient PROVE Spec => []TypeOK
<1>1. Inv => TypeOK
  BY DEF Inv
<1> QED
  BY <1>1, Invariance, PTL

(* No frame is overwritten before it is read and none is read before it is *)
(* written, wherever processes are killed.                                 *)
THEOREM RingIsIntact == ASSUME Patient PROVE Spec => []RingHoldsUnread
<1>1. Inv => RingHoldsUnread
  BY DEF Inv
<1> QED
  BY <1>1, Invariance, PTL

(* The mutex semaphore, which the writer makes anew in each run, admits    *)
(* one process.                                                            *)
THEOREM MutexExcludes == ASSUME Patient PROVE Spec => []MutualExclusion
<1>1. Inv => MutualExclusion
  <2> SUFFICES ASSUME Inv, writer.pc \in {"put", "postMutex"}, reader.pc \in {"take", "postMutex"}
               PROVE  FALSE
    BY DEF MutualExclusion
  <2>1. ready /\ run \in Runs
    BY ShmAssumption DEF Inv, HandlesInv, SetupInv, WriterLoop, TypeOK, Runs
  <2>2. Current("mutex") \in Nat
    BY <2>1 DEF Inv, TypeOK, Current, Sems
  <2>3. Current("mutex") + 1 + 1 <= 1
    BY <2>1 DEF Inv, TokensInv, One
  <2> QED
    BY <2>2, <2>3
<1> QED
  BY <1>1, Invariance, PTL

(* A reader prints the frames of the writer, none left out and none twice, *)
(* also one that goes on where a killed one has stopped.                   *)
THEOREM PrintsSuccessive == ASSUME Patient PROVE Spec => []Successive
<1>1. Inv => Successive
  BY DEF Inv
<1> QED
  BY <1>1, Invariance, PTL

(* In a clean run the two processes never sleep on each other.             *)
THEOREM NobodyIsStuck == ASSUME Patient PROVE Spec => []NobodyStuck
<1>1. Inv => NobodyStuck
  <2> SUFFICES ASSUME Inv, ready, clean
               PROVE  /\ Asleep(reader) => Running(writer) /\ ~Asleep(writer)
                      /\ Asleep(writer) => shmName # 0 /\ reader.pc # "teardown"
    BY DEF NobodyStuck
  <2>1. CleanTokens /\ CleanWriter /\ CleanReader
    BY DEF Inv, CleanInv
  <2>2. /\ run \in Runs /\ put \in Nat /\ taken \in Nat
        /\ Current("mutex") \in Nat /\ Current("full") \in Nat /\ Current("empty") \in Nat
    <3>1. run \in Runs /\ value \in [Sems -> [Runs -> Nat]] /\ put \in Nat /\ taken \in Nat
      BY ShmAssumption DEF Inv, SetupInv, TypeOK, Runs
    <3> QED
      BY <3>1 DEF Current, Sems
  <2>3. /\ put \in taken .. taken + Capacity
        /\ writer.pc \in {"waitEmpty", "waitMutex", "put"} => put < Total
        /\ writer.pc \in WriterLoop => \A s \in Sems : writer.sem[s] = run
        /\ reader.pc \in {"waitFull", "waitMutex"} =>
             (\A s \in Sems : reader.sem[s] = run) /\ taken < Total
    <3>1. writer.region # 0
      BY <2>2 DEF Inv, MemoryInv, Runs
    <3> QED
      BY <2>1, <3>1 DEF Inv, RingHoldsUnread, CountInv, HandlesInv, CleanReader, ReaderLoop
  <2>4. Asleep(writer) =>
         \/ writer.pc = "waitEmpty" /\ Current("empty") = 0
         \/ writer.pc = "waitMutex" /\ Current("mutex") = 0
    <3>1. writer.pc # "waitFull"
      BY <2>1 DEF CleanWriter, WriterLoop
    <3>2. writer.pc \in {"waitEmpty", "waitMutex"} =>
            writer.sem["empty"] = run /\ writer.sem["mutex"] = run
      BY <2>3 DEF WriterLoop, Sems
    <3> QED
      BY <3>1, <3>2 DEF Asleep, Current
  <2>5. Asleep(reader) =>
         \/ reader.pc = "waitFull" /\ Current("full") = 0
         \/ reader.pc = "waitMutex" /\ Current("mutex") = 0
    <3>1. reader.pc # "waitEmpty"
      BY <2>1 DEF CleanReader, ReaderLoop
    <3>2. reader.pc \in {"waitFull", "waitMutex"} =>
            reader.sem["full"] = run /\ reader.sem["mutex"] = run
      BY <2>3 DEF Sems
    <3> QED
      BY <3>1, <3>2 DEF Asleep, Current
  <2>6. Asleep(writer) => shmName # 0 /\ reader.pc # "teardown"
    BY <2>1, <2>2, <2>3, <2>4, ShmAssumption DEF CleanReader
  <2>7. CASE reader.pc = "waitFull" /\ Current("full") = 0
    <3>1. /\ One(writer.pc \in {"postMutex", "postFull"}) = put - taken
          /\ Current("empty") + One(writer.pc \in {"waitMutex", "put"}) = Capacity - (put - taken)
          /\ Current("mutex") + One(writer.pc \in {"put", "postMutex"}) = 1
      BY <2>1, <2>2, <2>7, ShmAssumption DEF CleanTokens, One
    <3>2. writer.pc # "done"
      BY <2>1, <2>2, <2>3, <2>7, <3>1, ShmAssumption DEF CleanWriter, One
    <3>3. ~Asleep(writer)
      BY <2>2, <2>4, <3>1, ShmAssumption DEF One
    <3> QED
      BY <2>1, <2>6, <3>2, <3>3 DEF CleanWriter, WriterLoop, Running
  <2>8. CASE reader.pc = "waitMutex" /\ Current("mutex") = 0
    <3>1. Current("mutex") + One(writer.pc \in {"put", "postMutex"}) = 1
      BY <2>1, <2>2, <2>8 DEF CleanTokens, One
    <3>2. writer.pc \in {"put", "postMutex"}
      BY <2>8, <3>1 DEF One
    <3>3. Running(writer) /\ ~Asleep(writer)
      BY <2>4, <3>2 DEF Running
    <3> QED
      BY <2>6, <3>3
  <2> QED
    BY <2>5, <2>6, <2>7, <2>8
<1> QED
  BY <1>1, Invariance, PTL

(* The memory of a clean run goes only when every frame was printed.       *)
THEOREM EndsComplete == ASSUME Patient PROVE Spec => []EndsWithEveryFrame
<1>1. Inv => EndsWithEveryFrame
  <2> SUFFICES ASSUME Inv, ready, clean, shmName = 0
               PROVE  /\ writer.pc = "done" /\ reader.pc = "done"
                      /\ reader.got = [k \in 1 .. Total |-> k - 1]
    BY DEF EndsWithEveryFrame
  <2>1. CleanTokens /\ CleanWriter /\ CleanReader
    BY DEF Inv, CleanInv
  <2>2. /\ reader.pc = "done" /\ taken = Total
        /\ reader.got = [k \in 1 .. Total |-> k - 1]
    BY <2>1 DEF CleanReader
  <2>3. ASSUME writer.pc # "done" PROVE FALSE
    <3>1. /\ run \in Runs /\ put \in Nat /\ value \in [Sems -> [Runs -> Nat]]
      BY ShmAssumption DEF Inv, SetupInv, TypeOK, Runs
    <3>2. writer.region # 0
      BY <3>1 DEF Inv, MemoryInv, Runs
    <3>3. put >= Total
      BY <2>2, <3>1, <3>2, ShmAssumption DEF Inv, RingHoldsUnread
    <3>4. writer.pc \in {"postMutex", "postFull"} /\ put <= Total
      BY <2>1, <2>3, <3>1, <3>3, ShmAssumption DEF Inv, CountInv, CleanWriter, WriterLoop
    <3>5. Current("full") \in Nat /\ Current("full") + 1 + 0 = put - taken
      BY <2>1, <2>2, <3>1, <3>4 DEF CleanTokens, One, Current, Sems
    <3> QED
      BY <2>2, <3>1, <3>3, <3>4, <3>5, ShmAssumption
  <2> QED
    BY <2>2, <2>3
<1> QED
  BY <1>1, Invariance, PTL

-----------------------------------------------------------------------------
(* Refinement.                                                             *)

LEMMA WaitingIs == Inv => /\ put \in Nat /\ taken \in Nat /\ taken <= put
                          /\ Waiting = Span(taken, put)
<1> SUFFICES ASSUME Inv PROVE taken <= put /\ Waiting = Span(taken, put)
  BY DEF Inv, TypeOK
<1>1. put \in Nat /\ taken \in Nat /\ run \in Nat
  BY ShmAssumption DEF Inv, TypeOK
<1>2. CASE writer.region = 0
  <2>1. put = 0 /\ taken = 0
    BY <1>1, <1>2 DEF Inv, MemoryInv
  <2>2. Span(0, 0) = <<>>
    BY DEF Span
  <2>3. Waiting = <<>>
    BY <1>2 DEF Waiting
  <2> QED
    BY <2>1, <2>2, <2>3
<1>3. CASE writer.region # 0
  <2> DEFINE r == region[writer.region]
  <2>1. /\ taken <= put /\ r.tail = taken % Capacity
        /\ \A f \in taken .. put - 1 : r.frames[f % Capacity] = f
    BY <1>1, <1>3, ShmAssumption DEF Inv, RingHoldsUnread
  <2>2. ASSUME NEW k \in 1 .. put - taken
        PROVE  r.frames[(r.tail + k - 1) % Capacity] = taken + k - 1
    <3>1. k - 1 \in Nat /\ taken + (k - 1) \in taken .. put - 1
      BY <1>1
    <3>2. ((taken % Capacity) + (k - 1)) % Capacity = (taken + (k - 1)) % Capacity
      BY <1>1, <3>1, LaterSlot, ShmAssumption
    <3>3. taken % Capacity \in Int
      BY <1>1, DivMod, ShmAssumption
    <3>4. (taken % Capacity) + k - 1 = (taken % Capacity) + (k - 1)
      BY <3>1, <3>3
    <3>5. r.frames[(r.tail + k - 1) % Capacity] = taken + (k - 1)
      BY <2>1, <3>1, <3>2, <3>4
    <3> QED
      BY <1>1, <3>1, <3>5
  <2>3. [k \in 1 .. put - taken |-> r.frames[(r.tail + k - 1) % Capacity]] = Span(taken, put)
    BY <2>2 DEF Span
  <2> QED
    BY <1>3, <2>1, <2>3 DEF Waiting
<1> QED
  BY <1>2, <1>3

LEMMA StepIsStreamStep ==
  ASSUME Patient, Inv, Inv', Waiting' = Span(taken', put'), [Next]_vars
  PROVE  [Stream!Next]_<<put, Waiting, reader.got>>
<1> USE DEF Stream!Next
<1>1. /\ put \in Nat /\ taken \in Nat /\ taken <= put /\ Waiting = Span(taken, put)
      /\ Waiting' = Span(taken', put')
      /\ writer \in Processes /\ reader \in Processes
  BY WaitingIs DEF Inv, TypeOK
<1>2. ASSUME put' = put, taken' = taken, reader'.got = reader.got
      PROVE  UNCHANGED <<put, Waiting, reader.got>>
  BY <1>1, <1>2
<1>3. ASSUME put' = 0, taken' = 0, reader' = reader PROVE Stream!NewWriter
  BY <1>1, <1>3, SpanQueue DEF Stream!NewWriter
<1>4. CASE StartWriter
  BY <1>2, <1>3, <1>4 DEF StartWriter
<1>5. CASE StartReader
  <2>1. put' = put /\ taken' = taken /\ reader'.got = <<>>
    BY <1>5 DEF StartReader, ring, Process
  <2> QED
    BY <1>1, <2>1 DEF Stream!NewReader
<1>6. CASE WriterClears
  BY <1>3, <1>6 DEF WriterClears
<1>7. CASE WriterPuts
  <2>1. put' = put + 1 /\ taken' = taken /\ reader' = reader /\ put - taken < Capacity /\ put < Total
    BY <1>1, <1>7, PlaceToPut, ShmAssumption DEF WriterPuts
  <2>2. Len(Waiting) < Capacity /\ Waiting' = Append(Waiting, put)
    BY <1>1, <2>1, SpanQueue
  <2> QED
    BY <2>1, <2>2 DEF Stream!Send
<1>8. CASE ReaderTakes
  <2>1. put' = put /\ taken' = taken + 1 /\ reader'.got = Append(reader.got, taken) /\ taken < put
    BY <1>1, <1>8, FrameToTake, ShmAssumption DEF ReaderTakes, Processes
  <2>2. Waiting # <<>> /\ Head(Waiting) = taken /\ Waiting' = Tail(Waiting)
    BY <1>1, <2>1, SpanQueue
  <2>3. reader.got \in Seq(Frames \cup {Blank})
    BY <1>1 DEF Processes
  <2>4. ASSUME reader.got # <<>> PROVE taken = reader.got[Len(reader.got)] + 1
    <3> DEFINE n == Len(reader.got)
    <3>1. n \in Nat \ {0}
      BY <2>3, <2>4
    <3>2. /\ Len(reader'.got) = n + 1
          /\ reader'.got[n + 1] = taken /\ reader'.got[n] = reader.got[n]
      BY <2>1, <2>3, <3>1
    <3>3. n + 1 \in 2 .. Len(reader'.got)
      BY <3>1, <3>2
    <3>4. reader'.got[n + 1] = reader'.got[(n + 1) - 1] + 1
      BY <3>3 DEF Inv, Successive
    <3> QED
      BY <3>1, <3>2, <3>4
  <2> QED
    BY <2>1, <2>2, <2>4 DEF Stream!Receive
<1>9. CASE WriterUnlinks \/ WriterOpens \/ WriterWaits \/ WriterPosts
  BY <1>2, <1>9 DEF WriterUnlinks, WriterOpens, WriterWaits, WriterPosts, ring
<1>10. CASE ReaderOpens \/ ReaderFaults \/ ReaderWaits \/ ReaderPosts \/ ReaderUnlinks
  <2>1. put' = put /\ taken' = taken
    BY <1>10 DEF ReaderOpens, ReaderFaults, ReaderWaits, ReaderPosts, ReaderUnlinks, ring
  <2>2. reader'.got = reader.got
    BY <1>1, <1>10 DEF ReaderOpens, ReaderFaults, ReaderWaits, ReaderPosts, NextFrame,
                       ReaderUnlinks, Processes
  <2> QED
    BY <1>2, <2>1, <2>2
<1>11. CASE Crash
  BY <1>1, <1>2, <1>11 DEF Crash, ring, Processes
<1>12. CASE UNCHANGED vars
  BY <1>2, <1>12 DEF vars, ring
<1> QED
  BY <1>4, <1>5, <1>6, <1>7, <1>8, <1>9, <1>10, <1>11, <1>12 DEF Next, Writer, Reader

(* The ring, its semaphores and two processes that are killed anywhere are *)
(* a stream of frames: no reader ever sees the slots, the wrap of head and *)
(* tail or the order of the waits (writer.cpp:38-45, reader.cpp:28-35).    *)
THEOREM RefinesStream == ASSUME Patient PROVE Spec => ImplementsStream
<1>1. Init => Stream!Init
  BY DEF Init, Stream!Init, Waiting, Process
<1>2. (Inv => Waiting = Span(taken, put))'
  BY WaitingIs, PTL
<1>3. Inv /\ Inv' /\ [Next]_vars => [Stream!Next]_<<put, Waiting, reader.got>>
  BY <1>2, StepIsStreamStep
<1> QED
  BY <1>1, <1>3, Invariance, PTL DEF Spec, ImplementsStream, Stream!Spec

=============================================================================
