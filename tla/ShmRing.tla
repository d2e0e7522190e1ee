------------------------------- MODULE ShmRing -------------------------------
(***************************************************************************)
(* shm_ipc: a writer and a reader, two processes that share a ring in      *)
(* named memory under three named semaphores.  Either can be killed at any *)
(* point and started again; the names, the values of the semaphores and    *)
(* the ring outlive them.                                                  *)
(*                                                                         *)
(* External: the kernel's names.  A semaphore is known by the run of the   *)
(* writer that created it, so that a process can hold one whose name now   *)
(* means another; 0 is no semaphore and no memory.                         *)
(***************************************************************************)
EXTENDS Integers, Sequences

CONSTANTS
  Capacity,    \* CAPACITY
  Total,       \* TOTAL_FRAMES
  Patient,     \* TRUE if people start a program only when the other is ready
  MaxRuns,     \* bound: how often the writer is started
  MaxCrashes   \* bound: how often a process is killed

ASSUME ShmAssumption ==
  /\ Capacity \in Nat \ {0} /\ Total \in Nat \ {0}
  /\ Patient \in BOOLEAN
  /\ MaxRuns \in Nat /\ MaxCrashes \in Nat

VARIABLES
  shmName,   \* the memory that SHM_NAME means
  region,    \* SharedRegion in each memory
  semName,   \* the semaphore that each name means
  value,     \* the value of each semaphore
  writer,    \* the writer process
  reader,    \* the reader process
  put,       \* frames put into the ring since it was made or cleared
  taken,     \* frames taken from it since
  run,       \* starts of the writer
  ready,     \* TRUE when the writer of this run has said that it is ready
  crashes,   \* processes killed
  clean      \* TRUE if none has been since this run began

kernel == <<shmName, semName, value>>
ring == <<region, put, taken>>
people == <<run, ready, crashes, clean>>
vars == <<kernel, ring, writer, reader, people>>

(* The order in which the programs name their semaphores.                  *)
SemNames == <<"mutex", "full", "empty">>
Sems == {"mutex", "full", "empty"}
Runs == 1 .. MaxRuns
Slots == 0 .. Capacity - 1

(* A frame is its id; memory that was never written has no valid frame.    *)
Blank == -1
Frames == 0 .. Total - 1

ClearRegion == [frames |-> [s \in Slots |-> Blank], head |-> 0, tail |-> 0]

InitialValue(s) == CASE s = "mutex" -> 1 [] s = "full" -> 0 [] s = "empty" -> Capacity

Process == [pc |-> "off", k |-> 1, region |-> 0, sem |-> [s \in Sems |-> 0], i |-> 0, got |-> <<>>]

Running(p) == p.pc \notin {"off", "done"}

Init ==
  /\ shmName = 0 /\ region = [r \in Runs |-> ClearRegion]
  /\ semName = [s \in Sems |-> 0] /\ value = [s \in Sems |-> [r \in Runs |-> 0]]
  /\ writer = Process /\ reader = Process
  /\ put = 0 /\ taken = 0
  /\ run = 0 /\ ready = FALSE /\ crashes = 0 /\ clean = TRUE

(* sem_wait and sem_post on the semaphore that process p opened as s.      *)
Wait(p, s) ==
  /\ value[s][p.sem[s]] > 0
  /\ value' = [value EXCEPT ![s][p.sem[s]] = @ - 1]

Post(p, s) == value' = [value EXCEPT ![s][p.sem[s]] = @ + 1]

-----------------------------------------------------------------------------
(* writer.cpp.                                                             *)

(* The user starts the writer: shm_open finds the memory or makes it.      *)
StartWriter ==
  /\ ~Running(writer) /\ run < MaxRuns
  /\ Patient => ~Running(reader)
  /\ run' = run + 1
  /\ shmName' = IF shmName = 0 THEN run + 1 ELSE shmName
  /\ writer' = [Process EXCEPT !.pc = "clear", !.region = shmName']
  /\ IF shmName = 0 THEN put' = 0 /\ taken' = 0 ELSE UNCHANGED <<put, taken>>
  /\ ready' = FALSE /\ clean' = ~Running(reader)
  /\ UNCHANGED <<semName, value, region, reader, crashes>>

(* Mutant: head and tail are left as the memory has them.                  *)
WriterKeepsRing ==
  /\ writer.pc = "clear"
  /\ put' = 0 /\ taken' = 0
  /\ writer' = [writer EXCEPT !.pc = "unlink"]
  /\ UNCHANGED <<kernel, region, reader, people>>

(* memset.                                                                 *)
WriterClears ==
  /\ writer.pc = "clear"
  /\ region' = [region EXCEPT ![writer.region] = ClearRegion]
  /\ put' = 0 /\ taken' = 0
  /\ writer' = [writer EXCEPT !.pc = "unlink"]
  /\ UNCHANGED <<kernel, reader, people>>

(* Mutant: the semaphores of an earlier run keep their names.              *)
WriterKeepsSemaphores ==
  /\ writer.pc = "unlink"
  /\ writer' = [writer EXCEPT !.pc = "open"]
  /\ UNCHANGED <<kernel, ring, reader, people>>

(* sem_unlink, one name after the other.                                   *)
WriterUnlinks ==
  /\ writer.pc = "unlink"
  /\ semName' = [semName EXCEPT ![SemNames[writer.k]] = 0]
  /\ writer' = IF writer.k < 3 THEN [writer EXCEPT !.k = @ + 1]
               ELSE [writer EXCEPT !.k = 1, !.pc = "open"]
  /\ UNCHANGED <<shmName, value, ring, reader, people>>

(* sem_open with O_CREAT: the value counts only if the name is free.  With *)
(* the last one the writer says that it is ready.                          *)
WriterOpens ==
  LET s == SemNames[writer.k]
      object == IF semName[s] = 0 THEN run ELSE semName[s]
      opened == [writer EXCEPT !.sem[s] = object]
  IN  /\ writer.pc = "open"
      /\ semName' = [semName EXCEPT ![s] = object]
      /\ value' = IF semName[s] = 0
                  THEN [value EXCEPT ![s][run] = InitialValue(s)] ELSE value
      /\ IF writer.k < 3
         THEN writer' = [opened EXCEPT !.k = @ + 1] /\ ready' = ready
         ELSE writer' = [opened EXCEPT !.k = 1, !.pc = "waitEmpty"] /\ ready' = TRUE
      /\ UNCHANGED <<shmName, ring, reader, run, crashes, clean>>

(* Mutant: the mutex before the place.                                     *)
WriterWaitsMutexFirst ==
  /\ \/ /\ writer.pc = "waitEmpty" /\ Wait(writer, "mutex")
        /\ writer' = [writer EXCEPT !.pc = "waitMutex"]
     \/ /\ writer.pc = "waitMutex" /\ Wait(writer, "empty")
        /\ writer' = [writer EXCEPT !.pc = "put"]
  /\ UNCHANGED <<shmName, semName, ring, reader, people>>

(* The waits and posts of the loop, in their order around the ring.        *)
WriterWaits ==
  /\ \/ /\ writer.pc = "waitEmpty" /\ Wait(writer, "empty")
        /\ writer' = [writer EXCEPT !.pc = "waitMutex"]
     \/ /\ writer.pc = "waitMutex" /\ Wait(writer, "mutex")
        /\ writer' = [writer EXCEPT !.pc = "put"]
  /\ UNCHANGED <<shmName, semName, ring, reader, people>>

(* The frame and head, under the mutex.                                    *)
WriterPuts ==
  LET r == writer.region
  IN  /\ writer.pc = "put"
      /\ region' = [region EXCEPT ![r].frames[region[r].head] = writer.i,
                                  ![r].head = (@ + 1) % Capacity]
      /\ put' = put + 1
      /\ writer' = [writer EXCEPT !.pc = "postMutex"]
      /\ UNCHANGED <<kernel, taken, reader, people>>

WriterPosts ==
  /\ \/ /\ writer.pc = "postMutex" /\ Post(writer, "mutex")
        /\ writer' = [writer EXCEPT !.pc = "postFull"]
     \/ /\ writer.pc = "postFull" /\ Post(writer, "full")
        /\ writer' = [writer EXCEPT !.i = @ + 1,
                                    !.pc = IF writer.i + 1 < Total THEN "waitEmpty" ELSE "done"]
  /\ UNCHANGED <<shmName, semName, ring, reader, people>>

Writer ==
  \/ WriterClears \/ WriterUnlinks \/ WriterOpens
  \/ WriterWaits \/ WriterPuts \/ WriterPosts

-----------------------------------------------------------------------------
(* reader.cpp.                                                             *)

(* The user starts the reader.  With no memory of that name it says so and *)
(* ends.                                                                   *)
StartReader ==
  /\ ~Running(reader)
  /\ Patient => ready
  /\ shmName # 0
  /\ reader' = [Process EXCEPT !.pc = "open", !.region = shmName]
  /\ UNCHANGED <<kernel, ring, writer, people>>

(* sem_open without O_CREAT; what it returns is not looked at.             *)
ReaderOpens ==
  LET s == SemNames[reader.k]
      opened == [reader EXCEPT !.sem[s] = semName[s]]
  IN  /\ reader.pc = "open"
      /\ reader' = IF reader.k < 3 THEN [opened EXCEPT !.k = @ + 1]
                   ELSE [opened EXCEPT !.k = 1, !.pc = "waitFull"]
      /\ UNCHANGED <<kernel, ring, writer, people>>

(* sem_wait on a semaphore that was not there faults.                      *)
ReaderFaults ==
  /\ \/ reader.pc = "waitFull" /\ reader.sem["full"] = 0
     \/ reader.pc = "waitMutex" /\ reader.sem["mutex"] = 0
     \/ reader.pc = "postEmpty" /\ reader.sem["empty"] = 0
  /\ reader' = [reader EXCEPT !.pc = "off"]
  /\ clean' = FALSE
  /\ UNCHANGED <<kernel, ring, writer, run, ready, crashes>>

ReaderWaits ==
  /\ \/ /\ reader.pc = "waitFull" /\ reader.sem["full"] # 0 /\ Wait(reader, "full")
        /\ reader' = [reader EXCEPT !.pc = "waitMutex"]
     \/ /\ reader.pc = "waitMutex" /\ reader.sem["mutex"] # 0 /\ Wait(reader, "mutex")
        /\ reader' = [reader EXCEPT !.pc = "take"]
  /\ UNCHANGED <<shmName, semName, ring, writer, people>>

(* The frame and tail, under the mutex.                                    *)
ReaderTakes ==
  LET r == reader.region
  IN  /\ reader.pc = "take"
      /\ region' = [region EXCEPT ![r].tail = (@ + 1) % Capacity]
      /\ taken' = taken + 1
      /\ reader' = [reader EXCEPT !.pc = "postMutex",
                                  !.got = Append(@, region[r].frames[region[r].tail])]
      /\ UNCHANGED <<kernel, put, writer, people>>

(* A frame is done: the next one, or the teardown.                         *)
NextFrame(p) ==
  [p EXCEPT !.i = @ + 1, !.pc = IF p.i + 1 < Total THEN "waitFull" ELSE "teardown"]

ReaderPosts ==
  /\ \/ /\ reader.pc = "postMutex" /\ Post(reader, "mutex")
        /\ reader' = [reader EXCEPT !.pc = "postEmpty"]
     \/ /\ reader.pc = "postEmpty" /\ reader.sem["empty"] # 0 /\ Post(reader, "empty")
        /\ reader' = NextFrame(reader)
  /\ UNCHANGED <<shmName, semName, ring, writer, people>>

(* The names go: the three semaphores, then the memory.                    *)
ReaderUnlinks ==
  /\ reader.pc = "teardown"
  /\ IF reader.k <= 3
     THEN /\ semName' = [semName EXCEPT ![SemNames[reader.k]] = 0]
          /\ reader' = [reader EXCEPT !.k = @ + 1]
          /\ UNCHANGED shmName
     ELSE /\ shmName' = 0
          /\ reader' = [reader EXCEPT !.pc = "done"]
          /\ UNCHANGED semName
  /\ UNCHANGED <<value, ring, writer, people>>

Reader ==
  \/ ReaderOpens \/ ReaderFaults \/ ReaderWaits \/ ReaderTakes
  \/ ReaderPosts \/ ReaderUnlinks

-----------------------------------------------------------------------------

(* A process is killed.                                                    *)
Crash ==
  /\ crashes < MaxCrashes
  /\ crashes' = crashes + 1
  /\ clean' = FALSE
  /\ \/ /\ Running(writer) /\ writer' = [writer EXCEPT !.pc = "off"] /\ UNCHANGED reader
     \/ /\ Running(reader) /\ reader' = [reader EXCEPT !.pc = "off"] /\ UNCHANGED writer
  /\ UNCHANGED <<kernel, ring, run, ready>>

Next == StartWriter \/ StartReader \/ Writer \/ Reader \/ Crash

Spec == Init /\ [][Next]_vars

(* A process that runs goes on, and a reader is started for a writer that  *)
(* is ready.                                                               *)
Fairness == WF_vars(Writer) /\ WF_vars(Reader) /\ WF_vars(StartReader)

LiveSpec == Spec /\ Fairness

-----------------------------------------------------------------------------
(* Properties.                                                             *)

Processes ==
  [pc : {"off", "clear", "unlink", "open", "waitEmpty", "waitFull", "waitMutex", "put", "take",
         "postMutex", "postFull", "postEmpty", "teardown", "done"},
   k : 1 .. 4, region : 0 .. MaxRuns, sem : [Sems -> 0 .. MaxRuns],
   i : 0 .. Total, got : Seq(Frames \cup {Blank})]

(* Types; among them that head and tail stay inside the ring.              *)
TypeOK ==
  /\ shmName \in 0 .. MaxRuns
  /\ region \in [Runs -> [frames : [Slots -> Frames \cup {Blank}], head : Slots, tail : Slots]]
  /\ semName \in [Sems -> 0 .. MaxRuns]
  /\ value \in [Sems -> [Runs -> Nat]]
  /\ writer \in Processes /\ reader \in Processes
  /\ put \in Nat /\ taken \in Nat
  /\ run \in 0 .. MaxRuns /\ ready \in BOOLEAN
  /\ crashes \in 0 .. MaxCrashes /\ clean \in BOOLEAN

(* The ring between tail and head is what was put and not taken, in order: *)
(* no frame is overwritten before it is read, and no slot is read before   *)
(* it is written, though a killed process leaves the semaphores anywhere.  *)
RingHoldsUnread ==
  LET r == region[writer.region]
  IN  writer.region # 0 =>
        /\ put \in taken .. taken + Capacity
        /\ r.head = put % Capacity /\ r.tail = taken % Capacity
        /\ \A f \in taken .. put - 1 : r.frames[f % Capacity] = f

(* At most one process is between its wait for the mutex and its post,     *)
(* though one that is killed there never posts.                            *)
MutualExclusion ==
  ~(writer.pc \in {"put", "postMutex"} /\ reader.pc \in {"take", "postMutex"})

(* What a reader prints are frames of the writer, one after the other.     *)
Successive ==
  /\ \A k \in 1 .. Len(reader.got) : reader.got[k] # Blank
  /\ \A k \in 2 .. Len(reader.got) : reader.got[k] = reader.got[k - 1] + 1

(* A process that sleeps on a semaphore.                                   *)
Asleep(p) ==
  LET OnEmpty(s) == p.sem[s] # 0 /\ value[s][p.sem[s]] = 0
  IN  \/ p.pc = "waitEmpty" /\ OnEmpty("empty")
      \/ p.pc = "waitFull" /\ OnEmpty("full")
      \/ p.pc = "waitMutex" /\ OnEmpty("mutex")

(* As long as no process is killed, the two never sleep on each other: the *)
(* writer that a reader waits for goes on, and for a writer that waits     *)
(* there is a reader that goes on, or one can still be started.            *)
NobodyStuck ==
  ready /\ clean =>
    /\ Asleep(reader) => Running(writer) /\ ~Asleep(writer)
    /\ Asleep(writer) => shmName # 0 /\ reader.pc # "teardown"

(* The memory of a run in which no process is killed goes away only when   *)
(* every frame was sent and printed.                                       *)
EndsWithEveryFrame ==
  ready /\ clean /\ shmName = 0 =>
    /\ writer.pc = "done" /\ reader.pc = "done"
    /\ reader.got = [k \in 1 .. Total |-> k - 1]

(* A run of the writer in which no process is killed comes to its end with *)
(* every frame read, whatever earlier runs have left behind.               *)
CleanRunCompletes ==
  ready /\ clean ~>
    \/ ~clean
    \/ writer.pc = "done" /\ reader.pc = "done" /\ reader.got = [k \in 1 .. Total |-> k - 1]

(* The writer's comment says that it clears the state of a crashed run: a  *)
(* reader on the semaphores of the current run sees that run's frames.     *)
LeftoversCleared ==
  (run # 0 /\ \A s \in Sems : reader.sem[s] = run) => Successive

-----------------------------------------------------------------------------
(* The ring as a stream: what lies between tail and head waits.            *)

Waiting ==
  IF writer.region = 0 THEN <<>>
  ELSE LET r == region[writer.region]
       IN  [k \in 1 .. put - taken |-> r.frames[(r.tail + k - 1) % Capacity]]

Stream == INSTANCE FrameStream WITH sent <- put, waiting <- Waiting, printed <- reader.got

(* The ring in shared memory, its semaphores and two processes that are    *)
(* killed anywhere implement a stream of frames.                           *)
ImplementsStream == Stream!Spec

=============================================================================
