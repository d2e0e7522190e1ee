----------------------------- MODULE FrameStream -----------------------------
(***************************************************************************)
(* What the ring in shared memory promises, with no ring, no semaphore and *)
(* no process: frames are numbered in the order they are sent, at most     *)
(* Capacity of them wait, and each is received once, in that order.  A     *)
(* writer that is started again begins a new stream; a reader that is      *)
(* started again goes on with the frames that wait, with an empty          *)
(* printout.  A printout never goes from one stream into another, nor over *)
(* a frame that is missing.                                                *)
(***************************************************************************)
EXTENDS Naturals, Sequences

CONSTANTS Capacity, Total

VARIABLES
  sent,      \* frames sent in this stream
  waiting,   \* the frames not received yet, oldest first
  printed    \* what the reader has received

Init == sent = 0 /\ waiting = <<>> /\ printed = <<>>

Send ==
  /\ sent < Total /\ Len(waiting) < Capacity
  /\ waiting' = Append(waiting, sent)
  /\ sent' = sent + 1
  /\ UNCHANGED printed

Receive ==
  /\ waiting # <<>>
  /\ printed = <<>> \/ Head(waiting) = printed[Len(printed)] + 1
  /\ printed' = Append(printed, Head(waiting))
  /\ waiting' = Tail(waiting)
  /\ UNCHANGED sent

NewWriter == sent' = 0 /\ waiting' = <<>> /\ UNCHANGED printed

NewReader == printed' = <<>> /\ UNCHANGED <<sent, waiting>>

Next == Send \/ Receive \/ NewWriter \/ NewReader

Spec == Init /\ [][Next]_<<sent, waiting, printed>>

=============================================================================
