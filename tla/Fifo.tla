-------------------------------- MODULE Fifo --------------------------------
(***************************************************************************)
(* What include/ringbuf.h:46-52 promises of a RingBuf, with no indices and *)
(* no storage: a bounded first-in first-out queue.  Add stores unless the  *)
(* queue is full, Pull removes and returns the oldest object, Peek reads   *)
(* the n-th oldest.  answer is what the last call returned.                *)
(***************************************************************************)
EXTENDS Naturals, Sequences

CONSTANTS Object,   \* the objects that can be stored
          Cap,      \* how many the queue holds
          NoObject  \* the NULL that Pull and Peek return when there is none

VARIABLES queue, answer

Init == queue = << >> /\ answer = NoObject

Add(o) ==
  \/ /\ Len(queue) < Cap
     /\ queue' = Append(queue, o)
     /\ answer' = TRUE
  \/ /\ Len(queue) = Cap
     /\ answer' = FALSE
     /\ UNCHANGED queue

Pull ==
  \/ /\ queue # << >>
     /\ answer' = Head(queue)
     /\ queue' = Tail(queue)
  \/ /\ queue = << >>
     /\ answer' = NoObject
     /\ UNCHANGED queue

Peek(n) ==
  /\ answer' = IF n < Len(queue) THEN queue[n + 1] ELSE NoObject
  /\ UNCHANGED queue

Next == (\E o \in Object : Add(o)) \/ Pull \/ (\E n \in 0 .. Cap : Peek(n))

Spec == Init /\ [][Next]_<<queue, answer>>
=============================================================================
