------------------------------- MODULE RingBuf -------------------------------
(***************************************************************************)
(* lib/ringbuf.c called by one context at a time: the circular buffer that *)
(* keeps the bytes of the two TCP connections and the messages of the      *)
(* broker until the host asks for them.  A slot is a whole object: size    *)
(* only scales the addresses.                                              *)
(***************************************************************************)
EXTENDS Integers

CONSTANTS Object,    \* the objects stored
          len,       \* RingBuf.len, the number of slots
          NoObject   \* NULL, and the zeroed slot of a fresh buffer

ASSUME LenAssumption == len \in Nat \ {0}
ASSUME ObjectAssumption == NoObject \notin Object /\ NoObject \notin BOOLEAN

VARIABLES buf,       \* slot contents, by index
          start,     \* index of the oldest object
          end,       \* index of the newest object
          elements,  \* how many objects are stored
          answer     \* what the last call returned

vars == <<buf, start, end, elements, answer>>

Index == 0 .. len - 1

IsEmpty == elements = 0
IsFull == elements = len

(* Mutant: one object too many before the buffer counts as full.           *)
FullTooLate ==
  IF elements > len THEN -1 ELSE (end + (IF IsEmpty THEN 0 ELSE 1)) % len

(* Mutant: the empty buffer is not told apart.                             *)
SkipOnEmpty == IF IsFull THEN -1 ELSE (end + 1) % len

(* The index an Add writes to: -1 when full; an empty buffer reuses end.   *)
NextEndIndex ==
  IF IsFull THEN -1 ELSE (end + (IF IsEmpty THEN 0 ELSE 1)) % len

Init ==
  /\ buf = [i \in Index |-> NoObject]
  /\ start = 0 /\ end = 0 /\ elements = 0
  /\ answer = NoObject

(* RingBufAdd stores the object and says where; the model keeps whether.   *)
Add(o) ==
  LET index == NextEndIndex IN
  \/ /\ index >= 0
     /\ buf' = [buf EXCEPT ![index] = o]
     /\ end' = IF IsEmpty THEN end ELSE (end + 1) % len
     /\ elements' = elements + 1
     /\ answer' = TRUE
     /\ UNCHANGED start
  \/ /\ index < 0
     /\ answer' = FALSE
     /\ UNCHANGED <<buf, start, end, elements>>

(* Mutant: start moves even when the last object leaves.                   *)
PullAlwaysAdvances ==
  \/ /\ IsEmpty
     /\ answer' = NoObject
     /\ UNCHANGED <<buf, start, end, elements>>
  \/ /\ ~IsEmpty
     /\ answer' = buf[start]
     /\ elements' = elements - 1
     /\ start' = (start + 1) % len
     /\ UNCHANGED <<buf, end>>

(* RingBufPull: start stays where it is when the last object leaves.       *)
Pull ==
  \/ /\ IsEmpty
     /\ answer' = NoObject
     /\ UNCHANGED <<buf, start, end, elements>>
  \/ /\ ~IsEmpty
     /\ answer' = buf[start]
     /\ elements' = elements - 1
     /\ start' = IF elements' = 0 THEN start ELSE (start + 1) % len
     /\ UNCHANGED <<buf, end>>

Peek(n) ==
  /\ answer' = IF IsEmpty \/ n > elements - 1
               THEN NoObject ELSE buf[(start + n) % len]
  /\ UNCHANGED <<buf, start, end, elements>>

Next == (\E o \in Object : Add(o)) \/ Pull \/ (\E n \in 0 .. len : Peek(n))

Spec == Init /\ [][Next]_vars

-----------------------------------------------------------------------------
(* Every field keeps its range: the indices stay in bounds                 *)
(* (ringbuf.h:31) and the count never passes the number of slots.          *)
TypeOK ==
  /\ buf \in [Index -> Object \cup {NoObject}]
  /\ start \in Index
  /\ end \in Index
  /\ elements \in 0 .. len
  /\ answer \in Object \cup BOOLEAN \cup {NoObject}

(* start, end and elements are redundant and three methods update them     *)
(* separately: an empty buffer has start = end, any other one has end      *)
(* exactly elements - 1 slots after start, around the wrap, and no slot    *)
(* between them was left unwritten.                                        *)
Consistent ==
  /\ elements = 0 => start = end
  /\ elements > 0 => end = (start + elements - 1) % len
  /\ \A i \in 0 .. len - 1 : i < elements => buf[(start + i) % len] \in Object

(* The objects stored, oldest first, and the FIFO the buffer implements.   *)
Stored == [i \in 1 .. elements |-> buf[(start + i - 1) % len]]

Abstract == INSTANCE Fifo WITH queue <- Stored, Cap <- len

(* Add, Pull and Peek of the circular buffer answer exactly as a bounded   *)
(* FIFO queue would (ringbuf.h:46-52).                                     *)
ImplementsFifo == Abstract!Spec

=============================================================================
