---------------------------- MODULE RingBufShared ----------------------------
(***************************************************************************)
(* mg_buf, the buffer of broker messages, as it is really used: mqtt_task  *)
(* adds from onMsghandler while read_sr, at a lower priority, may be       *)
(* anywhere inside the pull of an AT+MGPM command.  Nothing locks.  The    *)
(* handler cannot be preempted by read_sr, so it is one step; read_sr is   *)
(* one step per access to memory the handler also touches.                 *)
(***************************************************************************)
EXTENDS Integers, Sequences

CONSTANTS len,        \* RingBuf.len (20 for mg_buf)
          MaxMessage, \* bound: how many messages the broker delivers
          NoMessage   \* a slot never written

ASSUME LenAssumption == len \in Nat \ {0, 1}
ASSUME MessageAssumption == MaxMessage \in Nat /\ NoMessage \notin Nat

VARIABLES buf, start, end, elements, \* the fields of mg_buf
          str_pull,    \* the global both contexts pull into, [topic, msg]
          push_mode,   \* 1 after AT+CP: the handler prints what it adds
          received,    \* how many messages the broker delivered
          printed,     \* what reached the serial line, in order
          pc,          \* where read_sr is inside AT+MGPM
          reg,         \* the register holding what read_sr loaded
          exposed      \* history: the handler ran in a window listed below

ring == <<buf, start, end, elements>>
vars == <<ring, str_pull, push_mode, received, printed, pc, reg, exposed>>

Index == 0 .. len - 1
Message == 1 .. MaxMessage
Step == {"idle", "isEmpty", "topic", "msg", "load", "store", "last",
         "loadStart", "storeStart", "print", "text"}

Init ==
  /\ buf = [i \in Index |-> NoMessage]
  /\ start = 0 /\ end = 0 /\ elements = 0
  /\ str_pull = [topic |-> NoMessage, msg |-> NoMessage]
  /\ push_mode = 1
  /\ received = 0 /\ printed = << >>
  /\ pc = "idle" /\ reg = 0 /\ exposed = FALSE

-----------------------------------------------------------------------------
(* onMsghandler, in mqtt_task.                                             *)
AddedElements == IF elements = len THEN len ELSE elements + 1

(* Mutant: the index runs off the end of the array.                        *)
AddedUnwrapped == end + (IF elements = 0 THEN 0 ELSE 1)

AddedIndex == (end + (IF elements = 0 THEN 0 ELSE 1)) % len
AddedBuf(m) == IF elements = len THEN buf ELSE [buf EXCEPT ![AddedIndex] = m]
AddedEnd == IF elements = len THEN end ELSE AddedIndex

(* Pull mode: the message waits in mg_buf, or is dropped when it is full.  *)
OnMsgStore(m) ==
  /\ push_mode = 0
  /\ elements' = AddedElements
  /\ buf' = AddedBuf(m)
  /\ end' = AddedEnd
  /\ UNCHANGED <<start, str_pull, printed>>

(* Push mode: the oldest message is pulled into str_pull and printed.      *)
OnMsgPush(m) ==
  /\ push_mode = 1
  /\ elements' = AddedElements - 1
  /\ buf' = AddedBuf(m)
  /\ end' = AddedEnd
  /\ start' = IF elements' = 0 THEN start ELSE (start + 1) % len
  /\ str_pull' = [topic |-> buf'[start], msg |-> buf'[start]]
  /\ printed' = Append(printed, str_pull')

(* Between the load and the test of elements (ringbuf.c:112-114), and in   *)
(* push mode anywhere inside the pull, the handler and the pull disturb    *)
(* each other.                                                             *)
Window == pc \in {"store", "last"} \/ (push_mode = 1 /\ pc # "idle")

onMsghandler(m) ==
  /\ received' = received + 1
  /\ OnMsgStore(m) \/ OnMsgPush(m)
  /\ exposed' = (exposed \/ Window)
  /\ UNCHANGED <<push_mode, pc, reg>>

(* The broker's messages come one after the other.                         *)
MessageArrives ==
  /\ received < MaxMessage
  /\ onMsghandler(received + 1)

-----------------------------------------------------------------------------
(* read_sr.                                                                *)
AT_MGPM ==
  /\ pc = "idle"
  /\ elements # 0
  /\ pc' = "isEmpty"
  /\ UNCHANGED <<ring, str_pull, push_mode, received, printed, reg>>

AT_CP ==
  /\ pc = "idle"
  /\ push_mode' \in {0, 1}
  /\ UNCHANGED <<ring, str_pull, received, printed, pc, reg>>

PullIsEmpty ==
  /\ pc = "isEmpty"
  /\ reg' = start
  /\ pc' = IF elements = 0 THEN "print" ELSE "topic"
  /\ UNCHANGED <<ring, str_pull, push_mode, received, printed>>

(* memcpy of the slot at the start that was read before; the handler may   *)
(* run in the middle of the copy.                                          *)
PullCopyTopic ==
  /\ pc = "topic"
  /\ str_pull' = [str_pull EXCEPT !.topic = buf[reg]]
  /\ pc' = "msg"
  /\ UNCHANGED <<ring, push_mode, received, printed, reg>>

PullCopyMsg ==
  /\ pc = "msg"
  /\ str_pull' = [str_pull EXCEPT !.msg = buf[reg]]
  /\ pc' = "load"
  /\ UNCHANGED <<ring, push_mode, received, printed, reg>>

(* elements-- is a load and a store.                                       *)
PullLoad ==
  /\ pc = "load"
  /\ reg' = elements
  /\ pc' = "store"
  /\ UNCHANGED <<ring, str_pull, push_mode, received, printed>>

PullStore ==
  /\ pc = "store"
  /\ elements' = reg - 1
  /\ pc' = "last"
  /\ UNCHANGED <<buf, start, end, str_pull, push_mode, received, printed, reg>>

(* Mutant: start is advanced even when the last element left.              *)
PullLastAdvances ==
  /\ pc = "last"
  /\ pc' = "loadStart"
  /\ UNCHANGED <<ring, str_pull, push_mode, received, printed, reg>>

PullLast ==
  /\ pc = "last"
  /\ pc' = IF elements = 0 THEN "print" ELSE "loadStart"
  /\ UNCHANGED <<ring, str_pull, push_mode, received, printed, reg>>

(* start = (start + 1) % len is a load and a store too.                    *)
PullLoadStart ==
  /\ pc = "loadStart"
  /\ reg' = start
  /\ pc' = "storeStart"
  /\ UNCHANGED <<ring, str_pull, push_mode, received, printed>>

PullStoreStart ==
  /\ pc = "storeStart"
  /\ start' = (reg + 1) % len
  /\ pc' = "print"
  /\ UNCHANGED <<buf, end, elements, str_pull, push_mode, received, printed, reg>>

(* os_printf("%s:%s") reads the global while it writes, the topic first.   *)
PrintTopic ==
  /\ pc = "print"
  /\ reg' = str_pull.topic
  /\ pc' = "text"
  /\ UNCHANGED <<ring, str_pull, push_mode, received, printed>>

PrintText ==
  /\ pc = "text"
  /\ printed' = Append(printed, [topic |-> reg, msg |-> str_pull.msg])
  /\ pc' = "idle"
  /\ reg' = 0
  /\ UNCHANGED <<ring, str_pull, push_mode, received>>

read_sr ==
  /\ \/ AT_MGPM \/ AT_CP
     \/ PullIsEmpty \/ PullCopyTopic \/ PullCopyMsg
     \/ PullLoad \/ PullStore \/ PullLast
     \/ PullLoadStart \/ PullStoreStart
     \/ PrintTopic \/ PrintText
  /\ UNCHANGED exposed

Next == MessageArrives \/ read_sr

Spec == Init /\ [][Next]_vars

-----------------------------------------------------------------------------
(* ringbuf.h:31 "end and start is always in bounds", and the unsigned      *)
(* element count never wraps below zero nor passes len, wherever the       *)
(* handler preempts a pull and whatever it overwrites.                     *)
InBounds ==
  /\ start \in Index
  /\ end \in Index
  /\ elements \in 0 .. len

(* Outside that window nothing is lost to the missing lock: the messages   *)
(* printed are whole (topic and text of one message), were received, and   *)
(* come out in the order they came in, each once - although the handler    *)
(* may add in the middle of the copy and of the update of start.           *)
OrderedUnlessExposed ==
  exposed \/ \A i \in 1 .. Len(printed) :
    /\ printed[i].msg \in 1 .. received
    /\ printed[i].topic = printed[i].msg
    /\ i > 1 => printed[i - 1].msg < printed[i].msg

(* ringbuf.h:50 "Removes element and copies it": a message pulled once is  *)
(* not in the buffer for a later pull, so none is printed twice.           *)
PulledOnce ==
  \A i, j \in 1 .. Len(printed) : printed[i].msg = printed[j].msg => i = j
=============================================================================
