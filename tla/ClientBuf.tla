------------------------------ MODULE ClientBuf ------------------------------
(***************************************************************************)
(* client1_buf, the ring of the bytes of a TCP connection: recv_cb1 adds   *)
(* to it in the task of the SDK, read_sr, at a lower priority, pulls from  *)
(* it for AT+CR1 and AT+CRTA1.  Nothing locks.  The callback cannot be     *)
(* preempted by read_sr, so each byte it adds is one step; read_sr is one  *)
(* step per access to a field that the callback writes (start it has for   *)
(* itself).  The bytes of one callback are as many steps in a row: to      *)
(* read_sr they look like as many packets of one byte.                     *)
(*                                                                         *)
(* Bytes are numbered in the order in which the servers sent them.         *)
(***************************************************************************)
EXTENDS Integers, Sequences

CONSTANTS MaxByte, \* bound: how many bytes the servers send
          BufLen   \* length of client1_buf (1024)

ASSUME ByteAssumption == MaxByte \in Nat
ASSUME BufLenAssumption == BufLen \in Nat \ {0, 1}

VARIABLES
  buf, start, end, elements, \* the fields of client1_buf
  left,     \* bytes read_sr still has to pull
  place,    \* where it is in the pull of one
  reg,      \* the register holding elements
  c,        \* the byte pulled
  received, \* how many bytes have arrived
  lost,     \* those that found client1_buf full
  printed,  \* those that reached the serial line
  exposed   \* history: recv_cb1 ran in the window below

ring == <<buf, start, end, elements>>
pull == <<left, place, reg, c>>
bytes == <<received, lost, printed>>

Index == 0 .. BufLen - 1
Byte == 1 .. MaxByte
NoByte == 0
Place == {"isEmpty", "copy", "load", "store", "last", "print"}

BufInit ==
  /\ buf = [i \in Index |-> NoByte] /\ start = 0 /\ end = 0 /\ elements = 0
  /\ left = 0 /\ place = "isEmpty" /\ reg = 0 /\ c = NoByte
  /\ received = 0 /\ lost = {} /\ printed = << >> /\ exposed = FALSE

-----------------------------------------------------------------------------
(* Mutant: add stores in a full buffer.                                    *)
FullIgnored == FALSE

IsFull == elements = BufLen

NextEndIndex == (end + (IF elements = 0 THEN 0 ELSE 1)) % BufLen

(* Between the load and the store of elements, and between the store of    *)
(* none and the test of it (ringbuf.c:112-114), an add and the pull        *)
(* disturb each other.                                                     *)
Window == place = "store" \/ (place = "last" /\ elements = 0)

(* One byte of recv_cb1, which ignores what add returns.                   *)
AddByte ==
  /\ received < MaxByte
  /\ received' = received + 1
  /\ \/ /\ ~IsFull
        /\ buf' = [buf EXCEPT ![NextEndIndex] = received']
        /\ end' = NextEndIndex
        /\ elements' = elements + 1
        /\ exposed' = (exposed \/ Window)
        /\ UNCHANGED lost
     \/ /\ IsFull
        /\ lost' = lost \cup {received'}
        /\ UNCHANGED <<buf, end, elements, exposed>>
  /\ UNCHANGED <<start, pull, printed>>

-----------------------------------------------------------------------------
(* The pull of one byte, and its print; the pull of an empty buffer leaves *)
(* c as it is.                                                             *)
PullIsEmpty ==
  /\ left > 0 /\ place = "isEmpty"
  /\ place' = IF elements = 0 THEN "print" ELSE "copy"
  /\ UNCHANGED <<ring, left, reg, c, bytes>>

PullCopy ==
  /\ place = "copy"
  /\ c' = buf[start]
  /\ place' = "load"
  /\ UNCHANGED <<ring, left, reg, bytes>>

PullLoad ==
  /\ place = "load"
  /\ reg' = elements
  /\ place' = "store"
  /\ UNCHANGED <<ring, left, c, bytes>>

PullStore ==
  /\ place = "store"
  /\ elements' = reg - 1
  /\ reg' = 0
  /\ place' = "last"
  /\ UNCHANGED <<buf, start, end, left, c, bytes>>

(* Mutant: start moves even when the last byte left.                       *)
PullLastAdvances ==
  /\ place = "last"
  /\ start' = (start + 1) % BufLen
  /\ place' = "print"
  /\ UNCHANGED <<buf, end, elements, left, reg, c, bytes>>

PullLast ==
  /\ place = "last"
  /\ start' = IF elements = 0 THEN start ELSE (start + 1) % BufLen
  /\ place' = "print"
  /\ UNCHANGED <<buf, end, elements, left, reg, c, bytes>>

PrintByte ==
  /\ place = "print"
  /\ printed' = Append(printed, c)
  /\ left' = left - 1
  /\ place' = "isEmpty"
  /\ UNCHANGED <<ring, reg, c, received, lost>>

PullStep ==
  /\ PullIsEmpty \/ PullCopy \/ PullLoad \/ PullStore \/ PullLast \/ PrintByte
  /\ UNCHANGED exposed

-----------------------------------------------------------------------------
(* The indexes stay in bounds and the count between none and all, and      *)
(* read_sr never pulls from an empty buffer, whatever recv_cb1 overwrites. *)
BufTypeOK ==
  /\ buf \in [Index -> Byte \cup {NoByte}]
  /\ start \in Index /\ end \in Index /\ elements \in 0 .. BufLen
  /\ left \in 0 .. BufLen /\ place \in Place
  /\ place \in {"copy", "load"} => elements > 0
  /\ reg \in 0 .. BufLen /\ c \in Byte \cup {NoByte}
  /\ received \in 0 .. MaxByte /\ lost \subseteq Byte /\ printed \in Seq(Byte \cup {NoByte})
  /\ exposed \in BOOLEAN

(* A byte leaves the buffer with the store of elements, for c.             *)
First == IF place = "last" THEN (start + 1) % BufLen ELSE start
Stored == [i \in 1 .. elements |-> buf[(First + (i - 1)) % BufLen]]
Held == IF place \in {"last", "print"} THEN <<c>> ELSE << >>
Kept == printed \o Held \o Stored

(* Unless recv_cb1 ran in that window, every byte received is printed, on  *)
(* its way to the print, or waits in the buffer, once and in order, or was *)
(* lost to a full buffer - although recv_cb1 may run anywhere else between *)
(* the count, the pulls and the prints of AT+CR.                           *)
BytesKept ==
  exposed \/
    /\ \A i, j \in DOMAIN Kept : i < j => Kept[i] < Kept[j]
    /\ {Kept[i] : i \in DOMAIN Kept} = 1 .. received \ lost
=============================================================================
