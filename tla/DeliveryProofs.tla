---------------------------- MODULE DeliveryProofs ----------------------------
(***************************************************************************)
(* The unlocked mg_buf of RingBufShared stays inside its array and, but    *)
(* for the windows that the code leaves open, keeps the messages in order, *)
(* for every length of at least two slots and any number of messages.      *)
(* What RingBufShared assumes of its producer is what the MQTT client and  *)
(* mqtt_task do, for every size of the handler table and every set of      *)
(* filters and topics.                                                     *)
(***************************************************************************)
EXTENDS Delivery, SequenceTheorems, FiniteSetTheorems, WellFoundedInduction, TLAPS

(* What read_sr knows in the middle of a pull: until it has stored the new *)
(* count there is an element, because the handler never empties a buffer   *)
(* of two slots or more, and its register holds a usable value.            *)
Midway ==
  /\ pc \in {"isEmpty", "topic", "msg", "load"} => elements >= 1
  /\ pc = "store" => reg \in 1 .. len
  /\ pc = "storeStart" => reg \in Index

IInv == InBounds /\ Midway

LEMMA ModIndex ==
  ASSUME NEW x \in Nat
  PROVE  x % len \in Index
BY LenAssumption, SMT DEF Index

LEMMA InitIInv == Init => IInv
BY LenAssumption, SMT DEF Init, IInv, InBounds, Midway, Index

(* The handler, in either mode, at any point of read_sr.                   *)
LEMMA HandlerIInv ==
  ASSUME IInv, NEW m, onMsghandler(m)
  PROVE  IInv'
<1> USE LenAssumption
<1>1. start \in Index /\ end \in Index /\ elements \in 0 .. len
  BY DEF IInv, InBounds
<1>2. AddedEnd \in Index
  <2>1. AddedIndex \in Index
    BY <1>1, ModIndex, SMT DEF AddedIndex, Index
  <2> QED BY <1>1, <2>1 DEF AddedEnd
<1>3. AddedElements \in 1 .. len /\ (elements >= 1 => AddedElements >= 2)
  BY <1>1, SMT DEF AddedElements
<1>4. pc' = pc /\ reg' = reg
  BY DEF onMsghandler
<1>5. CASE OnMsgStore(m)
  <2>1. start' = start /\ end' = AddedEnd /\ elements' = AddedElements
    BY <1>5 DEF OnMsgStore
  <2> QED BY <1>1, <1>2, <1>3, <1>4, <2>1, SMT DEF IInv, InBounds, Midway, Index
<1>6. CASE OnMsgPush(m)
  <2>1. /\ start' = IF elements' = 0 THEN start ELSE (start + 1) % len
        /\ end' = AddedEnd
        /\ elements' = AddedElements - 1
    BY <1>6 DEF OnMsgPush
  <2>2. (start + 1) % len \in Index
    BY <1>1, ModIndex, SMT DEF Index
  <2>3. start' \in Index
    BY <1>1, <2>1, <2>2
  <2>4. elements' \in 0 .. len /\ (elements >= 1 => elements' >= 1)
    BY <1>3, <2>1, SMT
  <2> QED BY <1>1, <1>2, <1>4, <2>1, <2>3, <2>4, SMT DEF IInv, InBounds, Midway, Index
<1> QED BY <1>5, <1>6 DEF onMsghandler

(* Each step of the pull.                                                  *)
LEMMA ReaderIInv ==
  ASSUME IInv, read_sr
  PROVE  IInv'
<1> USE LenAssumption DEF IInv, InBounds, Midway, ring
<1>1. CASE AT_MGPM
  BY <1>1, SMT DEF AT_MGPM, Index
<1>2. CASE AT_CP
  BY <1>2 DEF AT_CP
<1>3. CASE PullIsEmpty
  <2>1. elements >= 1 /\ pc' = "topic" /\ UNCHANGED <<start, end, elements>>
    BY <1>3, SMT DEF PullIsEmpty
  <2> QED BY <2>1
<1>4. CASE PullCopyTopic
  BY <1>4 DEF PullCopyTopic
<1>5. CASE PullCopyMsg
  BY <1>5 DEF PullCopyMsg
<1>6. CASE PullLoad
  <2>1. pc' = "store" /\ reg' \in 1 .. len /\ UNCHANGED <<start, end, elements>>
    BY <1>6, SMT DEF PullLoad
  <2> QED BY <2>1
<1>7. CASE PullStore
  <2>1. pc' = "last" /\ elements' \in 0 .. len /\ UNCHANGED <<start, end>>
    BY <1>7, SMT DEF PullStore
  <2> QED BY <2>1
<1>8. CASE PullLast
  <2>1. pc' \in {"print", "loadStart"} /\ UNCHANGED <<start, end, elements>>
    BY <1>8 DEF PullLast
  <2> QED BY <2>1
<1>9. CASE PullLoadStart
  <2>1. pc' = "storeStart" /\ reg' \in Index /\ UNCHANGED <<start, end, elements>>
    BY <1>9 DEF PullLoadStart
  <2> QED BY <2>1
<1>10. CASE PullStoreStart
  <2>1. (reg + 1) % len \in Index
    BY <1>10, ModIndex, SMT DEF PullStoreStart, Index
  <2>2. pc' = "print" /\ start' \in Index /\ UNCHANGED <<end, elements>>
    BY <1>10, <2>1 DEF PullStoreStart
  <2> QED BY <2>2
<1>11. CASE PrintTopic \/ PrintText
  <2>1. pc' \in {"text", "idle"} /\ UNCHANGED <<start, end, elements>>
    BY <1>11 DEF PrintTopic, PrintText
  <2> QED BY <2>1
<1> QED BY <1>1, <1>2, <1>3, <1>4, <1>5, <1>6, <1>7, <1>8, <1>9, <1>10, <1>11
        DEF read_sr

(* Wherever the handler preempts a pull, start and end stay in bounds      *)
(* (ringbuf.h:31) and the unsigned count never wraps: true of every buffer *)
(* of two slots or more, which mg_buf with its 20 is.                      *)
THEOREM SharedInBounds == Spec => []InBounds
<1>1. IInv /\ [Next]_vars => IInv'
  <2> SUFFICES ASSUME IInv, [Next]_vars PROVE IInv'
    OBVIOUS
  <2>1. CASE MessageArrives
    BY <2>1, HandlerIInv DEF MessageArrives
  <2>2. CASE read_sr
    BY <2>2, ReaderIInv
  <2>3. CASE UNCHANGED vars
    BY <2>3 DEF vars, ring, IInv, InBounds, Midway
  <2> QED BY <2>1, <2>2, <2>3 DEF Next
<1>2. IInv => InBounds
  BY DEF IInv
<1> QED BY InitIInv, <1>1, <1>2, PTL DEF Spec
-----------------------------------------------------------------------------
(* What mg_buf holds, in the order it came in.  The functions of the array *)
(* are of a ring of n messages from slot s to slot e of b, out of r.       *)
Value == Nat \cup {NoMessage}
Line == [topic : Value, msg : Value]

Holds(b, s, e, n, r) ==
  /\ e = IF n = 0 THEN s ELSE (s + (n - 1)) % len
  /\ \A k \in 0 .. n - 1 : b[(s + k) % len] \in 1 .. r
  /\ \A k \in 0 .. n - 1 : \A j \in 0 .. k - 1 : b[(s + j) % len] < b[(s + k) % len]

Above(b, s, n, m) == \A k \in 0 .. n - 1 : m < b[(s + k) % len]

(* Stepping an index forward wraps at len, once.                           *)
LEMMA WrapOnce ==
  ASSUME NEW x \in 0 .. 2 * len - 1
  PROVE  x % len = IF x < len THEN x ELSE x - len
<1> USE LenAssumption
<1>1. CASE x < len
  BY <1>1, SMT
<1>2. CASE x >= len
  <2>1. x - len \in 0 .. len - 1 /\ x = 1 * len + (x - len)
    BY <1>2, SMT
  <2> QED BY <2>1, <1>2, SMTT(30)
<1> QED BY <1>1, <1>2, SMT

(* Two of the first len positions from any start are different slots.      *)
LEMMA SlotsDiffer ==
  ASSUME NEW s \in Index, NEW i \in Index, NEW j \in Index, i # j
  PROVE  (s + i) % len # (s + j) % len
<1> USE LenAssumption DEF Index
<1>1. s + i \in 0 .. 2 * len - 1 /\ s + j \in 0 .. 2 * len - 1
  BY SMT
<1> QED BY <1>1, WrapOnce, SMT

(* One slot further at the start or behind the k-th place is one place     *)
(* further.                                                                *)
LEMMA NextSlot ==
  ASSUME NEW s \in Index, NEW k \in 0 .. len - 1
  PROVE  /\ (((s + k) % len) + 1) % len = (s + (k + 1)) % len
         /\ (((s + 1) % len) + k) % len = (s + (k + 1)) % len
         /\ (s + k) % len \in Index
<1> USE LenAssumption DEF Index
<1> DEFINE W(x) == IF x < len THEN x ELSE x - len
<1>1. /\ s + k \in 0 .. 2 * len - 1 /\ s + (k + 1) \in 0 .. 2 * len - 1
      /\ s + 1 \in 0 .. 2 * len - 1
  BY SMT
<1>2. /\ (s + k) % len = W(s + k)
      /\ (s + (k + 1)) % len = W(s + (k + 1))
      /\ (s + 1) % len = W(s + 1)
  BY <1>1, WrapOnce
<1>3. /\ W(s + k) + 1 \in 0 .. 2 * len - 1
      /\ W(s + 1) + k \in 0 .. 2 * len - 1
  BY SMT
<1>4. /\ (W(s + k) + 1) % len = W(W(s + k) + 1)
      /\ (W(s + 1) + k) % len = W(W(s + 1) + k)
  BY <1>3, WrapOnce
<1>5. /\ W(W(s + k) + 1) = W(s + (k + 1))
      /\ W(W(s + 1) + k) = W(s + (k + 1))
      /\ W(s + k) \in Index
  BY SMT
<1> QED BY <1>2, <1>4, <1>5

LEMMA FirstSlot ==
  ASSUME NEW s \in Index
  PROVE  (s + 0) % len = s
<1>1. s + 0 = s /\ s \in 0 .. 2 * len - 1 /\ s < len
  BY LenAssumption, SMT DEF Index
<1> QED BY <1>1, WrapOnce

(* An added message is the last one, and it is above all that came before. *)
LEMMA AddRing ==
  ASSUME NEW b \in [Index -> Value], NEW s \in Index, NEW e \in Index,
         NEW n \in 0 .. len - 1, NEW r \in Nat, Holds(b, s, e, n, r),
         NEW i, i = (e + (IF n = 0 THEN 0 ELSE 1)) % len,
         NEW c, c = [b EXCEPT ![i] = r + 1]
  PROVE  /\ Holds(c, s, i, n + 1, r + 1)
         /\ \A m \in 0 .. r : Above(b, s, n, m) => Above(c, s, n + 1, m)
         /\ \A k \in 0 .. n - 1 : c[(s + k) % len] = b[(s + k) % len]
<1> USE LenAssumption
<1>1. i = (s + n) % len
  <2>1. CASE n = 0
    <3>1. e = s /\ i = (e + 0) % len
      BY <2>1 DEF Holds
    <3> QED BY <2>1, <3>1
  <2>2. CASE n # 0
    <3>1. n - 1 \in 0 .. len - 1 /\ (n - 1) + 1 = n
      BY <2>2, SMT
    <3>2. e = (s + (n - 1)) % len /\ i = (e + 1) % len
      BY <2>2 DEF Holds
    <3>3. i = (s + ((n - 1) + 1)) % len
      BY <3>1, <3>2, NextSlot
    <3> QED BY <3>1, <3>3
  <2> QED BY <2>1, <2>2
<1>2. i \in Index
  BY <1>1, NextSlot
<1>3. c[(s + n) % len] = r + 1
  BY <1>1, <1>2
<1>4. \A k \in 0 .. n - 1 : c[(s + k) % len] = b[(s + k) % len]
  <2> SUFFICES ASSUME NEW k \in 0 .. n - 1 PROVE c[(s + k) % len] = b[(s + k) % len]
    OBVIOUS
  <2>1. k \in Index /\ n \in Index /\ k # n
    BY SMT DEF Index
  <2>2. (s + k) % len # (s + n) % len
    BY <2>1, SlotsDiffer
  <2>3. (s + k) % len \in Index
    BY <2>1, NextSlot DEF Index
  <2> QED BY <1>1, <2>2, <2>3
<1>5. \A k \in 0 .. (n + 1) - 1 : k = n \/ k \in 0 .. n - 1
  BY SMT
<1>6. Holds(c, s, i, n + 1, r + 1)
  <2>1. i = IF n + 1 = 0 THEN s ELSE (s + ((n + 1) - 1)) % len
    <3>1. n + 1 # 0 /\ (n + 1) - 1 = n
      BY SMT
    <3> QED BY <1>1, <3>1
  <2>2. ASSUME NEW k \in 0 .. (n + 1) - 1
        PROVE  c[(s + k) % len] \in 1 .. r + 1
    <3>1. CASE k = n
      BY <3>1, <1>3, SMT
    <3>2. CASE k \in 0 .. n - 1
      <4>1. c[(s + k) % len] \in 1 .. r
        BY <3>2, <1>4 DEF Holds
      <4> QED BY <4>1, SMT
    <3> QED BY <3>1, <3>2, <1>5
  <2>3. ASSUME NEW k \in 0 .. (n + 1) - 1, NEW j \in 0 .. k - 1
        PROVE  c[(s + j) % len] < c[(s + k) % len]
    <3>0. j \in 0 .. n - 1
      BY SMT
    <3>1. CASE k = n
      <4>1. c[(s + j) % len] \in 1 .. r
        BY <3>0, <1>4 DEF Holds
      <4> QED BY <4>1, <3>1, <1>3, SMT
    <3>2. CASE k \in 0 .. n - 1
      <4>1. b[(s + j) % len] < b[(s + k) % len]
        BY <3>2 DEF Holds
      <4> QED BY <4>1, <3>0, <3>2, <1>4
    <3> QED BY <3>1, <3>2, <1>5
  <2> QED BY <2>1, <2>2, <2>3 DEF Holds
<1>7. ASSUME NEW m \in 0 .. r, Above(b, s, n, m)
      PROVE  Above(c, s, n + 1, m)
  <2> SUFFICES ASSUME NEW k \in 0 .. (n + 1) - 1 PROVE m < c[(s + k) % len]
    BY DEF Above
  <2>1. CASE k = n
    BY <2>1, <1>3, SMT
  <2>2. CASE k \in 0 .. n - 1
    BY <2>2, <1>4, <1>7 DEF Above
  <2> QED BY <2>1, <2>2, <1>5
<1> QED BY <1>4, <1>6, <1>7

(* The oldest message is above what all are above; the others are above it *)
(* and keep their places.                                                  *)
LEMMA TakeRing ==
  ASSUME NEW b \in [Index -> Value], NEW s \in Index, NEW e \in Index,
         NEW n \in 1 .. len, NEW r \in Nat, Holds(b, s, e, n, r),
         NEW t, t = IF n - 1 = 0 THEN s ELSE (s + 1) % len
  PROVE  /\ b[s] \in 1 .. r
         /\ Holds(b, t, e, n - 1, r)
         /\ Above(b, t, n - 1, b[s])
         /\ \A m : Above(b, s, n, m) => m < b[s] /\ Above(b, t, n - 1, m)
<1> USE LenAssumption
<1>1. 0 \in 0 .. n - 1 /\ (s + 0) % len = s
  BY FirstSlot, SMT
<1>2. b[s] \in 1 .. r
  BY <1>1 DEF Holds
<1>3. ASSUME NEW k \in 0 .. (n - 1) - 1
      PROVE  /\ k + 1 \in 0 .. n - 1 /\ 0 \in 0 .. (k + 1) - 1
             /\ (t + k) % len = (s + (k + 1)) % len
  <2>1. n - 1 # 0 /\ k \in 0 .. len - 1 /\ k + 1 \in 0 .. n - 1 /\ 0 \in 0 .. (k + 1) - 1
    BY SMT
  <2>2. t = (s + 1) % len
    BY <2>1
  <2> QED BY <2>1, <2>2, NextSlot
<1>4. Holds(b, t, e, n - 1, r)
  <2>1. e = IF n - 1 = 0 THEN t ELSE (t + ((n - 1) - 1)) % len
    <3>1. e = (s + (n - 1)) % len
      <4>1. n # 0
        BY SMT
      <4> QED BY <4>1 DEF Holds
    <3>2. CASE n - 1 = 0
      <4>1. e = (s + 0) % len /\ t = s
        BY <3>1, <3>2
      <4> QED BY <1>1, <3>2, <4>1
    <3>3. CASE n - 1 # 0
      <4>1. (n - 1) - 1 \in 0 .. (n - 1) - 1 /\ ((n - 1) - 1) + 1 = n - 1
        BY <3>3, SMT
      <4>2. (t + ((n - 1) - 1)) % len = (s + (n - 1)) % len
        BY <1>3, <4>1
      <4> QED BY <3>1, <3>3, <4>2
    <3> QED BY <3>2, <3>3
  <2>2. ASSUME NEW k \in 0 .. (n - 1) - 1
        PROVE  b[(t + k) % len] \in 1 .. r
    BY <1>3 DEF Holds
  <2>3. ASSUME NEW k \in 0 .. (n - 1) - 1, NEW j \in 0 .. k - 1
        PROVE  b[(t + j) % len] < b[(t + k) % len]
    <3>1. j \in 0 .. (n - 1) - 1 /\ j + 1 \in 0 .. (k + 1) - 1
      BY SMT
    <3>2. b[(s + (j + 1)) % len] < b[(s + (k + 1)) % len]
      BY <1>3, <3>1 DEF Holds
    <3> QED BY <1>3, <3>1, <3>2
  <2> QED BY <2>1, <2>2, <2>3 DEF Holds
<1>5. Above(b, t, n - 1, b[s])
  <2> SUFFICES ASSUME NEW k \in 0 .. (n - 1) - 1 PROVE b[s] < b[(t + k) % len]
    BY DEF Above
  <2>1. b[(s + 0) % len] < b[(s + (k + 1)) % len]
    BY <1>3 DEF Holds
  <2> QED BY <1>1, <1>3, <2>1
<1>6. ASSUME NEW m, Above(b, s, n, m)
      PROVE  m < b[s] /\ Above(b, t, n - 1, m)
  <2>1. m < b[s]
    BY <1>1, <1>6 DEF Above
  <2>2. ASSUME NEW k \in 0 .. (n - 1) - 1 PROVE m < b[(t + k) % len]
    BY <1>3, <1>6 DEF Above
  <2> QED BY <2>1, <2>2 DEF Above
<1> QED BY <1>2, <1>4, <1>5, <1>6

LEMMA HoldsMore ==
  ASSUME NEW b, NEW s, NEW e, NEW n, NEW r \in Nat, Holds(b, s, e, n, r)
  PROVE  Holds(b, s, e, n, r + 1)
<1>1. 1 .. r \subseteq 1 .. r + 1
  BY SMT
<1> QED BY <1>1 DEF Holds

(* The lines p are whole and in order, and before all that waits.          *)
Lines(p, b, s, n, r) ==
  \A i \in 1 .. Len(p) :
    /\ p[i].msg \in 1 .. r
    /\ p[i].topic = p[i].msg
    /\ i > 1 => p[i - 1].msg < p[i].msg
    /\ Above(b, s, n, p[i].msg)

LEMMA PrintOne ==
  ASSUME NEW p \in Seq(Line), NEW b, NEW s, NEW n, NEW r \in Nat, Lines(p, b, s, n, r),
         NEW c, NEW t, NEW k, NEW r2 \in Nat, r2 >= r, NEW m \in 1 .. r2,
         \A i \in 1 .. Len(p) : p[i].msg < m /\ Above(c, t, k, p[i].msg),
         Above(c, t, k, m)
  PROVE  Lines(Append(p, [topic |-> m, msg |-> m]), c, t, k, r2)
<1> DEFINE line == [topic |-> m, msg |-> m]
           q == Append(p, line)
<1>1. line \in Line /\ line.msg = m /\ line.topic = m
  BY SMT DEF Line, Value
<1>2. /\ Len(q) = Len(p) + 1 /\ Len(p) \in Nat
      /\ \A i \in 1 .. Len(p) : q[i] = p[i]
      /\ q[Len(p) + 1] = line
  BY <1>1, AppendProperties, LenProperties
<1> HIDE DEF q, line
<1>3. SUFFICES ASSUME NEW i \in 1 .. Len(q)
               PROVE  /\ q[i].msg \in 1 .. r2
                      /\ q[i].topic = q[i].msg
                      /\ i > 1 => q[i - 1].msg < q[i].msg
                      /\ Above(c, t, k, q[i].msg)
  BY DEF Lines, q, line
<1>4. CASE i \in 1 .. Len(p)
  <2>1. q[i] = p[i] /\ (i > 1 => i - 1 \in 1 .. Len(p))
    BY <1>2, <1>4, SMT
  <2>2. i > 1 => q[i - 1] = p[i - 1]
    BY <1>2, <2>1
  <2>3. /\ p[i].msg \in 1 .. r /\ p[i].topic = p[i].msg
        /\ i > 1 => p[i - 1].msg < p[i].msg
    BY <1>4 DEF Lines
  <2>4. p[i].msg \in 1 .. r2
    BY <2>3, SMT
  <2> QED BY <1>4, <2>1, <2>2, <2>3, <2>4
<1>5. CASE i = Len(p) + 1
  <2>1. i > 1 => i - 1 \in 1 .. Len(p)
    BY <1>2, <1>5, SMT
  <2>2. i > 1 => q[i - 1].msg < m
    BY <1>2, <2>1
  <2> QED BY <1>1, <1>2, <1>5, <2>2
<1>6. i \in 1 .. Len(p) \/ i = Len(p) + 1
  BY <1>2, <1>3, SMT
<1> QED BY <1>4, <1>5, <1>6

-----------------------------------------------------------------------------
(* The pull has counted its message off and not yet left its slot.         *)
Behind == pc \in {"loadStart", "storeStart"} \/ (pc = "last" /\ elements # 0)

(* The slot of the oldest message that is still counted.                   *)
First == IF Behind THEN (start + 1) % len ELSE start

Filled == Holds(buf, First, end, elements, received)
PrintedInOrder == Lines(printed, buf, First, elements, received)

(* What read_sr has in its registers and in str_pull is still true.        *)
Copied ==
  /\ pc \in {"loadStart", "storeStart"} => elements >= 1
  /\ pc = "storeStart" => reg = start
  /\ pc = "store" => reg = elements
  /\ pc \in {"topic", "msg"} => reg = start
  /\ pc \in {"msg", "load", "store"} => str_pull.topic = buf[start]
  /\ pc \in {"load", "store"} => str_pull.msg = buf[start]

(* A message on its way from mg_buf to the line is between those that were *)
(* printed and those that wait.                                            *)
OnItsWay ==
  /\ str_pull.msg \in 1 .. received
  /\ str_pull.topic = str_pull.msg
  /\ pc = "text" => reg = str_pull.msg
  /\ \A i \in 1 .. Len(printed) : printed[i].msg < str_pull.msg
  /\ Above(buf, First, elements, str_pull.msg)
Pulled == pc \in {"last", "loadStart", "storeStart", "print", "text"} => OnItsWay

Sound == Filled /\ PrintedInOrder /\ Copied /\ Pulled

OrderTypes ==
  /\ buf \in [Index -> Value] /\ received \in Nat
  /\ str_pull \in Line /\ printed \in Seq(Line)
  /\ reg \in Value
  /\ pc \in {"topic", "msg"} => reg \in Index

(* A message that came in one of the windows may be lost or printed twice, *)
(* and there is no order any more.                                         *)
OrderInv == IInv /\ OrderTypes /\ (exposed \/ Sound)

LEMMA InitOrder == Init => OrderInv
<1> SUFFICES ASSUME Init PROVE OrderInv
  OBVIOUS
<1>1. IInv
  BY InitIInv
<1>2. OrderTypes
  <2>1. buf \in [Index -> Value] /\ received \in Nat /\ str_pull \in Line /\ reg \in Value
    BY DEF Init, Line, Value
  <2>2. printed \in Seq(Line)
    BY EmptySeq DEF Init
  <2> QED BY <2>1, <2>2 DEF OrderTypes, Init
<1>3. elements = 0 /\ start = 0 /\ end = 0 /\ pc = "idle" /\ printed = << >>
  BY DEF Init
<1>4. First = 0 /\ 0 .. elements - 1 = {} /\ Len(printed) = 0 /\ 1 .. 0 = {}
  BY <1>3, SMT DEF First, Behind
<1>5. Filled /\ PrintedInOrder
  BY <1>3, <1>4 DEF Filled, PrintedInOrder, Holds, Lines
<1>6. Copied /\ Pulled
  BY <1>3 DEF Copied, Pulled
<1> QED BY <1>1, <1>2, <1>5, <1>6 DEF OrderInv, Sound

LEMMA ValueInLine ==
  ASSUME NEW a \in Value, NEW b \in Value
  PROVE  [topic |-> a, msg |-> b] \in Line
BY DEF Line

LEMMA LineFields ==
  ASSUME NEW l \in Line
  PROVE  /\ l.topic \in Value /\ l.msg \in Value /\ l = [topic |-> l.topic, msg |-> l.msg]
         /\ \A v \in Value : [l EXCEPT !.topic = v] \in Line /\ [l EXCEPT !.msg = v] \in Line
         /\ \A v : [l EXCEPT !.topic = v].topic = v /\ [l EXCEPT !.topic = v].msg = l.msg
         /\ \A v : [l EXCEPT !.msg = v].msg = v /\ [l EXCEPT !.msg = v].topic = l.topic
BY DEF Line

LEMMA HandlerTypes ==
  ASSUME OrderInv, onMsghandler(received + 1)
  PROVE  OrderTypes'
<1> DEFINE m == received + 1
<1>1. /\ buf \in [Index -> Value] /\ received \in Nat /\ str_pull \in Line
      /\ printed \in Seq(Line) /\ reg \in Value /\ (pc \in {"topic", "msg"} => reg \in Index)
      /\ start \in Index /\ end \in Index /\ elements \in 0 .. len
  BY DEF OrderInv, OrderTypes, IInv, InBounds
<1>2. pc' = pc /\ reg' = reg /\ received' = m /\ m \in Nat
  BY <1>1, SMT DEF onMsghandler
<1>3. AddedBuf(m) \in [Index -> Value]
  BY <1>1, <1>2 DEF AddedBuf, Value
<1>4. buf' \in [Index -> Value]
  BY <1>3 DEF onMsghandler, OnMsgStore, OnMsgPush
<1>5. CASE OnMsgStore(m)
  BY <1>1, <1>2, <1>4, <1>5 DEF OnMsgStore, OrderTypes
<1>6. CASE OnMsgPush(m)
  <2>1. str_pull' \in Line
    BY <1>1, <1>4, <1>6, ValueInLine DEF OnMsgPush
  <2>2. printed' \in Seq(Line)
    BY <1>1, <2>1, <1>6, AppendProperties DEF OnMsgPush
  <2> QED BY <1>1, <1>2, <1>4, <2>1, <2>2 DEF OrderTypes
<1> QED BY <1>5, <1>6 DEF onMsghandler

(* What the handler adds to a ring that starts at slot s, of which the     *)
(* count is as it should be.                                               *)
LEMMA HandlerAdds ==
  ASSUME OrderInv, Filled, NEW s, s = First, s \in Index, NEW c, c = AddedBuf(received + 1)
  PROVE  /\ c \in [Index -> Value]
         /\ Holds(c, s, AddedEnd, AddedElements, received + 1)
         /\ \A v \in 0 .. received : Above(buf, s, elements, v) => Above(c, s, AddedElements, v)
         /\ elements >= 1 => c[s] = buf[s]
<1> DEFINE m == received + 1
<1>1. /\ buf \in [Index -> Value] /\ received \in Nat
      /\ end \in Index /\ elements \in 0 .. len
      /\ Holds(buf, s, end, elements, received)
  BY DEF OrderInv, OrderTypes, IInv, InBounds, Filled
<1>2. CASE elements = len
  <2>1. c = buf /\ AddedEnd = end /\ AddedElements = elements
    BY <1>2 DEF AddedBuf, AddedEnd, AddedElements
  <2> QED BY <1>1, <2>1, HoldsMore
<1>3. CASE elements # len
  <2>1. elements \in 0 .. len - 1
    BY <1>1, <1>3, LenAssumption, SMT
  <2>2. /\ c = [buf EXCEPT ![AddedIndex] = m] /\ AddedEnd = AddedIndex
        /\ AddedElements = elements + 1
    BY <1>3 DEF AddedBuf, AddedEnd, AddedElements
  <2>3. AddedIndex = (end + (IF elements = 0 THEN 0 ELSE 1)) % len
    BY DEF AddedIndex
  <2>4. /\ Holds(c, s, AddedIndex, elements + 1, m)
        /\ \A v \in 0 .. received : Above(buf, s, elements, v) => Above(c, s, elements + 1, v)
        /\ \A k \in 0 .. elements - 1 : c[(s + k) % len] = buf[(s + k) % len]
    BY <1>1, <2>1, <2>2, <2>3, AddRing
  <2>5. c \in [Index -> Value]
    <3>1. m \in Value
      BY <1>1, SMT DEF Value
    <3> QED BY <1>1, <2>2, <3>1
  <2>6. elements >= 1 => c[s] = buf[s]
    <3>1. elements >= 1 => 0 \in 0 .. elements - 1
      BY <2>1, LenAssumption, SMT
    <3> QED BY <2>2, <2>4, <3>1, FirstSlot
  <2> QED BY <2>2, <2>4, <2>5, <2>6
<1> QED BY <1>2, <1>3

LEMMA FirstInRing ==
  ASSUME IInv
  PROVE  First \in Index
<1>1. start \in Index /\ (start + 1) % len \in Index
  <2>1. start \in Index
    BY DEF IInv, InBounds
  <2>2. start + 1 \in Nat
    BY <2>1, LenAssumption, SMT DEF Index
  <2> QED BY <2>1, <2>2, ModIndex
<1> QED BY <1>1 DEF First

(* In pull mode the handler adds a message; wherever read_sr is outside    *)
(* the window, what it holds stays true.                                   *)
LEMMA StoreSound ==
  ASSUME OrderInv, Sound, onMsghandler(received + 1), OnMsgStore(received + 1),
         pc \notin {"store", "last"}
  PROVE  Sound'
<1> DEFINE m == received + 1
<1>1. /\ received \in Nat /\ elements \in 0 .. len /\ start \in Index
      /\ printed \in Seq(Line) /\ str_pull \in Line
  BY DEF OrderInv, OrderTypes, IInv, InBounds
<1>2. /\ buf' = AddedBuf(m) /\ end' = AddedEnd /\ elements' = AddedElements
      /\ start' = start /\ str_pull' = str_pull /\ printed' = printed
      /\ received' = m /\ pc' = pc /\ reg' = reg
  BY DEF OnMsgStore, onMsghandler
<1>3. First' = First /\ First \in Index
  <2>1. Behind' <=> Behind
    BY <1>2 DEF Behind
  <2> QED BY <1>2, <2>1, FirstInRing DEF First, OrderInv
<1>4. Filled
  BY DEF Sound
<1>5. /\ Holds(buf', First, end', elements', m)
      /\ \A v \in 0 .. received : Above(buf, First, elements, v) =>
           Above(buf', First, elements', v)
      /\ elements >= 1 => buf'[First] = buf[First]
  BY <1>2, <1>3, <1>4, HandlerAdds
<1>6. Filled'
  BY <1>2, <1>3, <1>5 DEF Filled
<1>7. 1 .. received \subseteq 0 .. received /\ 1 .. received \subseteq 1 .. m
  BY <1>1, SMT
<1>8. PrintedInOrder'
  BY <1>2, <1>3, <1>5, <1>7 DEF Sound, PrintedInOrder, Lines
<1>9. Copied'
  <2>1. elements' >= elements
    BY <1>1, <1>2, LenAssumption, SMT DEF AddedElements
  <2>2. pc \in {"loadStart", "storeStart"} => elements' >= 1
    BY <1>1, <1>2, <2>1, LenAssumption, SMT DEF Sound, Copied, AddedElements
  <2>3. pc \in {"msg", "load"} => buf'[start] = buf[start]
    BY <1>3, <1>5 DEF First, Behind, OrderInv, IInv, Midway
  <2> QED BY <1>2, <2>2, <2>3 DEF Sound, Copied
<1>10. Pulled'
  BY <1>2, <1>3, <1>5, <1>7 DEF Sound, Pulled, OnItsWay
<1> QED BY <1>6, <1>8, <1>9, <1>10 DEF Sound

(* In push mode it adds a message, takes the oldest and prints it.         *)
LEMMA PushSound ==
  ASSUME OrderInv, Sound, onMsghandler(received + 1), OnMsgPush(received + 1), pc = "idle"
  PROVE  Sound'
<1> DEFINE m == received + 1
<1>1. /\ received \in Nat /\ elements \in 0 .. len /\ start \in Index /\ end \in Index
      /\ printed \in Seq(Line) /\ m \in Nat
  <2>1. received \in Nat
    BY DEF OrderInv, OrderTypes
  <2>2. m \in Nat
    BY <2>1, SMT
  <2> QED BY <2>1, <2>2 DEF OrderInv, OrderTypes, IInv, InBounds
<1>2. /\ buf' = AddedBuf(m) /\ end' = AddedEnd /\ elements' = AddedElements - 1
      /\ start' = IF elements' = 0 THEN start ELSE (start + 1) % len
      /\ str_pull' = [topic |-> buf'[start], msg |-> buf'[start]]
      /\ printed' = Append(printed, str_pull')
      /\ received' = m /\ pc' = pc
  BY DEF OnMsgPush, onMsghandler
<1>3. First = start /\ First' = start'
  BY <1>2 DEF First, Behind
<1>4. Filled
  BY DEF Sound
<1>5. /\ buf' \in [Index -> Value]
      /\ Holds(buf', start, end', AddedElements, m)
      /\ \A v \in 0 .. received : Above(buf, start, elements, v) =>
           Above(buf', start, AddedElements, v)
  BY <1>1, <1>2, <1>3, <1>4, HandlerAdds
<1>6. AddedElements \in 1 .. len
  BY <1>1, LenAssumption, SMT DEF AddedElements
<1>7. end' \in Index
  <2>1. IInv'
    BY HandlerIInv DEF OrderInv
  <2> QED BY <2>1 DEF IInv, InBounds
<1> DEFINE b == buf'
           e == end'
           n == AddedElements
           t == start'
<1>8. /\ b[start] \in 1 .. m
      /\ Holds(b, t, e, n - 1, m)
      /\ Above(b, t, n - 1, b[start])
      /\ \A v : Above(b, start, n, v) => v < b[start] /\ Above(b, t, n - 1, v)
  <2>1. t = IF n - 1 = 0 THEN start ELSE (start + 1) % len
    BY <1>2
  <2>2. b \in [Index -> Value] /\ e \in Index /\ n \in 1 .. len /\ Holds(b, start, e, n, m)
    BY <1>5, <1>6, <1>7
  <2> HIDE DEF b, e, n, t, m
  <2> QED BY <1>1, <2>1, <2>2, TakeRing
<1>9. Filled'
  BY <1>2, <1>3, <1>8 DEF Filled
<1>10. PrintedInOrder'
  <2>1. Lines(printed, buf, start, elements, received)
    BY <1>3 DEF Sound, PrintedInOrder
  <2>2. 1 .. received \subseteq 0 .. received /\ m >= received
    BY <1>1, SMT
  <2>3. \A i \in 1 .. Len(printed) : /\ printed[i].msg < b[start]
                                     /\ Above(b, t, n - 1, printed[i].msg)
    BY <1>5, <1>8, <2>1, <2>2 DEF Lines
  <2>4. Lines(Append(printed, [topic |-> b[start], msg |-> b[start]]), b, t, n - 1, m)
    <3> HIDE DEF b, e, n, t, m
    <3> QED BY <1>1, <1>8, <2>1, <2>2, <2>3, PrintOne
  <2> QED BY <1>2, <1>3, <2>4 DEF PrintedInOrder
<1>11. Copied' /\ Pulled'
  BY <1>2 DEF Copied, Pulled
<1> QED BY <1>9, <1>10, <1>11 DEF Sound

LEMMA HandlerOrder ==
  ASSUME OrderInv, onMsghandler(received + 1)
  PROVE  OrderInv'
<1>1. IInv'
  BY HandlerIInv DEF OrderInv
<1>2. OrderTypes'
  BY HandlerTypes
<1>3. ASSUME ~exposed' PROVE Sound'
  <2>1. ~exposed /\ ~Window
    BY <1>3 DEF onMsghandler
  <2>2. Sound
    BY <2>1 DEF OrderInv
  <2>3. CASE OnMsgStore(received + 1)
    BY <2>1, <2>2, <2>3, StoreSound DEF Window
  <2>4. CASE OnMsgPush(received + 1)
    BY <2>1, <2>2, <2>4, PushSound DEF Window, OnMsgPush
  <2> QED BY <2>3, <2>4 DEF onMsghandler
<1> QED BY <1>1, <1>2, <1>3 DEF OrderInv

-----------------------------------------------------------------------------
LEMMA ReaderTypes ==
  ASSUME OrderInv, read_sr
  PROVE  OrderTypes'
<1> USE DEF ring
<1>1. /\ buf \in [Index -> Value] /\ received \in Nat /\ str_pull \in Line
      /\ printed \in Seq(Line) /\ reg \in Value /\ (pc \in {"topic", "msg"} => reg \in Index)
      /\ start \in Index /\ elements \in 0 .. len
  BY DEF OrderInv, OrderTypes, IInv, InBounds
<1>2. buf' = buf /\ received' = received
  BY DEF read_sr, AT_MGPM, AT_CP, PullIsEmpty, PullCopyTopic, PullCopyMsg, PullLoad,
         PullStore, PullLast, PullLoadStart, PullStoreStart, PrintTopic, PrintText
<1>3. start \in Value /\ elements \in Value /\ 0 \in Value
  BY <1>1, LenAssumption, SMT DEF Value, Index
<1>4. CASE AT_MGPM \/ AT_CP \/ PullStore \/ PullLast \/ PullStoreStart
  <2>1. UNCHANGED <<str_pull, printed, reg>> /\ pc' \notin {"topic", "msg"}
    BY <1>4 DEF AT_MGPM, AT_CP, PullStore, PullLast, PullStoreStart
  <2> QED BY <1>1, <1>2, <2>1 DEF OrderTypes
<1>5. CASE PullIsEmpty
  BY <1>1, <1>2, <1>3, <1>5 DEF PullIsEmpty, OrderTypes
<1>6. CASE PullCopyTopic \/ PullCopyMsg
  <2>1. reg \in Index /\ UNCHANGED <<printed, reg>>
    BY <1>1, <1>6 DEF PullCopyTopic, PullCopyMsg
  <2>2. buf[reg] \in Value
    BY <1>1, <2>1
  <2>3. \/ str_pull' = [str_pull EXCEPT !.topic = buf[reg]]
        \/ str_pull' = [str_pull EXCEPT !.msg = buf[reg]]
    BY <1>6 DEF PullCopyTopic, PullCopyMsg
  <2>4. str_pull' \in Line
    BY <1>1, <2>2, <2>3 DEF Line
  <2> QED BY <1>1, <1>2, <2>1, <2>4 DEF OrderTypes
<1>7. CASE PullLoad \/ PullLoadStart
  <2>1. UNCHANGED <<str_pull, printed>> /\ reg' \in Value /\ pc' \notin {"topic", "msg"}
    BY <1>1, <1>3, <1>7 DEF PullLoad, PullLoadStart
  <2> QED BY <1>1, <1>2, <2>1 DEF OrderTypes
<1>8. CASE PrintTopic
  <2>1. UNCHANGED <<str_pull, printed>> /\ reg' \in Value /\ pc' = "text"
    BY <1>1, <1>8, LineFields DEF PrintTopic
  <2> QED BY <1>1, <1>2, <2>1 DEF OrderTypes
<1>9. CASE PrintText
  <2>1. [topic |-> reg, msg |-> str_pull.msg] \in Line
    BY <1>1, LineFields, ValueInLine
  <2>2. /\ printed' = Append(printed, [topic |-> reg, msg |-> str_pull.msg])
        /\ UNCHANGED str_pull /\ reg' = 0 /\ pc' = "idle"
    BY <1>9 DEF PrintText
  <2>3. printed' \in Seq(Line)
    BY <1>1, <2>1, <2>2, AppendProperties
  <2> QED BY <1>1, <1>2, <1>3, <2>2, <2>3 DEF OrderTypes
<1> QED BY <1>4, <1>5, <1>6, <1>7, <1>8, <1>9 DEF read_sr

(* A step that leaves mg_buf and what it held alone.                       *)
LEMMA SameRing ==
  ASSUME Sound, buf' = buf, end' = end, elements' = elements, received' = received,
         printed' = printed, First' = First
  PROVE  Filled' /\ PrintedInOrder'
BY DEF Sound, Filled, PrintedInOrder

(* And str_pull, when it was already full.                                 *)
LEMMA SamePulled ==
  ASSUME OnItsWay, buf' = buf, elements' = elements, received' = received,
         printed' = printed, First' = First, str_pull' = str_pull,
         pc' = "text" => reg' = str_pull.msg
  PROVE  OnItsWay'
BY DEF OnItsWay

(* The pull up to the store of the new count.                              *)
LEMMA CopySound ==
  ASSUME OrderInv, Sound,
         AT_MGPM \/ AT_CP \/ PullIsEmpty \/ PullCopyTopic \/ PullCopyMsg \/ PullLoad
  PROVE  Sound'
<1> USE DEF ring
<1>1. /\ UNCHANGED <<buf, start, end, elements, received, printed>>
      /\ pc \in {"idle", "isEmpty", "topic", "msg", "load"}
      /\ pc' \in {"idle", "isEmpty", "topic", "msg", "load", "store", "print"}
  BY DEF AT_MGPM, AT_CP, PullIsEmpty, PullCopyTopic, PullCopyMsg, PullLoad
<1>2. First' = First
  BY <1>1 DEF First, Behind
<1>3. Filled' /\ PrintedInOrder'
  BY <1>1, <1>2, SameRing
<1>4. Copied' /\ pc' # "print"
  <2>1. CASE AT_MGPM \/ AT_CP
    BY <1>1, <2>1 DEF AT_MGPM, AT_CP, Copied
  <2>2. CASE PullIsEmpty
    <3>1. elements >= 1 /\ elements \in 0 .. len
      BY <2>2 DEF PullIsEmpty, OrderInv, IInv, InBounds, Midway
    <3>2. elements # 0
      BY <3>1, LenAssumption, SMT
    <3> QED BY <1>1, <2>2, <3>2 DEF PullIsEmpty, Copied
  <2>3. CASE PullCopyTopic
    <3>1. str_pull'.topic = buf[reg] /\ reg = start /\ pc' = "msg" /\ reg' = reg
      BY <2>3, LineFields DEF PullCopyTopic, OrderInv, OrderTypes, Sound, Copied
    <3> QED BY <1>1, <3>1 DEF Copied
  <2>4. CASE PullCopyMsg
    <3>1. /\ str_pull'.msg = buf[reg] /\ reg = start /\ pc' = "load"
          /\ str_pull'.topic = str_pull.topic /\ str_pull.topic = buf[start]
      BY <2>4, LineFields DEF PullCopyMsg, OrderInv, OrderTypes, Sound, Copied
    <3> QED BY <1>1, <3>1 DEF Copied
  <2>5. CASE PullLoad
    BY <1>1, <2>5 DEF PullLoad, Sound, Copied
  <2> QED BY <2>1, <2>2, <2>3, <2>4, <2>5
<1>5. Pulled'
  BY <1>1, <1>4 DEF Pulled
<1> QED BY <1>3, <1>4, <1>5 DEF Sound

(* The store of the new count takes the message out.                       *)
LEMMA StoreCountSound ==
  ASSUME OrderInv, Sound, PullStore
  PROVE  Sound'
<1>1. /\ buf \in [Index -> Value] /\ received \in Nat
      /\ start \in Index /\ end \in Index /\ elements \in 0 .. len
      /\ reg = elements /\ reg \in 1 .. len
      /\ str_pull.topic = buf[start] /\ str_pull.msg = buf[start]
  BY DEF OrderInv, OrderTypes, IInv, InBounds, Midway, Sound, Copied, PullStore
<1>2. /\ elements' = elements - 1 /\ pc = "store" /\ pc' = "last"
      /\ UNCHANGED <<buf, start, end, str_pull, received, printed>>
  BY <1>1 DEF PullStore
<1>3. First = start /\ First' = IF elements - 1 = 0 THEN start ELSE (start + 1) % len
  BY <1>2 DEF First, Behind
<1>4. Holds(buf, start, end, elements, received)
  BY <1>3 DEF Sound, Filled
<1>5. /\ buf[start] \in 1 .. received
      /\ Holds(buf, First', end, elements - 1, received)
      /\ Above(buf, First', elements - 1, buf[start])
      /\ \A v : Above(buf, start, elements, v) =>
           v < buf[start] /\ Above(buf, First', elements - 1, v)
  <2>1. elements \in 1 .. len
    BY <1>1
  <2> DEFINE t == First'
  <2>2. t = IF elements - 1 = 0 THEN start ELSE (start + 1) % len
    BY <1>3
  <2> HIDE DEF t
  <2>3. /\ buf[start] \in 1 .. received
        /\ Holds(buf, t, end, elements - 1, received)
        /\ Above(buf, t, elements - 1, buf[start])
        /\ \A v : Above(buf, start, elements, v) =>
             v < buf[start] /\ Above(buf, t, elements - 1, v)
    BY <1>1, <1>4, <2>1, <2>2, TakeRing
  <2> QED BY <2>3 DEF t
<1>6. Filled'
  BY <1>2, <1>5 DEF Filled
<1>7. Lines(printed, buf, start, elements, received)
  BY <1>3 DEF Sound, PrintedInOrder
<1>8. PrintedInOrder'
  BY <1>2, <1>5, <1>7 DEF PrintedInOrder, Lines
<1>9. Pulled'
  BY <1>1, <1>2, <1>5, <1>7 DEF Pulled, OnItsWay, Lines
<1>10. Copied'
  BY <1>2 DEF Copied
<1> QED BY <1>6, <1>8, <1>9, <1>10 DEF Sound

(* Then the start follows, and the message is printed.                     *)
LEMMA StartSound ==
  ASSUME OrderInv, Sound, PullLast \/ PullLoadStart \/ PullStoreStart \/ PrintTopic
  PROVE  Sound'
<1> USE DEF ring
<1>0. elements \in 0 .. len
  BY DEF OrderInv, IInv, InBounds
<1>1. /\ UNCHANGED <<buf, end, elements, received, printed, str_pull>>
      /\ pc \in {"last", "loadStart", "storeStart", "print"}
      /\ pc' \in {"loadStart", "storeStart", "print", "text"}
  BY DEF PullLast, PullLoadStart, PullStoreStart, PrintTopic
<1>2. First' = First /\ Copied' /\ (pc' = "text" => reg' = str_pull.topic)
  <2>1. CASE PullLast
    <3>1. start' = start /\ pc = "last" /\ pc' = IF elements = 0 THEN "print" ELSE "loadStart"
      BY <2>1 DEF PullLast
    <3>2. elements # 0 => elements >= 1
      BY <1>0, LenAssumption, SMT
    <3> QED BY <1>1, <3>1, <3>2 DEF First, Behind, Copied
  <2>2. CASE PullLoadStart
    BY <1>1, <2>2 DEF PullLoadStart, First, Behind, Copied, Sound
  <2>3. CASE PullStoreStart
    BY <1>1, <2>3 DEF PullStoreStart, First, Behind, Copied, Sound
  <2>4. CASE PrintTopic
    BY <1>1, <2>4 DEF PrintTopic, First, Behind, Copied, Sound
  <2> QED BY <2>1, <2>2, <2>3, <2>4
<1>3. Filled' /\ PrintedInOrder'
  BY <1>1, <1>2, SameRing
<1>4. OnItsWay
  BY <1>1 DEF Sound, Pulled
<1>5. pc' = "text" => reg' = str_pull.msg
  BY <1>2, <1>4 DEF OnItsWay
<1>6. Pulled'
  BY <1>1, <1>2, <1>4, <1>5, SamePulled DEF Pulled
<1> QED BY <1>2, <1>3, <1>6 DEF Sound

LEMMA PrintSound ==
  ASSUME OrderInv, Sound, PrintText
  PROVE  Sound'
<1> USE DEF ring
<1>1. /\ UNCHANGED <<buf, start, end, elements, received, str_pull>>
      /\ pc = "text" /\ pc' = "idle"
      /\ printed' = Append(printed, [topic |-> reg, msg |-> str_pull.msg])
  BY DEF PrintText
<1>2. First' = First
  BY <1>1 DEF First, Behind
<1>3. OnItsWay /\ reg = str_pull.msg
  BY <1>1 DEF Sound, Pulled, OnItsWay
<1>4. printed \in Seq(Line) /\ received \in Nat /\ received >= received
  BY SMT DEF OrderInv, OrderTypes
<1>5. Lines(printed, buf, First, elements, received)
  BY DEF Sound, PrintedInOrder
<1> DEFINE m == str_pull.msg
<1>6. /\ m \in 1 .. received
      /\ \A i \in 1 .. Len(printed) : printed[i].msg < m /\ Above(buf, First, elements, printed[i].msg)
      /\ Above(buf, First, elements, m)
  BY <1>3, <1>5 DEF OnItsWay, Lines
<1>7. Lines(Append(printed, [topic |-> m, msg |-> m]), buf, First, elements, received)
  <2> HIDE DEF m
  <2> QED BY <1>4, <1>5, <1>6, PrintOne
<1>8. PrintedInOrder'
  BY <1>1, <1>2, <1>3, <1>7 DEF PrintedInOrder
<1>9. Filled'
  BY <1>1, <1>2 DEF Sound, Filled
<1>10. Copied' /\ Pulled'
  BY <1>1 DEF Copied, Pulled
<1> QED BY <1>8, <1>9, <1>10 DEF Sound

LEMMA NextOrder == OrderInv /\ [Next]_vars => OrderInv'
<1> SUFFICES ASSUME OrderInv, [Next]_vars PROVE OrderInv'
  OBVIOUS
<1>1. CASE MessageArrives
  BY <1>1, HandlerOrder DEF MessageArrives
<1>2. CASE read_sr
  <2>1. IInv' /\ OrderTypes' /\ exposed' = exposed
    BY <1>2, ReaderIInv, ReaderTypes DEF OrderInv, read_sr
  <2>2. Sound => Sound'
    BY <1>2, CopySound, StoreCountSound, StartSound, PrintSound DEF read_sr
  <2> QED BY <2>1, <2>2 DEF OrderInv
<1>3. CASE UNCHANGED vars
  <2>1. IInv' /\ OrderTypes' /\ exposed' = exposed
    BY <1>3 DEF vars, ring, OrderInv, IInv, InBounds, Midway, OrderTypes
  <2>2. First' = First
    BY <1>3 DEF vars, ring, First, Behind
  <2>3. Sound => Sound'
    BY <1>3, <2>2 DEF vars, ring, Sound, Filled, PrintedInOrder, Copied, Pulled, OnItsWay
  <2> QED BY <2>1, <2>3 DEF OrderInv
<1> QED BY <1>1, <1>2, <1>3 DEF Next

LEMMA OrderImplies == OrderInv => OrderedUnlessExposed
BY DEF OrderInv, Sound, PrintedInOrder, Lines, OrderedUnlessExposed

(* Unless a message came in one of the windows that exposed names, what is *)
(* printed of mg_buf is whole and in the order of the broker, each message *)
(* once: for every length of two slots or more and any number of messages, *)
(* wherever else the handler preempts the pull.                            *)
THEOREM SharedInOrder == Spec => []OrderedUnlessExposed
BY InitOrder, NextOrder, OrderImplies, PTL DEF Spec

-----------------------------------------------------------------------------
(* Delivery.                                                               *)

(* The message in the loop over the table has a name, and it was counted   *)
(* when it was read if it is for the host.                                 *)
UnderWay ==
  /\ slot # 0 => name \in Name
  /\ slot # 0 /\ ForHost(name) => read >= 1

(* The one message that is read and not yet handed over is the one that is *)
(* being delivered.                                                        *)
HandedOver ==
  received = IF slot # 0 /\ ForHost(name) THEN read - 1 ELSE read

DeliveryInv == DeliveryTypeOK /\ HandedOver /\ UnderWay

LEMMA DeliveryInitInv == DeliveryInit => DeliveryInv
<1> SUFFICES ASSUME DeliveryInit PROVE DeliveryInv
  OBVIOUS
<1>1. /\ session = FALSE /\ handlers = 0 /\ msgTopic \in Filter /\ waiting = "nothing"
      /\ slot = 0 /\ name = Nobody /\ read = 0 /\ received = 0
  BY DEF DeliveryInit, Init
<1>2. /\ 0 \in 0 .. MAX_MESSAGE_HANDLERS
      /\ 0 \in 0 .. MAX_MESSAGE_HANDLERS + 1
      /\ 0 \in 0 .. MaxMessage
  BY HandlersAssumption, MessageAssumption, SMT
<1>3. DeliveryTypeOK
  BY <1>1, <1>2 DEF DeliveryTypeOK, Waited
<1> QED BY <1>1, <1>3 DEF DeliveryInv, HandedOver, UnderWay

LEMMA ReaderKeepsReceived ==
  ASSUME read_sr
  PROVE  received' = received
BY DEF read_sr, AT_MGPM, AT_CP, PullIsEmpty, PullCopyTopic, PullCopyMsg, PullLoad,
       PullStore, PullLast, PullLoadStart, PullStoreStart, PrintTopic, PrintText

(* The call of the application's handler is the arrival of the next        *)
(* message, and a message that is not for the host does not touch mg_buf.  *)
LEMMA HandlerCalled ==
  ASSUME DeliveryInv, slot # 0, defaultMsgHandler
  PROVE  /\ received' = read
         /\ MessageArrives \/ UNCHANGED vars
<1>1. CASE ForHost(name)
  <2>1. read \in 1 .. MaxMessage /\ received = read - 1
    BY <1>1, MessageAssumption, SMT DEF DeliveryInv, DeliveryTypeOK, HandedOver, UnderWay
  <2>2. read = received + 1 /\ received < MaxMessage
    BY <2>1, MessageAssumption, SMT
  <2>3. onMsghandler(read)
    BY <1>1 DEF defaultMsgHandler
  <2>4. MessageArrives
    BY <2>2, <2>3 DEF MessageArrives
  <2>5. received' = received + 1
    BY <2>3 DEF onMsghandler
  <2> QED BY <2>2, <2>4, <2>5
<1>2. CASE ~ForHost(name)
  <2>1. UNCHANGED vars /\ received = read
    BY <1>2 DEF defaultMsgHandler, DeliveryInv, HandedOver
  <2>2. received' = received
    BY <2>1 DEF vars
  <2> QED BY <2>1, <2>2
<1> QED BY <1>1, <1>2

(* Each action keeps the invariant and is a step of RingBufShared.         *)
LEMMA DeliveryStep ==
  ASSUME DeliveryInv, [DeliveryNext]_deliveryVars
  PROVE  DeliveryInv' /\ [Next]_vars
<1> USE HandlersAssumption, MessageAssumption
<1>0. /\ session \in BOOLEAN /\ handlers \in 0 .. MAX_MESSAGE_HANDLERS
      /\ msgTopic \in Filter /\ waiting \in Waited
      /\ slot \in 0 .. MAX_MESSAGE_HANDLERS + 1 /\ name \in Name \cup {Nobody}
      /\ read \in 0 .. MaxMessage
      /\ slot # 0 => name \in Name
      /\ slot # 0 /\ ForHost(name) => read >= 1
      /\ received = IF slot # 0 /\ ForHost(name) THEN read - 1 ELSE read
  BY DEF DeliveryInv, DeliveryTypeOK, HandedOver, UnderWay
<1>1. ASSUME UNCHANGED vars, UNCHANGED delivering, session' \in BOOLEAN,
             handlers' \in 0 .. MAX_MESSAGE_HANDLERS, msgTopic' \in Filter,
             waiting' \in Waited
      PROVE  DeliveryInv' /\ [Next]_vars
  <2>1. UNCHANGED <<received, slot, name, read>>
    BY <1>1 DEF vars, delivering
  <2>2. DeliveryTypeOK'
    BY <1>0, <1>1, <2>1 DEF DeliveryTypeOK
  <2>3. HandedOver' /\ UnderWay'
    BY <1>0, <2>1 DEF HandedOver, UnderWay
  <2> QED BY <1>1, <2>2, <2>3 DEF DeliveryInv
<1>2. CASE SessionBegins
  BY <1>0, <1>1, <1>2, SMT DEF SessionBegins, Waited
<1>3. CASE SessionEnds
  BY <1>0, <1>1, <1>3 DEF SessionEnds
<1>4. CASE TakeRequest
  BY <1>0, <1>1, <1>4 DEF TakeRequest, Waited
<1>5. CASE TakeDisconnect
  BY <1>0, <1>1, <1>5 DEF TakeDisconnect, Waited
<1>6. CASE Suback
  <2>1. handlers' \in 0 .. MAX_MESSAGE_HANDLERS
    BY <1>0, <1>6, SMT DEF Suback
  <2> QED BY <1>0, <1>1, <1>6, <2>1 DEF Suback, Waited
<1>7. CASE NoEntry
  BY <1>0, <1>1, <1>7 DEF NoEntry, Waited
<1>8. ASSUME NEW n \in Name, ReadPublish(n)
      PROVE  DeliveryInv' /\ [Next]_vars
  <2>1. /\ UNCHANGED vars /\ received' = received
        /\ UNCHANGED <<session, handlers, msgTopic, waiting>>
        /\ slot = 0 /\ slot' = 1 /\ name' = n
    BY <1>8 DEF ReadPublish, vars, client
  <2>2. IF ForHost(n) THEN read < MaxMessage /\ read' = read + 1 ELSE read' = read
    BY <1>8 DEF ReadPublish
  <2>3. received = read
    BY <1>0, <2>1
  <2>4. read' \in 0 .. MaxMessage
    BY <1>0, <2>2, SMT
  <2>5. 1 \in 0 .. MAX_MESSAGE_HANDLERS + 1
    BY SMT
  <2>6. DeliveryTypeOK'
    BY <1>0, <2>1, <2>4, <2>5 DEF DeliveryTypeOK
  <2>7. ForHost(name)' <=> ForHost(n)
    BY <2>1 DEF ForHost
  <2>8. HandedOver'
    <3>1. CASE ForHost(n)
      BY <1>0, <2>1, <2>2, <2>3, <2>7, <3>1, SMT DEF HandedOver
    <3>2. CASE ~ForHost(n)
      BY <2>1, <2>2, <2>3, <2>7, <3>2 DEF HandedOver
    <3> QED BY <3>1, <3>2
  <2>9. UnderWay'
    <3>1. ForHost(n) => read' >= 1
      BY <1>0, <2>2, SMT
    <3> QED BY <2>1, <2>7, <3>1 DEF UnderWay
  <2> QED BY <2>1, <2>6, <2>8, <2>9 DEF DeliveryInv
<1>9. ASSUME slot # 0, defaultMsgHandler, Done, UNCHANGED <<client, read>>
      PROVE  DeliveryInv' /\ [Next]_vars
  <2>1. received' = read /\ (MessageArrives \/ UNCHANGED vars)
    BY <1>9, HandlerCalled
  <2>2. slot' = 0 /\ name' = Nobody /\ read' = read
        /\ UNCHANGED <<session, handlers, msgTopic, waiting>>
    BY <1>9 DEF Done, client
  <2>3. 0 \in 0 .. MAX_MESSAGE_HANDLERS + 1
    BY SMT
  <2>4. DeliveryTypeOK'
    BY <1>0, <2>2, <2>3 DEF DeliveryTypeOK
  <2>5. HandedOver' /\ UnderWay'
    BY <2>1, <2>2 DEF HandedOver, UnderWay
  <2> QED BY <2>1, <2>4, <2>5 DEF DeliveryInv, Next
<1>10. CASE CallHandler
  <2>1. slot # 0
    BY <1>0, <1>10, SMT DEF CallHandler, InTable
  <2> QED BY <1>9, <1>10, <2>1 DEF CallHandler
<1>11. CASE NextHandler
  <2>1. /\ UNCHANGED vars /\ received' = received
        /\ UNCHANGED <<session, handlers, msgTopic, waiting, name, read>>
    BY <1>11 DEF NextHandler, vars, client
  <2>2. slot # 0 /\ slot' # 0 /\ slot' \in 0 .. MAX_MESSAGE_HANDLERS + 1
    BY <1>0, <1>11, SMT DEF NextHandler, InTable
  <2>3. ForHost(name)' <=> ForHost(name)
    BY <2>1 DEF ForHost
  <2>4. DeliveryTypeOK'
    BY <1>0, <2>1, <2>2 DEF DeliveryTypeOK
  <2>5. HandedOver' /\ UnderWay'
    BY <1>0, <2>1, <2>2, <2>3 DEF HandedOver, UnderWay
  <2> QED BY <2>1, <2>4, <2>5 DEF DeliveryInv
<1>12. CASE CallDefault
  <2>1. slot # 0
    BY <1>0, <1>12, SMT DEF CallDefault
  <2> QED BY <1>9, <1>12, <2>1 DEF CallDefault
<1>13. CASE HostTurn
  <2>1. /\ read_sr /\ received' = received
        /\ UNCHANGED <<session, handlers, msgTopic, waiting, slot, name, read>>
    BY <1>13, ReaderKeepsReceived DEF HostTurn, client, delivering
  <2>2. slot = 0 /\ slot' = 0
    BY <1>13, <2>1 DEF HostTurn
  <2>3. DeliveryTypeOK'
    BY <1>0, <2>1 DEF DeliveryTypeOK
  <2>4. HandedOver' /\ UnderWay'
    BY <1>0, <2>1, <2>2 DEF HandedOver, UnderWay
  <2> QED BY <2>1, <2>3, <2>4 DEF DeliveryInv, Next
<1>14. CASE UNCHANGED deliveryVars
  BY <1>0, <1>1, <1>14 DEF deliveryVars, client
<1> QED BY <1>2, <1>3, <1>4, <1>5, <1>6, <1>7, <1>8, <1>10, <1>11, <1>12, <1>13, <1>14
        DEF DeliveryNext, deliverMessage

LEMMA DeliverySafe == DeliverySpec => []DeliveryInv /\ Spec
<1>1. DeliveryInit => Init
  BY DEF DeliveryInit
<1>2. DeliveryInv /\ [DeliveryNext]_deliveryVars => DeliveryInv' /\ [Next]_vars
  BY DeliveryStep
<1> QED BY DeliveryInitInv, <1>1, <1>2, PTL DEF DeliverySpec, Spec

(* The entries of the table stay within it, and the loop over it ends one  *)
(* entry behind its last.                                                  *)
THEOREM DeliveryTypeCorrect == DeliverySpec => []DeliveryTypeOK
<1>1. DeliveryInv => DeliveryTypeOK
  BY DEF DeliveryInv
<1> QED BY DeliverySafe, <1>1, PTL

(* Every message that is read for the host is handed to mg_buf once, in    *)
(* order and before mqtt_task waits again, whatever the table holds: the   *)
(* client and mqtt_task are a producer such as RingBufShared assumes.      *)
THEOREM DeliveryImplementsShared == DeliverySpec => ImplementsShared
<1>1. DeliveryInv' => [HandsOver]_deliveryVars
  BY DEF DeliveryInv, HandedOver, HandsOver
<1> QED BY DeliverySafe, <1>1, PTL DEF ImplementsShared

(* So the indices of mg_buf stay in bounds (ringbuf.h:31) behind the whole *)
(* client, not only behind an assumed producer.                            *)
THEOREM DeliveryInBounds == DeliverySpec => []InBounds
BY DeliverySafe, SharedInBounds, PTL

(* And what the host reads is in the order of the broker behind the whole  *)
(* client, unless a message came in one of the windows.                    *)
THEOREM DeliveryInOrder == DeliverySpec => []OrderedUnlessExposed
BY DeliverySafe, SharedInOrder, PTL

-----------------------------------------------------------------------------
(* Topics.  isTopicMatched is a recursion over two texts of any length.    *)
(* What it computes follows without an induction theorem: from the least   *)
(* number for which a claim would fail.                                    *)

(* Every set of numbers that is not empty has a least one.                 *)
LEMMA Least ==
  ASSUME NEW T, T \subseteq Nat, T # {}
  PROVE  \E x \in T : \A y \in T : x <= y
<1> DEFINE R == OpToRel(<, Nat)
<1>1. IsWellFoundedOn(R, Nat)
  BY NatLessThanWellFounded
<1>3. \A x, y \in Nat : <<y, x>> \in R <=> y < x
  BY DEF OpToRel
<1> HIDE DEF R
<1>2. PICK x \in T : \A y \in T : ~(<<y, x>> \in R)
  BY <1>1, WFMin
<1>4. \A y \in T : ~(y < x)
  BY <1>2, <1>3
<1> QED BY <1>4, SMT

Before(P, i) == {j \in P : j < i}

LEMMA BeforeFacts ==
  ASSUME NEW L \in Nat, NEW P, P \subseteq 1 .. L
  PROVE  /\ IsFiniteSet(P) /\ Cardinality(P) \in Nat
         /\ \A i \in 1 .. L + 1 : IsFiniteSet(Before(P, i)) /\ Cardinality(Before(P, i)) \in Nat
         /\ Cardinality(Before(P, 1)) = 0
         /\ Before(P, L + 1) = P
         /\ \A i \in P, j \in 1 .. L + 1 :
              i < j => Cardinality(Before(P, i)) < Cardinality(Before(P, j))
<1>1. IsFiniteSet(1 .. L)
  BY FS_Interval
<1>2. IsFiniteSet(P)
  BY <1>1, FS_Subset
<1>3. \A i : Before(P, i) \subseteq P
  BY DEF Before
<1>4. \A i : IsFiniteSet(Before(P, i))
  BY <1>2, <1>3, FS_Subset
<1>5. Cardinality(P) \in Nat /\ \A i : Cardinality(Before(P, i)) \in Nat
  BY <1>2, <1>4, FS_CardinalityType
<1>6. Cardinality(Before(P, 1)) = 0
  <2>1. \A j \in P : ~(j < 1)
    BY SMT
  <2>2. Before(P, 1) = {}
    BY <2>1 DEF Before
  <2> QED BY <2>2, FS_EmptySet
<1>7. Before(P, L + 1) = P
  <2>1. \A j \in P : j < L + 1
    BY SMT
  <2> QED BY <2>1 DEF Before
<1>8. ASSUME NEW i \in P, NEW j \in 1 .. L + 1, i < j
      PROVE  Cardinality(Before(P, i)) < Cardinality(Before(P, j))
  <2>1. i \notin Before(P, i)
    BY SMT DEF Before
  <2>2. Before(P, i) \cup {i} \subseteq Before(P, j)
    <3>1. \A d \in P : d < i \/ d = i => d < j
      BY <1>8, SMT
    <3> QED BY <3>1 DEF Before
  <2>3. Cardinality(Before(P, i) \cup {i}) = Cardinality(Before(P, i)) + 1
    BY <1>4, <2>1, FS_AddElement
  <2>4. Cardinality(Before(P, i) \cup {i}) <= Cardinality(Before(P, j))
    BY <1>4, <2>2, FS_Subset
  <2> QED BY <1>5, <2>3, <2>4, SMT
<1> QED BY <1>2, <1>4, <1>5, <1>6, <1>7, <1>8

LEMMA BeforeReaches ==
  ASSUME NEW L \in Nat, NEW P, P \subseteq 1 .. L, NEW k \in 1 .. Cardinality(P)
  PROVE  \E i \in P : Cardinality(Before(P, i)) = k - 1
<1> DEFINE T == {i \in 1 .. L + 1 : Cardinality(Before(P, i)) >= k}
<1>a. \A i \in 1 .. L + 1 : IsFiniteSet(Before(P, i)) /\ Cardinality(Before(P, i)) \in Nat
  BY BeforeFacts, Zenon
<1>b. Cardinality(Before(P, 1)) = 0 /\ Before(P, L + 1) = P
  BY BeforeFacts, Zenon
<1>c. Cardinality(P) \in Nat
  BY BeforeFacts, Zenon
<1>d. L + 1 \in 1 .. L + 1 /\ 1 \in 1 .. L + 1
  BY SMT
<1>1. L + 1 \in T
  BY <1>b, <1>c, <1>d, SMT
<1>2. PICK i \in T : \A y \in T : i <= y
  <2>1. T \subseteq Nat /\ T # {}
    BY <1>1
  <2> HIDE DEF T
  <2> QED BY <2>1, Least
<1>3. i # 1
  BY <1>b, <1>c, SMT
<1>4. i - 1 \in 1 .. L /\ i - 1 \notin T
  BY <1>2, <1>3, SMT
<1>e. i \in 1 .. L + 1 /\ i - 1 \in 1 .. L + 1
  BY <1>4, SMT
<1>8. Cardinality(Before(P, i - 1)) \in Nat
  BY <1>a, <1>e
<1>5. Cardinality(Before(P, i - 1)) < k /\ Cardinality(Before(P, i)) >= k
  BY <1>2, <1>4, <1>e, <1>a, <1>c, SMT
<1>6. i - 1 \in P
  <2> SUFFICES ASSUME i - 1 \notin P PROVE FALSE
    OBVIOUS
  <2>1. Before(P, i) = Before(P, i - 1)
    <3>1. \A j \in P : j # i - 1 /\ j \in Nat
      BY SMT
    <3>2. \A j \in P : j < i <=> j < i - 1
      BY <3>1, <1>e, SMT
    <3> QED BY <3>2 DEF Before
  <2> QED BY <1>5, <1>8, <2>1, <1>c, SMT
<1>7. Cardinality(Before(P, i)) = Cardinality(Before(P, i - 1)) + 1
  <2>1. i - 1 \notin Before(P, i - 1)
    BY <1>4, SMT DEF Before
  <2>2. Before(P, i) = Before(P, i - 1) \cup {i - 1}
    <3>1. \A j \in P : j < i <=> (j < i - 1 \/ j = i - 1)
      BY <1>e, SMT
    <3> QED BY <1>6, <3>1 DEF Before
  <2>3. IsFiniteSet(Before(P, i - 1))
    BY <1>a, <1>e
  <2> QED BY <2>1, <2>2, <2>3, FS_AddElement
<1> HIDE DEF T
<1>9. Cardinality(Before(P, i - 1)) = k - 1
  BY <1>5, <1>7, <1>8, <1>c, SMT
<1> QED BY <1>6, <1>9

(* The separators of a text, between the ends Separator(s, 0) = 0 and      *)
(* Separator(s, Depth(s) + 1) = Len(s) + 1: strictly in order, and with    *)
(* none between two neighbours.                                            *)
LEMMA SeparatorFacts ==
  ASSUME NEW C, NEW s \in Seq(C)
  PROVE  /\ Depth(s) \in Nat /\ Len(s) \in Nat
         /\ Separators(s) \subseteq 1 .. Len(s)
         /\ Separator(s, 0) = 0 /\ Separator(s, Depth(s) + 1) = Len(s) + 1
         /\ \A k \in 1 .. Depth(s) : Separator(s, k) \in Separators(s)
         /\ \A k \in 0 .. Depth(s) : Separator(s, k) < Separator(s, k + 1)
         /\ \A k \in 0 .. Depth(s), i \in Separators(s) :
              ~(Separator(s, k) < i /\ i < Separator(s, k + 1))
<1> DEFINE P == Separators(s)
           L == Len(s)
           E == P \cup {L + 1}
           Rank(i) == Cardinality(Before(P, i))
<1>1. L \in Nat /\ P \subseteq 1 .. L
  BY LenProperties DEF Separators
<1>2. Depth(s) = Cardinality(P) /\ Depth(s) \in Nat
  BY <1>1, BeforeFacts DEF Depth
<1>3. \A i \in 1 .. L + 1 : Rank(i) \in Nat
  BY <1>1, BeforeFacts
<1>4. \A i \in P, j \in 1 .. L + 1 : i < j => Rank(i) < Rank(j)
  BY <1>1, BeforeFacts
<1>5. Rank(L + 1) = Depth(s)
  BY <1>1, <1>2, BeforeFacts
<1>6. \A k \in 1 .. Depth(s) : \E i \in P : Rank(i) = k - 1
  BY <1>1, <1>2, BeforeReaches
<1>7. \A k : k # 0 => Separator(s, k) = CHOOSE i \in E : Rank(i) = k - 1
  BY DEF Separator, Before
<1>8. Separator(s, 0) = 0
  BY DEF Separator
<1>9. E \subseteq 1 .. L + 1 /\ L + 1 \in E /\ \A i \in E : i \in P \/ i = L + 1
  BY <1>1, SMT
<1> HIDE DEF P, L, E, Rank
<1>10. \A i, j \in E : i < j => Rank(i) < Rank(j)
  BY <1>1, <1>4, <1>9, SMT
<1>16. /\ L + 1 \in Nat /\ L + 1 \in E
       /\ \A i \in E : i \in Nat /\ i >= 1 /\ i <= L + 1 /\ Rank(i) \in Nat
       /\ P \subseteq E
  <2>1. P \subseteq E
    BY DEF E
  <2> QED BY <1>1, <1>3, <1>9, <2>1, SMT
<1>17. Depth(s) \in Nat
  BY <1>2
<1>11. ASSUME NEW k \in 1 .. Depth(s) + 1
       PROVE  Separator(s, k) \in E /\ Rank(Separator(s, k)) = k - 1
  <2>1. \E i \in E : Rank(i) = k - 1
    <3>1. CASE k = Depth(s) + 1
      <4>1. k - 1 = Depth(s)
        BY <3>1, <1>17, SMT
      <4> QED BY <4>1, <1>5, <1>16
    <3>2. CASE k # Depth(s) + 1
      <4>1. k \in 1 .. Depth(s)
        BY <3>2, <1>2, SMT
      <4> QED BY <4>1, <1>6 DEF E
    <3> QED BY <3>1, <3>2
  <2>2. k # 0
    BY <1>2, SMT
  <2> QED BY <1>7, <2>1, <2>2
<1>12. Separator(s, Depth(s) + 1) = L + 1
  <2>1. Depth(s) + 1 \in 1 .. Depth(s) + 1
    BY <1>2, SMT
  <2>2. Separator(s, Depth(s) + 1) \in E /\ Rank(Separator(s, Depth(s) + 1)) = Depth(s)
    BY <1>2, <1>11, <2>1, SMT
  <2>3. ~(Separator(s, Depth(s) + 1) < L + 1)
    <3>1. ~(Depth(s) < Depth(s))
      BY <1>17, SMT
    <3> QED BY <3>1, <1>5, <1>16, <1>10, <2>2, Zenon
  <2> QED BY <1>16, <2>2, <2>3, SMT
<1>13. ASSUME NEW k \in 1 .. Depth(s)
       PROVE  Separator(s, k) \in P
  <2>1. k \in 1 .. Depth(s) + 1
    BY <1>2, SMT
  <2>2. Separator(s, k) \in E /\ Rank(Separator(s, k)) = k - 1
    BY <1>11, <2>1
  <2>3. Separator(s, k) # L + 1
    BY <1>2, <1>5, <2>2, SMT
  <2> QED BY <1>9, <2>2, <2>3
<1>14. ASSUME NEW k \in 0 .. Depth(s)
       PROVE  /\ Separator(s, k) < Separator(s, k + 1)
              /\ \A i \in P : ~(Separator(s, k) < i /\ i < Separator(s, k + 1))
  <2>1. k + 1 \in 1 .. Depth(s) + 1
    BY <1>2, SMT
  <2>2. Separator(s, k + 1) \in E /\ Rank(Separator(s, k + 1)) = k
    BY <1>2, <1>11, <2>1, SMT
  <2>3. CASE k = 0
    <3>1. Separator(s, k) < Separator(s, k + 1)
      BY <1>8, <1>16, <2>2, <2>3, SMT
    <3>2. \A i \in P : ~(i < Separator(s, k + 1))
      <4>1. Rank(Separator(s, k + 1)) = 0
        BY <2>2, <2>3
      <4> QED BY <1>16, <1>10, <2>2, <4>1, SMT
    <3> QED BY <3>1, <3>2
  <2>4. CASE k # 0
    <3>1. k \in 1 .. Depth(s) + 1
      BY <2>4, <1>2, SMT
    <3>2. Separator(s, k) \in E /\ Rank(Separator(s, k)) = k - 1
      BY <3>1, <1>11
    <3>3. Separator(s, k) < Separator(s, k + 1)
      <4> DEFINE a == Separator(s, k)
                 b == Separator(s, k + 1)
      <4>1. a \in E /\ b \in E /\ Rank(a) = k - 1 /\ Rank(b) = k
        BY <2>2, <3>2
      <4> HIDE DEF a, b
      <4>2. a < b
        <5>1. ~(Rank(b) < Rank(a)) /\ a # b
          BY <1>17, <4>1, SMT
        <5>2. ~(b < a)
          BY <5>1, <4>1, <1>10
        <5> QED BY <5>1, <5>2, <4>1, <1>16, SMT
      <4> QED BY <4>2 DEF a, b
    <3>4. ASSUME NEW i \in P, Separator(s, k) < i, i < Separator(s, k + 1)
          PROVE  FALSE
      <4>1. i \in E
        BY DEF E
      <4>2. Rank(Separator(s, k)) < Rank(i) /\ Rank(i) < Rank(Separator(s, k + 1))
        BY <1>10, <2>2, <3>2, <3>4, <4>1
      <4>3. Rank(i) \in Nat
        BY <1>3, <1>9, <4>1
      <4> QED BY <1>2, <2>2, <3>2, <4>2, <4>3, SMT
    <3> QED BY <3>3, <3>4
  <2> QED BY <2>3, <2>4
<1>15. P = Separators(s) /\ L = Len(s)
  BY DEF P, L
<1> QED BY <1>1, <1>2, <1>8, <1>12, <1>13, <1>14, <1>15

LEMMA Downward ==
  ASSUME NEW m \in Nat, NEW T, m \in T, \A i \in 2 .. m : i \in T => i - 1 \in T
  PROVE  1 .. m \subseteq T
<1> DEFINE U == {d \in 0 .. m - 1 : m - d \notin T}
<1>1. SUFFICES ASSUME U # {} PROVE FALSE
  <2>1. ASSUME NEW i \in 1 .. m, i \notin T PROVE U # {}
    <3>1. m - i \in 0 .. m - 1 /\ m - (m - i) = i
      BY SMT
    <3> QED BY <2>1, <3>1
  <2> QED BY <2>1
<1>2. PICK d \in U : \A y \in U : d <= y
  <2>1. U \subseteq Nat
    OBVIOUS
  <2> HIDE DEF U
  <2> QED BY <1>1, <2>1, Least
<1>3. d \in 0 .. m - 1 /\ m - d \notin T
  OBVIOUS
<1>4. d # 0
  BY <1>3
<1>5. d - 1 \in 0 .. m - 1 /\ ~(d <= d - 1) /\ m - (d - 1) \in 2 .. m /\ m - (d - 1) - 1 = m - d
  BY <1>3, <1>4, SMT
<1>6. m - (d - 1) \in T
  BY <1>2, <1>5
<1> QED BY <1>3, <1>5, <1>6

(* The character behind the level that the name is in.                     *)
LEMMA LevelEndFacts ==
  ASSUME NEW C, NEW nm \in Seq(C), NEW j \in 1 .. Len(nm)
  PROVE  /\ LevelEnd(nm, j) \in j .. Len(nm)
         /\ LevelEnd(nm, j) = Len(nm) \/ nm[LevelEnd(nm, j) + 1] = "/"
         /\ \A i \in j + 1 .. LevelEnd(nm, j) : nm[i] # "/"
<1> DEFINE T == {k \in j .. Len(nm) : k = Len(nm) \/ nm[k + 1] = "/"}
<1>1. Len(nm) \in Nat
  BY LenProperties
<1>2. Len(nm) \in T /\ T \subseteq Nat
  BY <1>1, SMT
<1>3. PICK k \in T : \A y \in T : k <= y
  <2> HIDE DEF T
  <2> QED BY <1>2, Least
<1>4. k \in j .. Len(nm) /\ (k = Len(nm) \/ nm[k + 1] = "/")
  OBVIOUS
<1>5. ASSUME NEW i \in j + 1 .. k PROVE nm[i] # "/"
  <2>1. i - 1 \in j .. Len(nm) /\ ~(k <= i - 1) /\ i - 1 + 1 = i
    BY <1>1, <1>4, SMT
  <2> QED BY <1>3, <2>1
<1> HIDE DEF T
<1> QED BY <1>4, <1>5 DEF LevelEnd

LEMMA NextCharType ==
  ASSUME NEW C, NEW flt, NEW i, NEW nm \in Seq(C), NEW j \in 1 .. Len(nm)
  PROVE  NextChar(flt, i, nm, j) \in 0 .. Len(nm) + 1
<1>1. Len(nm) \in Nat
  BY LenProperties
<1>2. LevelEnd(nm, j) \in j .. Len(nm)
  BY LevelEndFacts
<1>3. /\ 0 \in 0 .. Len(nm) + 1 /\ LevelEnd(nm, j) + 1 \in 0 .. Len(nm) + 1
      /\ Len(nm) + 1 \in 0 .. Len(nm) + 1 /\ j + 1 \in 0 .. Len(nm) + 1
  BY <1>1, <1>2, SMT
<1> QED BY <1>3, Zenon DEF NextChar

-----------------------------------------------------------------------------
(* isTopicMatched is a recursive function of the two pointers: the table   *)
(* of its answers exists, because the pointer into the filter goes up.     *)
Positions(flt, nm) == (1 .. Len(flt) + 1) \X (0 .. Len(nm) + 1)
Round(flt, nm, g, p) ==
  LET ended == <<Len(flt) + 1, Len(nm) + 1>> IN
  IF p[2] = 0 \/ p[1] = ended[1] \/ p[2] = ended[2]
  THEN p = ended
  ELSE g[<<p[1] + 1, NextChar(flt, p[1], nm, p[2])>>]
Rounds(flt, nm, g) ==
  LET ended == <<Len(flt) + 1, Len(nm) + 1>> IN
  [p \in (1 .. ended[1]) \X (0 .. ended[2]) |-> Round(flt, nm, g, p)]

LEMMA RoundsIs ==
  ASSUME NEW flt, NEW nm, NEW g
  PROVE  Rounds(flt, nm, g) = [p \in Positions(flt, nm) |-> Round(flt, nm, g, p)]
BY DEF Rounds, Positions

LEMMA MatchedFromIs ==
  ASSUME NEW flt, NEW nm
  PROVE  MatchedFrom(flt, nm) = CHOOSE g : g = Rounds(flt, nm, g)
BY Zenon DEF MatchedFrom, Rounds, Round

LEMMA RoundIs ==
  ASSUME NEW flt, NEW nm, NEW g, NEW p
  PROVE  Round(flt, nm, g, p) =
           IF p[2] = 0 \/ p[1] = Len(flt) + 1 \/ p[2] = Len(nm) + 1
           THEN p = <<Len(flt) + 1, Len(nm) + 1>>
           ELSE g[<<p[1] + 1, NextChar(flt, p[1], nm, p[2])>>]
<1> DEFINE e == <<Len(flt) + 1, Len(nm) + 1>>
<1>1. e[1] = Len(flt) + 1 /\ e[2] = Len(nm) + 1
  OBVIOUS
<1>2. Round(flt, nm, g, p) =
        IF p[2] = 0 \/ p[1] = e[1] \/ p[2] = e[2] THEN p = e
        ELSE g[<<p[1] + 1, NextChar(flt, p[1], nm, p[2])>>]
  BY Zenon DEF Round
<1> HIDE DEF e
<1>3. Round(flt, nm, g, p) =
        IF p[2] = 0 \/ p[1] = Len(flt) + 1 \/ p[2] = Len(nm) + 1 THEN p = e
        ELSE g[<<p[1] + 1, NextChar(flt, p[1], nm, p[2])>>]
  BY <1>1, <1>2
<1> QED BY <1>3 DEF e

(* A round looks at positions with the next character of the filter only.  *)
LEMMA RoundLooksAhead ==
  ASSUME NEW C, NEW flt \in Seq(C), NEW nm \in Seq(C),
         NEW g, NEW h, NEW p \in Positions(flt, nm),
         \A q \in Positions(flt, nm) : q[1] = p[1] + 1 => g[q] = h[q]
  PROVE  Round(flt, nm, g, p) = Round(flt, nm, h, p)
<1>1. Len(flt) \in Nat /\ Len(nm) \in Nat
  BY LenProperties
<1>2. p[1] \in 1 .. Len(flt) + 1 /\ p[2] \in 0 .. Len(nm) + 1
  BY DEF Positions
<1>3. CASE p[2] # 0 /\ p[1] # Len(flt) + 1 /\ p[2] # Len(nm) + 1
  <2> DEFINE q == <<p[1] + 1, NextChar(flt, p[1], nm, p[2])>>
  <2>1. p[2] \in 1 .. Len(nm) /\ p[1] + 1 \in 1 .. Len(flt) + 1
    BY <1>1, <1>2, <1>3, SMT
  <2>2. NextChar(flt, p[1], nm, p[2]) \in 0 .. Len(nm) + 1
    BY <2>1, NextCharType
  <2>3. q \in Positions(flt, nm) /\ q[1] = p[1] + 1
    BY <2>1, <2>2 DEF Positions
  <2>4. g[q] = h[q]
    BY <2>3
  <2> QED BY <1>3, <2>4, RoundIs, Zenon
<1>4. CASE ~(p[2] # 0 /\ p[1] # Len(flt) + 1 /\ p[2] # Len(nm) + 1)
  BY <1>4, RoundIs, Zenon
<1> QED BY <1>3, <1>4

LEMMA MatchedFromUnfolds ==
  ASSUME NEW C, NEW flt \in Seq(C), NEW nm \in Seq(C)
  PROVE  \A p \in Positions(flt, nm) :
           MatchedFrom(flt, nm)[p] = Round(flt, nm, MatchedFrom(flt, nm), p)
<1> DEFINE Lf == Len(flt)
           D == Positions(flt, nm)
           T == {m \in 1 .. Lf + 1 :
                   \E g : \A p \in D : p[1] >= m => g[p] = Round(flt, nm, g, p)}
<1>1. Lf \in Nat
  BY LenProperties
<1>2. \A p \in D : p[1] \in 1 .. Lf + 1
  BY DEF Positions
<1>3. Lf + 1 \in T
  <2> DEFINE h == [p \in D |-> Round(flt, nm, << >>, p)]
  <2>1. ASSUME NEW p \in D, p[1] >= Lf + 1
        PROVE  h[p] = Round(flt, nm, h, p)
    <3>1. p[1] = Lf + 1
      BY <1>1, <1>2, <2>1, SMT
    <3>2. \A g : Round(flt, nm, g, p) = (p = <<Len(flt) + 1, Len(nm) + 1>>)
      BY <3>1, RoundIs, Zenon
    <3> QED BY <3>2
  <2>2. Lf + 1 \in 1 .. Lf + 1
    BY <1>1, SMT
  <2> HIDE DEF h, D
  <2> QED BY <2>1, <2>2
<1>4. ASSUME NEW m \in 2 .. Lf + 1, m \in T
      PROVE  m - 1 \in T
  <2>1. PICK g : \A p \in D : p[1] >= m => g[p] = Round(flt, nm, g, p)
    BY <1>4
  <2> DEFINE h == [p \in D |-> IF p[1] = m - 1 THEN Round(flt, nm, g, p) ELSE g[p]]
  <2>2. \A p \in D : p[1] >= m => h[p] = g[p]
    BY <1>1, <1>2, SMT
  <2>3. ASSUME NEW p \in D, p[1] >= m - 1
        PROVE  h[p] = Round(flt, nm, h, p)
    <3>1. \A q \in D : q[1] = p[1] + 1 => g[q] = h[q]
      <4> HIDE DEF h
      <4>1. p[1] + 1 >= m
        BY <1>1, <1>2, <2>3, SMT
      <4> QED BY <2>2, <4>1
    <3>2. Round(flt, nm, g, p) = Round(flt, nm, h, p)
      <4> HIDE DEF h
      <4> QED BY <3>1, RoundLooksAhead
    <3>3. CASE p[1] = m - 1
      BY <3>2, <3>3
    <3>4. CASE p[1] # m - 1
      <4>1. p[1] >= m
        BY <1>1, <1>2, <2>3, <3>4, SMT
      <4> QED BY <2>1, <2>2, <3>2, <4>1
    <3> QED BY <3>3, <3>4
  <2>4. m - 1 \in 1 .. Lf + 1
    BY <1>1, SMT
  <2> HIDE DEF h, D
  <2> QED BY <2>3, <2>4
<1>5. 1 \in T
  <2>1. Lf + 1 \in Nat /\ 1 \in 1 .. Lf + 1
    BY <1>1, SMT
  <2> HIDE DEF T
  <2> QED BY <1>3, <1>4, <2>1, Downward
<1>6. PICK g : \A p \in D : g[p] = Round(flt, nm, g, p)
  <2>1. \A p \in D : p[1] >= 1
    BY <1>1, <1>2, SMT
  <2> HIDE DEF D
  <2> QED BY <1>5, <2>1
<1> DEFINE h == [p \in D |-> g[p]]
<1>7. ASSUME NEW p \in D PROVE Round(flt, nm, g, p) = Round(flt, nm, h, p)
  <2>1. \A q \in D : q[1] = p[1] + 1 => g[q] = h[q]
    OBVIOUS
  <2> HIDE DEF h
  <2> QED BY <2>1, RoundLooksAhead
<1>8. h = Rounds(flt, nm, h)
  <2>1. \A p \in D : g[p] = Round(flt, nm, h, p)
    BY <1>6, <1>7
  <2>2. h = [p \in D |-> Round(flt, nm, h, p)]
    BY <2>1, Zenon
  <2> HIDE DEF h
  <2> QED BY <2>2, RoundsIs
<1>9. MatchedFrom(flt, nm) = Rounds(flt, nm, MatchedFrom(flt, nm))
  <2> HIDE DEF h
  <2> QED BY <1>8, MatchedFromIs
<1> HIDE DEF h
<1> QED BY <1>9, RoundsIs

(* What the bounds of a level are.                                         *)
LEMMA BoundsOfLevel ==
  ASSUME NEW C, NEW s \in Seq(C), NEW k \in 0 .. Depth(s)
  PROVE  /\ Separator(s, k) \in 0 .. Len(s) /\ Separator(s, k + 1) \in 1 .. Len(s) + 1
         /\ Separator(s, k) < Separator(s, k + 1)
         /\ Separator(s, k) = 0 \/ (k # 0 /\ Separator(s, k) \in Separators(s))
         /\ k # 0 => Separator(s, k) \in Separators(s)
         /\ Separator(s, k + 1) = Len(s) + 1 <=> k = Depth(s)
         /\ k # Depth(s) => Separator(s, k + 1) \in Separators(s)
         /\ \A i \in Separators(s) : ~(Separator(s, k) < i /\ i < Separator(s, k + 1))
<1>1. /\ Depth(s) \in Nat /\ Len(s) \in Nat
      /\ Separators(s) \subseteq 1 .. Len(s)
      /\ Separator(s, 0) = 0 /\ Separator(s, Depth(s) + 1) = Len(s) + 1
      /\ \A m \in 1 .. Depth(s) : Separator(s, m) \in Separators(s)
  BY SeparatorFacts
<1>2. /\ Separator(s, k) < Separator(s, k + 1)
      /\ \A i \in Separators(s) : ~(Separator(s, k) < i /\ i < Separator(s, k + 1))
  BY SeparatorFacts
<1>3. k # 0 => k \in 1 .. Depth(s)
  BY <1>1, SMT
<1>4. k # Depth(s) => k + 1 \in 1 .. Depth(s)
  BY <1>1, SMT
<1>5. k # 0 => Separator(s, k) \in Separators(s)
  BY <1>1, <1>3
<1>6. k # Depth(s) => Separator(s, k + 1) \in Separators(s)
  BY <1>1, <1>4
<1>7. Separator(s, k) \in 0 .. Len(s) /\ (k = 0 => Separator(s, k) = 0)
  BY <1>1, <1>5, SMT
<1>8. Separator(s, k + 1) \in 1 .. Len(s) + 1 /\ (Separator(s, k + 1) = Len(s) + 1 <=> k = Depth(s))
  BY <1>1, <1>6, SMT
<1> QED BY <1>2, <1>5, <1>6, <1>7, <1>8

LEMMA LevelIs ==
  ASSUME NEW C, NEW s \in Seq(C), NEW k \in 0 .. Depth(s)
  PROVE  /\ Level(s, k) \in Seq(C)
         /\ Len(Level(s, k)) = Separator(s, k + 1) - Separator(s, k) - 1
         /\ \A d \in 1 .. Len(Level(s, k)) : Level(s, k)[d] = s[Separator(s, k) + d]
<1> DEFINE a == Separator(s, k) + 1
           b == Separator(s, k + 1) - 1
<1>0. Separator(s, k) \in 0 .. Len(s) /\ Separator(s, k + 1) \in 1 .. Len(s) + 1
      /\ Separator(s, k) < Separator(s, k + 1)
  BY BoundsOfLevel
<1>1. Len(s) \in Nat
  BY LenProperties
<1>2. a \in Int /\ b \in Int /\ a >= 1 /\ b <= Len(s) /\ a <= b + 1
  BY <1>0, <1>1, SMT
<1>3. Level(s, k) = SubSeq(s, a, b)
  BY DEF Level
<1>4. b - a + 1 = Separator(s, k + 1) - Separator(s, k) - 1
  BY <1>0, SMT
<1>5. \A d \in Int : a + d - 1 = Separator(s, k) + d
  BY <1>0, SMT
<1> HIDE DEF a, b
<1>6. \A i \in a .. b : s[i] \in C
  <2>1. a .. b \subseteq 1 .. Len(s)
    BY <1>1, <1>2, SMT
  <2> QED BY <2>1, ElementOfSeq
<1>7. /\ SubSeq(s, a, b) \in Seq(C)
      /\ Len(SubSeq(s, a, b)) = IF a <= b THEN b - a + 1 ELSE 0
      /\ \A i \in 1 .. b - a + 1 : SubSeq(s, a, b)[i] = s[a + i - 1]
  BY <1>2, <1>6, SubSeqProperties
<1>8. Len(SubSeq(s, a, b)) = b - a + 1
  BY <1>2, <1>7, SMT
<1>9. ASSUME NEW d \in 1 .. Len(SubSeq(s, a, b))
      PROVE  SubSeq(s, a, b)[d] = s[Separator(s, k) + d]
  <2>1. d \in 1 .. b - a + 1 /\ d \in Int
    BY <1>8, SMT
  <2>2. SubSeq(s, a, b)[d] = s[a + d - 1]
    BY <1>7, <2>1
  <2> QED BY <1>5, <2>1, <2>2
<1> QED BY <1>3, <1>4, <1>7, <1>8, <1>9, Zenon

(* A level of one character.                                               *)
LEMMA LevelOfOne ==
  ASSUME NEW C, NEW s \in Seq(C), NEW k \in 0 .. Depth(s), NEW c
  PROVE  Level(s, k) = <<c>> <=>
           Separator(s, k + 1) = Separator(s, k) + 2 /\ s[Separator(s, k) + 1] = c
<1>0. Separator(s, k) \in 0 .. Len(s) /\ Separator(s, k + 1) \in 1 .. Len(s) + 1
  BY BoundsOfLevel
<1>1. /\ Level(s, k) \in Seq(C)
      /\ Len(Level(s, k)) = Separator(s, k + 1) - Separator(s, k) - 1
      /\ \A d \in 1 .. Len(Level(s, k)) : Level(s, k)[d] = s[Separator(s, k) + d]
  BY LevelIs
<1>2. Len(Level(s, k)) = 1 <=> Separator(s, k + 1) = Separator(s, k) + 2
  BY <1>0, <1>1, SMT
<1>3. Len(Level(s, k)) = 1 => Level(s, k)[1] = s[Separator(s, k) + 1]
  <2>1. 1 \in 1 .. 1
    BY SMT
  <2> QED BY <1>1, <2>1
<1>4. Level(s, k) = <<c>> => Len(Level(s, k)) = 1 /\ Level(s, k)[1] = c
  BY SMT
<1>5. ASSUME Len(Level(s, k)) = 1, Level(s, k)[1] = c
      PROVE  Level(s, k) = <<c>>
  <2>1. <<c>> \in Seq(C \cup {c}) /\ Len(<<c>>) = 1 /\ <<c>>[1] = c
    BY SMT
  <2>2. Level(s, k) \in Seq(C \cup {c})
    BY <1>1, SMT
  <2>3. \A i \in 1 .. 1 : i = 1
    BY SMT
  <2> QED BY <1>5, <2>1, <2>2, <2>3, SeqEqual
<1> QED BY <1>2, <1>3, <1>4, <1>5

-----------------------------------------------------------------------------
Open(flt) == Len(flt) >= 1 /\ flt[Len(flt)] = "#"

Wildcard(flt, i) == flt[i] \in {"+", "#"}

(* A wildcard is the one character of its level.                           *)
LEMMA WildcardAt ==
  ASSUME NEW C, NEW flt \in Seq(C), CorrectFilter(flt),
         NEW k \in 0 .. Depth(flt),
         NEW i \in 1 .. Len(flt), Wildcard(flt, i),
         Separator(flt, k) < i, i <= Separator(flt, k + 1)
  PROVE  /\ k # 0 /\ i = Separator(flt, k) + 1 /\ i + 1 = Separator(flt, k + 1)
         /\ flt[i] = "#" => k = Depth(flt) /\ i = Len(flt)
<1>1. Len(flt) \in Nat /\ DOMAIN flt = 1 .. Len(flt)
  BY LenProperties
<1>2. /\ Separator(flt, k) \in 0 .. Len(flt) /\ Separator(flt, k + 1) \in 1 .. Len(flt) + 1
      /\ Separator(flt, k) = 0 \/ (k # 0 /\ Separator(flt, k) \in Separators(flt))
      /\ k # 0 => Separator(flt, k) \in Separators(flt)
      /\ Separator(flt, k + 1) = Len(flt) + 1 <=> k = Depth(flt)
      /\ k # Depth(flt) => Separator(flt, k + 1) \in Separators(flt)
      /\ \A y \in Separators(flt) : ~(Separator(flt, k) < y /\ y < Separator(flt, k + 1))
  BY BoundsOfLevel
<1>3. i > 1 /\ flt[i - 1] = "/" /\ (i = Len(flt) \/ (flt[i] = "+" /\ flt[i + 1] = "/"))
  BY <1>1 DEF CorrectFilter, Wildcard
<1>4. flt[i] # "/" /\ (flt[i] = "#" => flt[i] # "+")
  BY DEF Wildcard
<1>a. i > 1
  BY <1>3
<1>b. i \in Nat /\ i <= Len(flt)
  BY <1>1, SMT
<1>5. i - 1 \in 1 .. Len(flt) /\ (i # Len(flt) => i + 1 \in 1 .. Len(flt))
  <2>1. Len(flt) \in Nat
    BY <1>1
  <2>2. i - 1 \in 1 .. Len(flt)
    BY <1>a, <1>b, <2>1, SMT
  <2>3. i # Len(flt) => i + 1 \in 1 .. Len(flt)
    BY <1>b, <2>1, SMT
  <2> QED BY <2>2, <2>3
<1>6. i \notin Separators(flt)
  BY <1>4 DEF Separators
<1>7. i - 1 \in Separators(flt)
  BY <1>1, <1>3, <1>5 DEF Separators
<1>8. i # Len(flt) => i + 1 \in Separators(flt)
  BY <1>1, <1>3, <1>5 DEF Separators
<1>9. flt[i] = "#" => i = Len(flt)
  BY <1>3, <1>4
<1>10. Separator(flt, k) = i - 1
  <2>1. ~(Separator(flt, k) < i - 1 /\ i - 1 < Separator(flt, k + 1))
    BY <1>2, <1>7
  <2> QED BY <1>2, <2>1, SMT
<1>11. k # 0
  BY <1>2, <1>3, <1>10, SMT
<1>12. Separator(flt, k + 1) # i
  <2>1. k = Depth(flt) => Separator(flt, k + 1) # i
    BY <1>1, <1>2, SMT
  <2> QED BY <1>2, <1>6, <2>1
<1>13. Separator(flt, k + 1) = i + 1
  <2>1. CASE i = Len(flt)
    BY <1>1, <1>2, <1>12, <2>1, SMT
  <2>2. CASE i # Len(flt)
    <3>1. ~(Separator(flt, k) < i + 1 /\ i + 1 < Separator(flt, k + 1))
      BY <1>2, <1>8, <2>2
    <3> QED BY <1>1, <1>2, <1>12, <3>1, SMT
  <2> QED BY <2>1, <2>2
<1>14. i = Separator(flt, k) + 1
  BY <1>2, <1>10, SMT
<1>15. i = Len(flt) => k = Depth(flt)
  BY <1>2, <1>13
<1> QED BY <1>9, <1>11, <1>13, <1>14, <1>15

LEMMA OpenIs ==
  ASSUME NEW C, NEW flt \in Seq(C), CorrectFilter(flt)
  PROVE  Level(flt, Depth(flt)) = <<"#">> <=> Open(flt)
<1>1. Len(flt) \in Nat /\ Depth(flt) \in Nat
  BY SeparatorFacts
<1>2. Depth(flt) \in 0 .. Depth(flt)
  BY <1>1, SMT
<1>3. /\ Separator(flt, Depth(flt)) \in 0 .. Len(flt)
      /\ Separator(flt, Depth(flt) + 1) = Len(flt) + 1
  BY <1>2, BoundsOfLevel
<1>4. Level(flt, Depth(flt)) = <<"#">> <=>
        /\ Separator(flt, Depth(flt) + 1) = Separator(flt, Depth(flt)) + 2
        /\ flt[Separator(flt, Depth(flt)) + 1] = "#"
  BY <1>2, LevelOfOne
<1>5. ASSUME Level(flt, Depth(flt)) = <<"#">> PROVE Open(flt)
  <2>1. Separator(flt, Depth(flt)) + 1 = Len(flt) /\ Len(flt) >= 1
    BY <1>1, <1>3, <1>4, <1>5, SMT
  <2> QED BY <1>4, <1>5, <2>1 DEF Open
<1>6. ASSUME Open(flt) PROVE Level(flt, Depth(flt)) = <<"#">>
  <2>1. Len(flt) \in 1 .. Len(flt) /\ Separator(flt, Depth(flt)) # Len(flt)
    <3>1. Len(flt) \notin Separators(flt)
      BY <1>6 DEF Open, Separators
    <3>2. Separator(flt, Depth(flt)) = 0 \/ Separator(flt, Depth(flt)) \in Separators(flt)
      BY <1>2, BoundsOfLevel
    <3>3. Len(flt) >= 1
      BY <1>6 DEF Open
    <3> QED BY <1>1, <3>1, <3>2, <3>3, SMT
  <2>2. Separator(flt, Depth(flt)) < Len(flt) /\ Len(flt) <= Separator(flt, Depth(flt) + 1)
    BY <1>1, <1>3, <2>1, SMT
  <2>3. Wildcard(flt, Len(flt))
    BY <1>6 DEF Open, Wildcard
  <2>4. Len(flt) = Separator(flt, Depth(flt)) + 1
    BY <1>2, <2>1, <2>2, <2>3, WildcardAt
  <2>5. Separator(flt, Depth(flt) + 1) = Separator(flt, Depth(flt)) + 2
    BY <1>3, <2>4, SMT
  <2> QED BY <1>4, <1>6, <2>4, <2>5 DEF Open
<1> QED BY <1>5, <1>6

(* The levels of a name that follow a separator are not empty.             *)
LEMMA NameLevel ==
  ASSUME NEW C, NEW nm \in Seq(C), CorrectName(nm), NEW k \in 1 .. Depth(nm)
  PROVE  /\ Separator(nm, k) + 1 < Separator(nm, k + 1)
         /\ Separator(nm, k) + 1 \in 1 .. Len(nm)
         /\ nm[Separator(nm, k) + 1] # "/"
<1>1. Len(nm) \in Nat /\ Depth(nm) \in Nat
  BY SeparatorFacts
<1>2. k \in 0 .. Depth(nm) /\ k # 0
  BY <1>1, SMT
<1>3. /\ Separator(nm, k) \in 0 .. Len(nm) /\ Separator(nm, k + 1) \in 1 .. Len(nm) + 1
      /\ Separator(nm, k) < Separator(nm, k + 1)
      /\ k # 0 => Separator(nm, k) \in Separators(nm)
      /\ Separator(nm, k + 1) = Len(nm) + 1 <=> k = Depth(nm)
      /\ k # Depth(nm) => Separator(nm, k + 1) \in Separators(nm)
  BY <1>2, BoundsOfLevel
<1>4. Separator(nm, k) < Len(nm) /\ nm[Separator(nm, k) + 1] # "/"
  BY <1>2, <1>3 DEF CorrectName
<1>5. Separator(nm, k) + 1 \notin Separators(nm)
  BY <1>4 DEF Separators
<1>6. Separator(nm, k + 1) # Separator(nm, k) + 1
  <2>1. k = Depth(nm) => Separator(nm, k + 1) # Separator(nm, k) + 1
    BY <1>1, <1>3, <1>4, SMT
  <2> QED BY <1>3, <1>5, <2>1
<1> QED BY <1>1, <1>3, <1>4, <1>6, SMT

(* Inside a level of the name, LevelEnd is the end of this level.          *)
LEMMA LevelEndIs ==
  ASSUME NEW C, NEW nm \in Seq(C), NEW k \in 0 .. Depth(nm),
         NEW j \in 1 .. Len(nm), Separator(nm, k) < j, j < Separator(nm, k + 1)
  PROVE  LevelEnd(nm, j) + 1 = Separator(nm, k + 1)
<1> DEFINE e == LevelEnd(nm, j)
           b == Separator(nm, k + 1)
<1>1. Len(nm) \in Nat
  BY LenProperties
<1>2. /\ Separator(nm, k) \in 0 .. Len(nm) /\ b \in 1 .. Len(nm) + 1
      /\ b = Len(nm) + 1 <=> k = Depth(nm)
      /\ k # Depth(nm) => b \in Separators(nm)
      /\ \A i \in Separators(nm) : ~(Separator(nm, k) < i /\ i < b)
  BY BoundsOfLevel
<1>3. /\ e \in j .. Len(nm)
      /\ e = Len(nm) \/ nm[e + 1] = "/"
      /\ \A i \in j + 1 .. e : nm[i] # "/"
  BY LevelEndFacts
<1> HIDE DEF e, b
<1>4. j < b /\ e \in Nat /\ j <= e /\ e <= Len(nm) /\ b \in Nat /\ b <= Len(nm) + 1
  BY <1>1, <1>2, <1>3, SMT DEF b
<1>5. e # Len(nm) => e + 1 \in Separators(nm)
  <2>1. e # Len(nm) => e + 1 \in 1 .. Len(nm)
    BY <1>1, <1>4, SMT
  <2> QED BY <1>3, <2>1, LenProperties DEF Separators
<1>6. e # Len(nm) => ~(e + 1 < b)
  <2>1. Separator(nm, k) < e + 1
    BY <1>2, <1>4, SMT
  <2> QED BY <1>2, <1>5, <2>1
<1>7. b <= e => nm[b] # "/"
  <2>1. b <= e => b \in j + 1 .. e
    BY <1>4, SMT
  <2> QED BY <1>3, <2>1
<1>8. b \in Separators(nm) => nm[b] = "/" /\ b <= Len(nm)
  <2>1. b \in Separators(nm) => nm[b] = "/" /\ b \in 1 .. Len(nm)
    BY LenProperties DEF Separators
  <2> QED BY <1>1, <2>1, SMT
<1>9. b \in Separators(nm) \/ b = Len(nm) + 1
  BY <1>2
<1>10. CASE b = Len(nm) + 1
  BY <1>1, <1>4, <1>6, <1>10, SMT DEF e, b
<1>11. CASE b \in Separators(nm)
  <2>1. ~(b <= e) /\ b <= Len(nm)
    BY <1>7, <1>8, <1>11
  <2>2. e # Len(nm) => ~(e + 1 < b)
    BY <1>6
  <2> QED BY <1>1, <1>4, <2>1, <2>2, SMT DEF e, b
<1> QED BY <1>9, <1>10, <1>11

-----------------------------------------------------------------------------
(* What is left to be matched with the pointers at i and j, both in their  *)
(* level k: the rest of this level, and the levels behind it.              *)
DepthFits(flt, nm) ==
  IF Open(flt) THEN Depth(nm) >= Depth(flt) ELSE Depth(nm) = Depth(flt)

LevelFits(flt, nm, q) ==
  \/ Level(flt, q) = Level(nm, q)
  \/ Level(flt, q) = <<"+">>
  \/ Open(flt) /\ q = Depth(flt)

SameRest(flt, nm, i, j, k) ==
  /\ Separator(flt, k + 1) - i = Separator(nm, k + 1) - j
  /\ \A d \in 0 .. Separator(flt, k + 1) - i - 1 : flt[i + d] = nm[j + d]

Here(flt, nm, i, j, k) ==
  \/ SameRest(flt, nm, i, j, k)
  \/ i < Separator(flt, k + 1) /\ Wildcard(flt, i)

LEMMA MeaningIs ==
  ASSUME NEW C, NEW flt \in Seq(C), NEW nm, CorrectFilter(flt)
  PROVE  MatchedByLevels(flt, nm) <=>
           DepthFits(flt, nm) /\ \A q \in 0 .. Depth(flt) : LevelFits(flt, nm, q)
BY OpenIs DEF MatchedByLevels, DepthFits, LevelFits

LEMMA SameLevel ==
  ASSUME NEW C, NEW flt \in Seq(C), NEW nm \in Seq(C),
         NEW q \in 0 .. Depth(flt), q \in 0 .. Depth(nm)
  PROVE  Level(flt, q) = Level(nm, q) <=>
           SameRest(flt, nm, Separator(flt, q) + 1, Separator(nm, q) + 1, q)
<1> DEFINE a == Separator(flt, q)
           b == Separator(flt, q + 1)
           x == Separator(nm, q)
           y == Separator(nm, q + 1)
           F == Level(flt, q)
           N == Level(nm, q)
<1>1. a \in Nat /\ b \in Nat /\ a < b /\ x \in Nat /\ y \in Nat /\ x < y
  <2>1. Len(flt) \in Nat /\ Len(nm) \in Nat
    BY LenProperties
  <2>2. a \in 0 .. Len(flt) /\ b \in 1 .. Len(flt) + 1 /\ a < b
    BY BoundsOfLevel
  <2>3. x \in 0 .. Len(nm) /\ y \in 1 .. Len(nm) + 1 /\ x < y
    BY BoundsOfLevel
  <2> HIDE DEF a, b, x, y
  <2> QED BY <2>1, <2>2, <2>3, SMT
<1>2. F \in Seq(C) /\ Len(F) = b - a - 1 /\ \A d \in 1 .. Len(F) : F[d] = flt[a + d]
  BY LevelIs
<1>3. N \in Seq(C) /\ Len(N) = y - x - 1 /\ \A d \in 1 .. Len(N) : N[d] = nm[x + d]
  BY LevelIs
<1>4. SameRest(flt, nm, a + 1, x + 1, q) <=>
        /\ b - (a + 1) = y - (x + 1)
        /\ \A d \in 0 .. b - (a + 1) - 1 : flt[a + 1 + d] = nm[x + 1 + d]
  BY DEF SameRest
<1> HIDE DEF a, b, x, y, F, N
<1>5. b - (a + 1) = y - (x + 1) <=> Len(F) = Len(N)
  BY <1>1, <1>2, <1>3, SMT
<1>6. ASSUME Len(F) = Len(N), NEW d \in 1 .. Len(F)
      PROVE  F[d] = flt[a + d] /\ N[d] = nm[x + d]
  BY <1>2, <1>3, <1>6
<1>7. ASSUME F = N
      PROVE  SameRest(flt, nm, a + 1, x + 1, q)
  <2>1. ASSUME NEW d \in 0 .. b - (a + 1) - 1
        PROVE  flt[a + 1 + d] = nm[x + 1 + d]
    <3>0. Len(F) = b - a - 1 /\ d \in Nat /\ d < b - a - 1
      BY <1>1, <1>2, SMT
    <3>1. d + 1 \in 1 .. Len(F) /\ a + (d + 1) = a + 1 + d /\ x + (d + 1) = x + 1 + d
      BY <1>1, <3>0, SMT
    <3>2. F[d + 1] = flt[a + (d + 1)] /\ N[d + 1] = nm[x + (d + 1)]
      BY <1>6, <1>7, <3>1
    <3> QED BY <1>7, <3>1, <3>2
  <2> QED BY <1>4, <1>5, <1>7, <2>1
<1>8. ASSUME SameRest(flt, nm, a + 1, x + 1, q)
      PROVE  F = N
  <2>1. Len(F) = Len(N)
    BY <1>4, <1>5, <1>8
  <2>2. ASSUME NEW d \in 1 .. Len(F)
        PROVE  F[d] = N[d]
    <3>1. d - 1 \in 0 .. b - (a + 1) - 1 /\ a + 1 + (d - 1) = a + d /\ x + 1 + (d - 1) = x + d
      BY <1>1, <1>2, SMT
    <3>2. flt[a + 1 + (d - 1)] = nm[x + 1 + (d - 1)]
      BY <1>4, <1>8, <3>1
    <3>3. F[d] = flt[a + d] /\ N[d] = nm[x + d]
      BY <1>6, <2>1
    <3> QED BY <3>1, <3>2, <3>3
  <2> QED BY <1>2, <1>3, <2>1, <2>2, SeqEqual
<1> QED BY <1>7, <1>8 DEF a, x, F, N

(* At the begin of a level, what is left of it is the level.               *)
LEMMA LevelFitsIs ==
  ASSUME NEW C, NEW flt \in Seq(C), NEW nm \in Seq(C), CorrectFilter(flt),
         NEW q \in 0 .. Depth(flt), q \in 0 .. Depth(nm)
  PROVE  LevelFits(flt, nm, q) <=>
           Here(flt, nm, Separator(flt, q) + 1, Separator(nm, q) + 1, q)
<1> DEFINE a == Separator(flt, q)
           b == Separator(flt, q + 1)
<1>0. Len(flt) \in Nat /\ a \in 0 .. Len(flt) /\ b \in 1 .. Len(flt) + 1 /\ a < b
  BY BoundsOfLevel, LenProperties
<1>1. Level(flt, q) = Level(nm, q) <=> SameRest(flt, nm, a + 1, Separator(nm, q) + 1, q)
  BY SameLevel
<1>2. \A c : Level(flt, q) = <<c>> <=> b = a + 2 /\ flt[a + 1] = c
  BY LevelOfOne
<1>3. b = a + 2 => a + 1 < b
  BY <1>0, SMT
<1>4. ASSUME Level(flt, q) = <<"+">> \/ (Open(flt) /\ q = Depth(flt))
      PROVE  a + 1 < b /\ Wildcard(flt, a + 1)
  <2>1. Level(flt, q) = <<"+">> \/ Level(flt, q) = <<"#">>
    BY <1>4, OpenIs
  <2> QED BY <1>2, <1>3, <2>1 DEF Wildcard
<1>5. ASSUME a + 1 < b, Wildcard(flt, a + 1)
      PROVE  Level(flt, q) = <<"+">> \/ (Open(flt) /\ q = Depth(flt))
  <2>1. a + 1 \in 1 .. Len(flt) /\ a < a + 1 /\ a + 1 <= b
    BY <1>0, <1>5, SMT
  <2>2. a + 1 + 1 = b /\ (flt[a + 1] = "#" => q = Depth(flt) /\ a + 1 = Len(flt))
    BY <1>5, <2>1, WildcardAt
  <2>3. b = a + 2
    BY <1>0, <2>2, SMT
  <2>4. flt[a + 1] = "+" \/ flt[a + 1] = "#"
    BY <1>5 DEF Wildcard
  <2>5. CASE flt[a + 1] = "+"
    BY <1>2, <2>3, <2>5
  <2>6. CASE flt[a + 1] = "#"
    <3>1. Level(flt, q) = <<"#">>
      BY <1>2, <2>3, <2>6
    <3> QED BY <2>2, <2>6, <3>1, OpenIs
  <2> QED BY <2>4, <2>5, <2>6
<1> HIDE DEF a, b
<1>6. Here(flt, nm, a + 1, Separator(nm, q) + 1, q) <=>
        \/ SameRest(flt, nm, a + 1, Separator(nm, q) + 1, q)
        \/ a + 1 < b /\ Wildcard(flt, a + 1)
  BY DEF Here, b
<1> QED BY <1>1, <1>4, <1>5, <1>6 DEF LevelFits, a

Rest(flt, nm, i, j, k) ==
  /\ DepthFits(flt, nm)
  /\ Here(flt, nm, i, j, k)
  /\ \A q \in k + 1 .. Depth(flt) : LevelFits(flt, nm, q)

(* The pointers are in the same level of both texts, and at its begin      *)
(* together.                                                               *)
InLevel(flt, nm, i, j, k) ==
  /\ k \in 0 .. Depth(flt) /\ k \in 0 .. Depth(nm)
  /\ i \in 1 .. Len(flt) + 1 /\ j \in 1 .. Len(nm) + 1
  /\ Separator(flt, k) < i /\ i <= Separator(flt, k + 1)
  /\ Separator(nm, k) < j /\ j <= Separator(nm, k + 1)
  /\ i = Separator(flt, k) + 1 => j = Separator(nm, k) + 1

(* A wildcard meets a character of the name.                               *)
LEMMA WildcardMeets ==
  ASSUME NEW C, NEW flt \in Seq(C), NEW nm \in Seq(C), CorrectFilter(flt), CorrectName(nm),
         NEW i \in 1 .. Len(flt), NEW j, NEW k, InLevel(flt, nm, i, j, k), Wildcard(flt, i)
  PROVE  /\ i + 1 = Separator(flt, k + 1) /\ i < Separator(flt, k + 1)
         /\ j \in 1 .. Len(nm) /\ j < Separator(nm, k + 1) /\ nm[j] # "/"
         /\ flt[i] = "#" => k = Depth(flt) /\ i = Len(flt)
<1>1. /\ k \in 0 .. Depth(flt) /\ k \in 0 .. Depth(nm)
      /\ Separator(flt, k) < i /\ i <= Separator(flt, k + 1)
      /\ i = Separator(flt, k) + 1 => j = Separator(nm, k) + 1
  BY DEF InLevel
<1>2. /\ k # 0 /\ i = Separator(flt, k) + 1 /\ i + 1 = Separator(flt, k + 1)
      /\ flt[i] = "#" => k = Depth(flt) /\ i = Len(flt)
  BY <1>1, WildcardAt
<1>3. k \in 1 .. Depth(nm)
  <2>1. Depth(nm) \in Nat
    BY SeparatorFacts
  <2> QED BY <1>1, <1>2, <2>1, SMT
<1>4. j = Separator(nm, k) + 1
  BY <1>1, <1>2
<1>5. /\ j < Separator(nm, k + 1)
      /\ j \in 1 .. Len(nm)
      /\ nm[j] # "/"
  BY <1>3, <1>4, NameLevel
<1>6. i < Separator(flt, k + 1)
  <2>1. Len(flt) \in Nat
    BY LenProperties
  <2>2. i \in Nat
    BY <2>1, SMT
  <2> QED BY <1>2, <2>2, SMT
<1> QED BY <1>2, <1>5, <1>6

(* Where the separators of the two texts are, seen from the pointers.      *)
LEMMA AtSeparator ==
  ASSUME NEW C, NEW s \in Seq(C), NEW k \in 0 .. Depth(s), NEW i \in 1 .. Len(s),
         Separator(s, k) < i, i <= Separator(s, k + 1)
  PROVE  /\ s[i] = "/" <=> i = Separator(s, k + 1)
         /\ i = Separator(s, k + 1) => k # Depth(s) /\ k + 1 \in 0 .. Depth(s)
         /\ i # Separator(s, k + 1) => i < Separator(s, k + 1)
<1>1. Len(s) \in Nat /\ Depth(s) \in Nat /\ DOMAIN s = 1 .. Len(s)
  BY SeparatorFacts, LenProperties
<1>2. /\ Separator(s, k + 1) \in 1 .. Len(s) + 1
      /\ Separator(s, k + 1) = Len(s) + 1 <=> k = Depth(s)
      /\ k # Depth(s) => Separator(s, k + 1) \in Separators(s)
      /\ \A y \in Separators(s) : ~(Separator(s, k) < y /\ y < Separator(s, k + 1))
  BY BoundsOfLevel
<1>3. i \in Separators(s) <=> s[i] = "/"
  BY <1>1 DEF Separators
<1>4. i # Separator(s, k + 1) => i < Separator(s, k + 1)
  <2>1. Len(s) \in Nat
    BY <1>1
  <2>2. i \in Nat /\ Separator(s, k + 1) \in Nat
    BY <1>2, <2>1, SMT
  <2> QED BY <2>2, SMT
<1>5. i = Separator(s, k + 1) => k # Depth(s) /\ k + 1 \in 0 .. Depth(s)
  <2>0. Len(s) \in Nat /\ Depth(s) \in Nat
    BY <1>1
  <2>1. i # Len(s) + 1
    BY <2>0, SMT
  <2>2. i = Separator(s, k + 1) => k # Depth(s)
    BY <1>2, <2>1
  <2>3. k # Depth(s) => k + 1 \in 0 .. Depth(s)
    BY <2>0, SMT
  <2> QED BY <2>2, <2>3
<1>6. i \in Separators(s) => ~(i < Separator(s, k + 1))
  BY <1>2
<1> QED BY <1>2, <1>3, <1>4, <1>5, <1>6

(* How a round changes what is left.                                       *)
LEMMA RestAtEndOfFilter ==
  ASSUME NEW C, NEW flt \in Seq(C), NEW nm \in Seq(C), CorrectFilter(flt), ~Open(flt),
         NEW i, i = Len(flt) + 1, NEW j, NEW k, InLevel(flt, nm, i, j, k)
  PROVE  Rest(flt, nm, i, j, k) <=> j = Len(nm) + 1
<1>1. Len(flt) \in Nat /\ Len(nm) \in Nat /\ Depth(flt) \in Nat /\ Depth(nm) \in Nat
  BY SeparatorFacts
<1>2. /\ k \in 0 .. Depth(flt) /\ k \in 0 .. Depth(nm)
      /\ i <= Separator(flt, k + 1)
      /\ j \in 1 .. Len(nm) + 1 /\ j <= Separator(nm, k + 1)
  BY DEF InLevel
<1>3. /\ Separator(flt, k + 1) \in 1 .. Len(flt) + 1
      /\ Separator(flt, k + 1) = Len(flt) + 1 <=> k = Depth(flt)
  BY <1>2, BoundsOfLevel
<1>4. /\ Separator(nm, k + 1) \in 1 .. Len(nm) + 1
      /\ Separator(nm, k + 1) = Len(nm) + 1 <=> k = Depth(nm)
  BY <1>2, BoundsOfLevel
<1>5. Separator(flt, k + 1) = i /\ k = Depth(flt)
  BY <1>1, <1>2, <1>3, SMT
<1>6. i \in Nat /\ j \in Nat /\ Separator(nm, k + 1) \in Nat
  BY <1>1, <1>2, <1>4, SMT
<1>7. Here(flt, nm, i, j, k) <=> j = Separator(nm, k + 1)
  <2>1. ~(i < Separator(flt, k + 1))
    BY <1>5, <1>6, SMT
  <2>2. SameRest(flt, nm, i, j, k) <=>
          i - i = Separator(nm, k + 1) - j /\ \A d \in 0 .. i - i - 1 : flt[i + d] = nm[j + d]
    BY <1>5 DEF SameRest
  <2>3. i - i = 0 /\ 0 .. 0 - 1 = {}
    BY <1>6, SMT
  <2>4. 0 = Separator(nm, k + 1) - j <=> j = Separator(nm, k + 1)
    BY <1>6, SMT
  <2> QED BY <2>1, <2>2, <2>3, <2>4 DEF Here
<1>8. k + 1 .. Depth(flt) = {}
  BY <1>1, <1>5, SMT
<1>9. DepthFits(flt, nm) <=> k = Depth(nm)
  BY <1>5 DEF DepthFits
<1>10. j = Len(nm) + 1 => Separator(nm, k + 1) = Len(nm) + 1
  BY <1>1, <1>2, <1>4, SMT
<1> QED BY <1>4, <1>7, <1>8, <1>9, <1>10 DEF Rest

LEMMA RestAtEndOfName ==
  ASSUME NEW C, NEW flt \in Seq(C), NEW nm \in Seq(C), CorrectFilter(flt), CorrectName(nm),
         NEW i \in 1 .. Len(flt), NEW j, j = Len(nm) + 1, NEW k, InLevel(flt, nm, i, j, k)
  PROVE  ~Rest(flt, nm, i, j, k)
<1>1. Len(flt) \in Nat /\ Len(nm) \in Nat /\ Depth(flt) \in Nat /\ Depth(nm) \in Nat
  BY SeparatorFacts
<1>2. /\ k \in 0 .. Depth(flt) /\ k \in 0 .. Depth(nm)
      /\ Separator(flt, k) < i /\ i <= Separator(flt, k + 1) /\ j <= Separator(nm, k + 1)
  BY DEF InLevel
<1>3. /\ Separator(nm, k + 1) \in 1 .. Len(nm) + 1
      /\ Separator(nm, k + 1) = Len(nm) + 1 <=> k = Depth(nm)
  BY <1>2, BoundsOfLevel
<1>4. Separator(nm, k + 1) = j /\ k = Depth(nm)
  BY <1>1, <1>2, <1>3, SMT
<1>5. ~Wildcard(flt, i)
  <2>1. j \notin 1 .. Len(nm)
    BY <1>1, SMT
  <2> QED BY <2>1, WildcardMeets
<1>6. ASSUME SameRest(flt, nm, i, j, k) PROVE ~DepthFits(flt, nm)
  <2>1. Separator(flt, k + 1) - i = j - j
    BY <1>4, <1>6 DEF SameRest
  <2>2. Separator(flt, k + 1) \in 1 .. Len(flt) + 1
    BY <1>2, BoundsOfLevel
  <2>3. i = Separator(flt, k + 1)
    BY <1>1, <2>1, <2>2, SMT
  <2>4. k + 1 \in 0 .. Depth(flt)
    BY <1>2, <2>3, AtSeparator
  <2>5. ~(Depth(nm) >= Depth(flt)) /\ Depth(nm) # Depth(flt)
    BY <1>1, <1>4, <2>4, SMT
  <2> QED BY <2>5 DEF DepthFits
<1> QED BY <1>5, <1>6 DEF Rest, Here

LEMMA RestAfterBreak ==
  ASSUME NEW C, NEW flt \in Seq(C), NEW nm \in Seq(C), CorrectFilter(flt), CorrectName(nm),
         NEW i \in 1 .. Len(flt), NEW j \in 1 .. Len(nm), NEW k, InLevel(flt, nm, i, j, k),
         (nm[j] = "/" /\ flt[i] # "/") \/ flt[i] \notin {"+", "#", nm[j]}
  PROVE  ~Rest(flt, nm, i, j, k)
<1>1. Len(flt) \in Nat /\ Len(nm) \in Nat
  BY LenProperties
<1>2. /\ k \in 0 .. Depth(flt) /\ k \in 0 .. Depth(nm)
      /\ Separator(flt, k) < i /\ i <= Separator(flt, k + 1)
      /\ Separator(nm, k) < j /\ j <= Separator(nm, k + 1)
  BY DEF InLevel
<1>3. /\ flt[i] = "/" <=> i = Separator(flt, k + 1)
      /\ i # Separator(flt, k + 1) => i < Separator(flt, k + 1)
  BY <1>2, AtSeparator
<1>4. nm[j] = "/" <=> j = Separator(nm, k + 1)
  BY <1>2, AtSeparator
<1>5. ~Wildcard(flt, i)
  <2>1. CASE nm[j] = "/" /\ flt[i] # "/"
    BY <2>1, WildcardMeets
  <2>2. CASE flt[i] \notin {"+", "#", nm[j]}
    BY <2>2 DEF Wildcard
  <2> QED BY <2>1, <2>2
<1>6. flt[i] # nm[j]
  BY Zenon
<1>7. Separator(flt, k + 1) \in 1 .. Len(flt) + 1 /\ Separator(nm, k + 1) \in 1 .. Len(nm) + 1
  BY <1>2, BoundsOfLevel
<1>8. ASSUME SameRest(flt, nm, i, j, k) PROVE FALSE
  <2>1. /\ Separator(flt, k + 1) - i = Separator(nm, k + 1) - j
        /\ \A d \in 0 .. Separator(flt, k + 1) - i - 1 : flt[i + d] = nm[j + d]
    BY <1>8 DEF SameRest
  <2>2. i = Separator(flt, k + 1) <=> j = Separator(nm, k + 1)
    BY <1>1, <1>7, <2>1, SMT
  <2>3. i < Separator(flt, k + 1)
    BY <1>3, <1>4, <1>6, <2>2
  <2>4. 0 \in 0 .. Separator(flt, k + 1) - i - 1 /\ i + 0 = i /\ j + 0 = j
    BY <1>1, <1>7, <2>3, SMT
  <2> QED BY <1>6, <2>1, <2>4
<1> QED BY <1>5, <1>8 DEF Rest, Here

(* "+" swallows the level that the name is in.                             *)
LEMMA RestAfterPlus ==
  ASSUME NEW C, NEW flt \in Seq(C), NEW nm \in Seq(C), CorrectFilter(flt), CorrectName(nm),
         NEW i \in 1 .. Len(flt), NEW j \in 1 .. Len(nm), NEW k, InLevel(flt, nm, i, j, k),
         flt[i] = "+"
  PROVE  /\ InLevel(flt, nm, i + 1, LevelEnd(nm, j) + 1, k)
         /\ Rest(flt, nm, i, j, k) <=> Rest(flt, nm, i + 1, LevelEnd(nm, j) + 1, k)
<1>1. Len(flt) \in Nat /\ Len(nm) \in Nat
  BY LenProperties
<1>2. /\ k \in 0 .. Depth(flt) /\ k \in 0 .. Depth(nm)
      /\ Separator(flt, k) < i /\ Separator(nm, k) < j
  BY DEF InLevel
<1>3. Wildcard(flt, i)
  BY DEF Wildcard
<1>4. i + 1 = Separator(flt, k + 1) /\ i < Separator(flt, k + 1) /\ j < Separator(nm, k + 1)
  BY <1>3, WildcardMeets
<1>5. LevelEnd(nm, j) + 1 = Separator(nm, k + 1)
  BY <1>2, <1>4, LevelEndIs
<1>6. /\ Separator(flt, k) \in 0 .. Len(flt) /\ Separator(flt, k + 1) \in 1 .. Len(flt) + 1
      /\ Separator(nm, k) \in 0 .. Len(nm) /\ Separator(nm, k + 1) \in 1 .. Len(nm) + 1
      /\ Separator(nm, k) < Separator(nm, k + 1)
  <2>1. Separator(flt, k) \in 0 .. Len(flt) /\ Separator(flt, k + 1) \in 1 .. Len(flt) + 1
    BY <1>2, BoundsOfLevel
  <2>2. /\ Separator(nm, k) \in 0 .. Len(nm) /\ Separator(nm, k + 1) \in 1 .. Len(nm) + 1
        /\ Separator(nm, k) < Separator(nm, k + 1)
    BY <1>2, BoundsOfLevel
  <2> QED BY <2>1, <2>2
<1> DEFINE x == Separator(flt, k + 1)
           y == Separator(nm, k + 1)
<1>7. x # Separator(flt, k) + 1 /\ Separator(flt, k) < x /\ x <= x /\ y <= y
  BY <1>1, <1>2, <1>4, <1>6, SMT
<1>8. InLevel(flt, nm, x, y, k)
  BY <1>2, <1>6, <1>7 DEF InLevel
<1>9. SameRest(flt, nm, x, y, k)
  <2>1. x - x = y - y /\ 0 .. x - x - 1 = {}
    BY <1>1, <1>6, SMT
  <2> QED BY <2>1 DEF SameRest
<1>10. Here(flt, nm, i, j, k) /\ Here(flt, nm, x, y, k)
  BY <1>3, <1>4, <1>9 DEF Here
<1> QED BY <1>4, <1>5, <1>8, <1>10 DEF Rest

(* "#" is the last level of the filter and swallows the rest of the name.  *)
LEMMA RestAfterHash ==
  ASSUME NEW C, NEW flt \in Seq(C), NEW nm \in Seq(C), CorrectFilter(flt), CorrectName(nm),
         NEW i \in 1 .. Len(flt), NEW j, NEW k, InLevel(flt, nm, i, j, k),
         flt[i] = "#"
  PROVE  i = Len(flt) /\ Rest(flt, nm, i, j, k)
<1>1. Depth(flt) \in Nat /\ Depth(nm) \in Nat /\ Len(flt) \in Nat
  BY SeparatorFacts
<1>2. k \in 0 .. Depth(nm)
  BY DEF InLevel
<1>3. Wildcard(flt, i)
  BY DEF Wildcard
<1>4. i < Separator(flt, k + 1) /\ k = Depth(flt) /\ i = Len(flt)
  BY <1>3, WildcardMeets
<1>5. Depth(nm) >= Depth(flt) /\ k + 1 .. Depth(flt) = {} /\ i >= 1
  BY <1>1, <1>2, <1>4, SMT
<1>6. Open(flt)
  BY <1>4, <1>5 DEF Open
<1> QED BY <1>3, <1>4, <1>5, <1>6 DEF Rest, DepthFits, Here

(* Both texts go on to their next level.                                   *)
LEMMA RestAfterSeparator ==
  ASSUME NEW C, NEW flt \in Seq(C), NEW nm \in Seq(C), CorrectFilter(flt), CorrectName(nm),
         NEW i \in 1 .. Len(flt), NEW j \in 1 .. Len(nm), NEW k, InLevel(flt, nm, i, j, k),
         flt[i] = "/", nm[j] = "/"
  PROVE  /\ InLevel(flt, nm, i + 1, j + 1, k + 1)
         /\ Rest(flt, nm, i, j, k) <=> Rest(flt, nm, i + 1, j + 1, k + 1)
<1>1. Len(flt) \in Nat /\ Len(nm) \in Nat /\ Depth(flt) \in Nat
  BY SeparatorFacts
<1>2. /\ k \in 0 .. Depth(flt) /\ k \in 0 .. Depth(nm)
      /\ Separator(flt, k) < i /\ i <= Separator(flt, k + 1)
      /\ Separator(nm, k) < j /\ j <= Separator(nm, k + 1)
  BY DEF InLevel
<1>3. i = Separator(flt, k + 1) /\ k + 1 \in 0 .. Depth(flt)
  BY <1>2, AtSeparator
<1>4. j = Separator(nm, k + 1) /\ k + 1 \in 0 .. Depth(nm)
  BY <1>2, AtSeparator
<1>5. Separator(flt, k + 1) < Separator(flt, k + 1 + 1) /\ Separator(flt, k + 1 + 1) \in 1 .. Len(flt) + 1
  BY <1>3, BoundsOfLevel
<1>6. Separator(nm, k + 1) < Separator(nm, k + 1 + 1) /\ Separator(nm, k + 1 + 1) \in 1 .. Len(nm) + 1
  BY <1>4, BoundsOfLevel
<1>7. /\ Separator(flt, k + 1) < i + 1 /\ i + 1 <= Separator(flt, k + 1 + 1)
      /\ Separator(nm, k + 1) < j + 1 /\ j + 1 <= Separator(nm, k + 1 + 1)
      /\ i + 1 \in 1 .. Len(flt) + 1 /\ j + 1 \in 1 .. Len(nm) + 1
  BY <1>1, <1>3, <1>4, <1>5, <1>6, SMT
<1>8. InLevel(flt, nm, i + 1, j + 1, k + 1)
  BY <1>3, <1>4, <1>7 DEF InLevel
<1>9. LevelFits(flt, nm, k + 1) <=> Here(flt, nm, i + 1, j + 1, k + 1)
  BY <1>3, <1>4, LevelFitsIs
<1>10. Here(flt, nm, i, j, k)
  <2>1. i - i = j - j /\ 0 .. i - i - 1 = {}
    BY <1>1, SMT
  <2> QED BY <1>3, <1>4, <2>1 DEF Here, SameRest
<1>11. k + 1 .. Depth(flt) = {k + 1} \cup (k + 1 + 1 .. Depth(flt))
  BY <1>1, <1>3, SMT
<1>12. (\A q \in k + 1 .. Depth(flt) : LevelFits(flt, nm, q)) <=>
         LevelFits(flt, nm, k + 1) /\ \A q \in k + 1 + 1 .. Depth(flt) : LevelFits(flt, nm, q)
  BY <1>11
<1> QED BY <1>8, <1>9, <1>10, <1>12 DEF Rest

(* Both texts go on in their level.                                        *)
LEMMA RestAfterSame ==
  ASSUME NEW C, NEW flt \in Seq(C), NEW nm \in Seq(C), CorrectFilter(flt), CorrectName(nm),
         NEW i \in 1 .. Len(flt), NEW j \in 1 .. Len(nm), NEW k, InLevel(flt, nm, i, j, k),
         flt[i] = nm[j], flt[i] # "/", ~Wildcard(flt, i)
  PROVE  /\ InLevel(flt, nm, i + 1, j + 1, k)
         /\ Rest(flt, nm, i, j, k) <=> Rest(flt, nm, i + 1, j + 1, k)
<1>1. Len(flt) \in Nat /\ Len(nm) \in Nat /\ DOMAIN flt = 1 .. Len(flt)
  BY LenProperties
<1>2. /\ k \in 0 .. Depth(flt) /\ k \in 0 .. Depth(nm)
      /\ Separator(flt, k) < i /\ i <= Separator(flt, k + 1)
      /\ Separator(nm, k) < j /\ j <= Separator(nm, k + 1)
  BY DEF InLevel
<1>3. i < Separator(flt, k + 1)
  BY <1>2, AtSeparator
<1>4. j < Separator(nm, k + 1)
  BY <1>2, AtSeparator
<1>5. Separator(flt, k) \in 0 .. Len(flt) /\ Separator(flt, k + 1) \in 1 .. Len(flt) + 1
  BY <1>2, BoundsOfLevel
<1>6. Separator(nm, k) \in 0 .. Len(nm) /\ Separator(nm, k + 1) \in 1 .. Len(nm) + 1
  BY <1>2, BoundsOfLevel
<1> DEFINE a == Separator(flt, k)
           b == Separator(flt, k + 1)
           x == Separator(nm, k)
           y == Separator(nm, k + 1)
<1>7. /\ a \in Nat /\ b \in Nat /\ x \in Nat /\ y \in Nat /\ i \in Nat /\ j \in Nat
      /\ a < i /\ i < b /\ b <= Len(flt) + 1 /\ x < j /\ j < y /\ y <= Len(nm) + 1
  BY <1>1, <1>2, <1>3, <1>4, <1>5, <1>6, SMT
<1>8. InLevel(flt, nm, i + 1, j + 1, k)
  <2> HIDE DEF a, b, x, y
  <2>0. Len(flt) \in Nat /\ Len(nm) \in Nat
    BY <1>1
  <2>1. /\ i + 1 \in 1 .. Len(flt) + 1 /\ j + 1 \in 1 .. Len(nm) + 1
        /\ a < i + 1 /\ i + 1 <= b /\ x < j + 1 /\ j + 1 <= y /\ i + 1 # a + 1
    BY <1>7, <2>0, SMT
  <2> QED BY <1>2, <2>1 DEF InLevel, a, b, x, y
<1>9. ~(i + 1 < b /\ Wildcard(flt, i + 1))
  <2> SUFFICES ASSUME i + 1 < b, Wildcard(flt, i + 1) PROVE FALSE
    OBVIOUS
  <2>0. Len(flt) \in Nat
    BY <1>1
  <2>1. i + 1 \in DOMAIN flt /\ i + 1 - 1 = i
    <3> HIDE DEF a, b, x, y
    <3>1. i + 1 \in 1 .. Len(flt) /\ i + 1 - 1 = i
      BY <1>7, <2>0, SMT
    <3> QED BY <1>1, <3>1
  <2>2. flt[i + 1] \in {"+", "#"}
    BY DEF Wildcard
  <2>3. flt[i + 1 - 1] = "/"
    BY <2>1, <2>2 DEF CorrectFilter
  <2> QED BY <2>1, <2>3
<1>10. SameRest(flt, nm, i, j, k) <=> SameRest(flt, nm, i + 1, j + 1, k)
  <2>1. SameRest(flt, nm, i, j, k) <=>
          b - i = y - j /\ \A d \in 0 .. b - i - 1 : flt[i + d] = nm[j + d]
    BY DEF SameRest
  <2>2. SameRest(flt, nm, i + 1, j + 1, k) <=>
          b - (i + 1) = y - (j + 1) /\ \A d \in 0 .. b - (i + 1) - 1 : flt[i + 1 + d] = nm[j + 1 + d]
    BY DEF SameRest
  <2> HIDE DEF a, b, x, y
  <2>3. b - i = y - j <=> b - (i + 1) = y - (j + 1)
    BY <1>7, SMT
  <2>4. ASSUME \A d \in 0 .. b - i - 1 : flt[i + d] = nm[j + d],
               NEW d \in 0 .. b - (i + 1) - 1
        PROVE  flt[i + 1 + d] = nm[j + 1 + d]
    <3>1. d + 1 \in 0 .. b - i - 1 /\ i + (d + 1) = i + 1 + d /\ j + (d + 1) = j + 1 + d
      BY <1>7, SMT
    <3>2. flt[i + (d + 1)] = nm[j + (d + 1)]
      BY <2>4, <3>1
    <3> QED BY <3>1, <3>2
  <2>5. ASSUME \A d \in 0 .. b - (i + 1) - 1 : flt[i + 1 + d] = nm[j + 1 + d],
               NEW d \in 0 .. b - i - 1
        PROVE  flt[i + d] = nm[j + d]
    <3>1. CASE d = 0
      <4>1. i + d = i /\ j + d = j
        BY <1>7, <3>1, SMT
      <4> QED BY <4>1
    <3>2. CASE d # 0
      <4>1. d - 1 \in 0 .. b - (i + 1) - 1 /\ i + 1 + (d - 1) = i + d /\ j + 1 + (d - 1) = j + d
        BY <1>7, <3>2, SMT
      <4>2. flt[i + 1 + (d - 1)] = nm[j + 1 + (d - 1)]
        BY <2>5, <4>1
      <4> QED BY <4>1, <4>2
    <3> QED BY <3>1, <3>2
  <2> QED BY <2>1, <2>2, <2>3, <2>4, <2>5
<1> QED BY <1>8, <1>9, <1>10 DEF Rest, Here

(* What a round of isTopicMatched answers.                                 *)
LEMMA MatchedFromIsRound ==
  ASSUME NEW C, NEW flt \in Seq(C), NEW nm \in Seq(C),
         NEW i \in 1 .. Len(flt) + 1, NEW j \in 1 .. Len(nm) + 1
  PROVE  MatchedFrom(flt, nm)[<<i, j>>] =
           IF i = Len(flt) + 1 \/ j = Len(nm) + 1
           THEN i = Len(flt) + 1 /\ j = Len(nm) + 1
           ELSE MatchedFrom(flt, nm)[<<i + 1, NextChar(flt, i, nm, j)>>]
<1> DEFINE p == <<i, j>>
           M == MatchedFrom(flt, nm)
<1>1. Len(nm) \in Nat
  BY LenProperties
<1>2. p \in Positions(flt, nm) /\ p[1] = i /\ p[2] = j /\ j # 0
  <2>1. j \in 0 .. Len(nm) + 1 /\ j # 0
    BY <1>1, SMT
  <2> QED BY <2>1 DEF Positions
<1>3. (p = <<Len(flt) + 1, Len(nm) + 1>>) <=> (i = Len(flt) + 1 /\ j = Len(nm) + 1)
  OBVIOUS
<1> HIDE DEF p, M
<1>4. M[p] = Round(flt, nm, M, p)
  BY <1>2, MatchedFromUnfolds DEF M
<1>5. Round(flt, nm, M, p) =
        IF p[2] = 0 \/ p[1] = Len(flt) + 1 \/ p[2] = Len(nm) + 1
        THEN p = <<Len(flt) + 1, Len(nm) + 1>>
        ELSE M[<<p[1] + 1, NextChar(flt, p[1], nm, p[2])>>]
  BY RoundIs
<1>6. M[p] = IF i = Len(flt) + 1 \/ j = Len(nm) + 1
             THEN p = <<Len(flt) + 1, Len(nm) + 1>>
             ELSE M[<<i + 1, NextChar(flt, i, nm, j)>>]
  BY <1>2, <1>4, <1>5, Zenon
<1> QED BY <1>3, <1>6 DEF p, M

LEMMA NoMatchAfterBreak ==
  ASSUME NEW C, NEW flt \in Seq(C), NEW nm \in Seq(C), NEW i \in 1 .. Len(flt) + 1
  PROVE  MatchedFrom(flt, nm)[<<i, 0>>] = FALSE
<1> DEFINE p == <<i, 0>>
<1>1. Len(nm) \in Nat
  BY LenProperties
<1>2. 0 \in 0 .. Len(nm) + 1 /\ 0 # Len(nm) + 1
  BY <1>1, SMT
<1>3. p \in Positions(flt, nm) /\ p[2] = 0 /\ p # <<Len(flt) + 1, Len(nm) + 1>>
  BY <1>2 DEF Positions
<1> HIDE DEF p
<1>4. MatchedFrom(flt, nm)[p] = Round(flt, nm, MatchedFrom(flt, nm), p)
  BY <1>3, MatchedFromUnfolds
<1>5. Round(flt, nm, MatchedFrom(flt, nm), p) = (p = <<Len(flt) + 1, Len(nm) + 1>>)
  BY <1>3, RoundIs, Zenon
<1>6. MatchedFrom(flt, nm)[p] = FALSE
  BY <1>3, <1>4, <1>5
<1> QED BY <1>6 DEF p

(* One round: what the loop answers from here is what is left to match, if *)
(* this is so one character of the filter further on.                      *)
LEMMA RoundMatchesRest ==
  ASSUME NEW C, NEW flt \in Seq(C), NEW nm \in Seq(C), CorrectFilter(flt), CorrectName(nm),
         NEW i \in 1 .. Len(flt), NEW j \in 1 .. Len(nm) + 1, NEW k, InLevel(flt, nm, i, j, k),
         i = Len(flt) => flt[i] = "#" \/ ~Open(flt),
         i + 1 <= Len(flt) \/ ~Open(flt) =>
           \A y \in 1 .. Len(nm) + 1 : \A q : InLevel(flt, nm, i + 1, y, q) =>
             (MatchedFrom(flt, nm)[<<i + 1, y>>] <=> Rest(flt, nm, i + 1, y, q))
  PROVE  MatchedFrom(flt, nm)[<<i, j>>] <=> Rest(flt, nm, i, j, k)
<1> DEFINE M == MatchedFrom(flt, nm)
           next == NextChar(flt, i, nm, j)
<1>1. Len(flt) \in Nat /\ Len(nm) \in Nat
  BY LenProperties
<1>2. /\ i \in 1 .. Len(flt) + 1 /\ i + 1 \in 1 .. Len(flt) + 1 /\ i # Len(flt) + 1
      /\ i # Len(flt) => i + 1 <= Len(flt)
  BY <1>1, SMT
<1>3. M[<<i, j>>] = IF i = Len(flt) + 1 \/ j = Len(nm) + 1
                    THEN i = Len(flt) + 1 /\ j = Len(nm) + 1
                    ELSE M[<<i + 1, next>>]
  BY <1>2, MatchedFromIsRound
<1>4. flt[i] # "#" =>
        \A y \in 1 .. Len(nm) + 1 : \A q : InLevel(flt, nm, i + 1, y, q) =>
          (M[<<i + 1, y>>] <=> Rest(flt, nm, i + 1, y, q))
  BY <1>2
<1>5. CASE j = Len(nm) + 1
  <2>1. ~Rest(flt, nm, i, j, k)
    BY <1>5, RestAtEndOfName
  <2> QED BY <1>2, <1>3, <1>5, <2>1
<1>6. CASE j # Len(nm) + 1
  <2>1. j \in 1 .. Len(nm)
    BY <1>1, <1>6, SMT
  <2>2. M[<<i, j>>] = M[<<i + 1, next>>]
    BY <1>2, <1>3, <1>6
  <2>3. next = IF (nm[j] = "/" /\ flt[i] # "/") \/ flt[i] \notin {"+", "#", nm[j]}
               THEN 0
               ELSE CASE flt[i] = "+" -> LevelEnd(nm, j) + 1
                      [] flt[i] = "#" -> Len(nm) + 1
                      [] OTHER        -> j + 1
    BY DEF NextChar
  <2>4. next \in 0 .. Len(nm) + 1
    BY <2>1, NextCharType
  <2>5. next # 0 => next \in 1 .. Len(nm) + 1
    <3> HIDE DEF next
    <3> QED BY <1>1, <2>4, SMT
  <2> HIDE DEF M, next
  <2>6. CASE (nm[j] = "/" /\ flt[i] # "/") \/ flt[i] \notin {"+", "#", nm[j]}
    <3>1. next = 0
      BY <2>3, <2>6, Zenon
    <3>2. M[<<i + 1, 0>>] = FALSE
      BY <1>2, NoMatchAfterBreak DEF M
    <3>3. ~Rest(flt, nm, i, j, k)
      BY <2>1, <2>6, RestAfterBreak, Zenon
    <3> QED BY <2>2, <3>1, <3>2, <3>3 DEF M
  <2>7. CASE ~((nm[j] = "/" /\ flt[i] # "/") \/ flt[i] \notin {"+", "#", nm[j]})
    <3>1. CASE flt[i] = "+"
      <4>1. next = LevelEnd(nm, j) + 1
        BY <2>3, <2>7, <3>1
      <4>2. LevelEnd(nm, j) + 1 # 0
        <5>1. LevelEnd(nm, j) \in j .. Len(nm)
          BY <2>1, LevelEndFacts
        <5> QED BY <1>1, <2>1, <5>1, SMT
      <4>3. InLevel(flt, nm, i + 1, next, k) /\ (Rest(flt, nm, i, j, k) <=> Rest(flt, nm, i + 1, next, k))
        BY <2>1, <3>1, <4>1, RestAfterPlus
      <4>4. M[<<i + 1, next>>] <=> Rest(flt, nm, i + 1, next, k)
        BY <1>4, <2>5, <3>1, <4>1, <4>2, <4>3
      <4> QED BY <2>2, <4>3, <4>4 DEF M
    <3>2. CASE flt[i] = "#"
      <4>1. next = Len(nm) + 1
        BY <2>3, <2>7, <3>2
      <4>2. i = Len(flt) /\ Rest(flt, nm, i, j, k)
        BY <3>2, RestAfterHash
      <4>3. Len(nm) + 1 \in 1 .. Len(nm) + 1
        BY <1>1, SMT
      <4>4. M[<<i + 1, next>>] = TRUE
        BY <1>2, <4>1, <4>2, <4>3, MatchedFromIsRound DEF M
      <4> QED BY <2>2, <4>2, <4>4 DEF M
    <3>3. CASE flt[i] # "+" /\ flt[i] # "#"
      <4>1. next = j + 1 /\ flt[i] = nm[j]
        BY <2>3, <2>7, <3>3
      <4>2. ~Wildcard(flt, i)
        BY <3>3 DEF Wildcard
      <4>3. j + 1 \in 1 .. Len(nm) + 1
        BY <1>1, <2>1, SMT
      <4>4. CASE flt[i] = "/"
        <5>1. /\ InLevel(flt, nm, i + 1, j + 1, k + 1)
              /\ Rest(flt, nm, i, j, k) <=> Rest(flt, nm, i + 1, j + 1, k + 1)
          BY <2>1, <4>1, <4>4, RestAfterSeparator
        <5>2. M[<<i + 1, j + 1>>] <=> Rest(flt, nm, i + 1, j + 1, k + 1)
          BY <1>4, <3>3, <4>3, <5>1
        <5> QED BY <2>2, <4>1, <5>1, <5>2 DEF M
      <4>5. CASE flt[i] # "/"
        <5>1. /\ InLevel(flt, nm, i + 1, j + 1, k)
              /\ Rest(flt, nm, i, j, k) <=> Rest(flt, nm, i + 1, j + 1, k)
          BY <2>1, <4>1, <4>2, <4>5, RestAfterSame
        <5>2. M[<<i + 1, j + 1>>] <=> Rest(flt, nm, i + 1, j + 1, k)
          BY <1>4, <3>3, <4>3, <5>1
        <5> QED BY <2>2, <4>1, <5>1, <5>2 DEF M
      <4> QED BY <4>4, <4>5
    <3> QED BY <3>1, <3>2, <3>3
  <2> QED BY <2>6, <2>7
<1> QED BY <1>5, <1>6

LEMMA MatchesRest ==
  ASSUME NEW C, NEW flt \in Seq(C), NEW nm \in Seq(C), CorrectFilter(flt), CorrectName(nm)
  PROVE  \A i \in 1 .. Len(flt) + 1 : i <= Len(flt) \/ ~Open(flt) =>
           \A j \in 1 .. Len(nm) + 1 : \A k : InLevel(flt, nm, i, j, k) =>
             (MatchedFrom(flt, nm)[<<i, j>>] <=> Rest(flt, nm, i, j, k))
<1> DEFINE Matches(i) ==
             \A j \in 1 .. Len(nm) + 1 : \A k : InLevel(flt, nm, i, j, k) =>
               (MatchedFrom(flt, nm)[<<i, j>>] <=> Rest(flt, nm, i, j, k))
           T == {i \in 1 .. Len(flt) + 1 : i <= Len(flt) \/ ~Open(flt) => Matches(i)}
           m == Len(flt) + 1
<1>1. Len(flt) \in Nat
  BY LenProperties
<1>2. m \in T
  <2>1. m \in 1 .. Len(flt) + 1 /\ ~(m <= Len(flt))
    BY <1>1, SMT
  <2>2. ASSUME ~Open(flt) PROVE Matches(m)
    <3>1. ASSUME NEW j \in 1 .. Len(nm) + 1, NEW k, InLevel(flt, nm, m, j, k)
          PROVE  MatchedFrom(flt, nm)[<<m, j>>] <=> Rest(flt, nm, m, j, k)
      <4>1. MatchedFrom(flt, nm)[<<m, j>>] = (m = Len(flt) + 1 /\ j = Len(nm) + 1)
        BY <2>1, MatchedFromIsRound
      <4>2. Rest(flt, nm, m, j, k) <=> j = Len(nm) + 1
        BY <2>2, <3>1, RestAtEndOfFilter
      <4> QED BY <4>1, <4>2
    <3> QED BY <3>1
  <2> HIDE DEF Matches, m
  <2> QED BY <2>1, <2>2
<1>3. ASSUME NEW x \in 2 .. m, x \in T
      PROVE  x - 1 \in T
  <2> DEFINE i == x - 1
  <2>1. i \in 1 .. Len(flt) /\ i \in 1 .. Len(flt) + 1 /\ i + 1 = x
    BY <1>1, SMT
  <2>2. i + 1 <= Len(flt) \/ ~Open(flt) => Matches(i + 1)
    BY <1>3, <2>1
  <2> HIDE DEF i
  <2>3. i = Len(flt) => flt[i] = "#" \/ ~Open(flt)
    <3>1. i >= 1
      BY <1>1, <2>1, SMT
    <3> QED BY <3>1 DEF Open
  <2>4. Matches(i)
    BY <2>1, <2>2, <2>3, RoundMatchesRest
  <2> HIDE DEF Matches
  <2>5. i \in T
    BY <2>1, <2>4
  <2> QED BY <2>5 DEF i
<1>4. m \in Nat
  BY <1>1, SMT
<1> HIDE DEF Matches, T
<1>5. 1 .. m \subseteq T
  BY <1>2, <1>3, <1>4, Downward
<1> QED BY <1>5 DEF T, Matches

(* isTopicMatched decides what the levels of the two texts mean.           *)
LEMMA MatchedAsMeant ==
  ASSUME NEW C, NEW flt \in Seq(C), NEW nm \in Seq(C), CorrectFilter(flt), CorrectName(nm)
  PROVE  isTopicMatched(flt, nm) <=> MatchedByLevels(flt, nm)
<1>1. Len(flt) \in Nat /\ Len(nm) \in Nat /\ Depth(flt) \in Nat /\ Depth(nm) \in Nat
  BY SeparatorFacts
<1>2. Separator(flt, 0) = 0 /\ Separator(nm, 0) = 0 /\ 0 \in 0 .. Depth(flt) /\ 0 \in 0 .. Depth(nm)
  <2>1. Separator(flt, 0) = 0 /\ Separator(nm, 0) = 0
    BY DEF Separator
  <2> QED BY <1>1, <2>1, SMT
<1>3. 1 \in 1 .. Len(flt) + 1 /\ 1 \in 1 .. Len(nm) + 1
  BY <1>1, SMT
<1>4. 1 <= Len(flt) \/ ~Open(flt)
  BY <1>1, SMT DEF Open
<1>5. InLevel(flt, nm, 1, 1, 0)
  <2>1. Separator(flt, 0 + 1) \in 1 .. Len(flt) + 1
    BY <1>2, BoundsOfLevel
  <2>2. Separator(nm, 0 + 1) \in 1 .. Len(nm) + 1
    BY <1>2, BoundsOfLevel
  <2>3. 0 < 1 /\ 1 <= Separator(flt, 0 + 1) /\ 1 <= Separator(nm, 0 + 1) /\ 0 + 1 = 1
    BY <1>1, <2>1, <2>2, SMT
  <2> QED BY <1>2, <1>3, <2>3 DEF InLevel
<1>6. isTopicMatched(flt, nm) <=> Rest(flt, nm, 1, 1, 0)
  BY <1>3, <1>4, <1>5, MatchesRest DEF isTopicMatched
<1>7. LevelFits(flt, nm, 0) <=> Here(flt, nm, 1, 1, 0)
  <2>1. LevelFits(flt, nm, 0) <=> Here(flt, nm, Separator(flt, 0) + 1, Separator(nm, 0) + 1, 0)
    BY <1>2, LevelFitsIs
  <2>2. 0 + 1 = 1
    OBVIOUS
  <2> QED BY <1>2, <2>1, <2>2
<1>8. 0 .. Depth(flt) = {0} \cup (0 + 1 .. Depth(flt))
  BY <1>1, SMT
<1>9. (\A q \in 0 .. Depth(flt) : LevelFits(flt, nm, q)) <=>
        LevelFits(flt, nm, 0) /\ \A q \in 0 + 1 .. Depth(flt) : LevelFits(flt, nm, q)
  BY <1>8
<1>10. MatchedByLevels(flt, nm) <=>
         DepthFits(flt, nm) /\ \A q \in 0 .. Depth(flt) : LevelFits(flt, nm, q)
  BY MeaningIs
<1> QED BY <1>6, <1>7, <1>9, <1>10 DEF Rest

LEMMA SelectedIsMeant ==
  ASSUME NEW C, NEW flt \in Seq(C), NEW nm \in Seq(C), CorrectFilter(flt), CorrectName(nm)
  PROVE  Selected(flt, nm) <=> MatchedByLevels(flt, nm)
<1>1. Depth(flt) \in Nat
  BY SeparatorFacts
<1>2. Depth(flt) >= Depth(flt)
  BY <1>1, SMT
<1>3. MQTTPacket_equals(nm, flt) => MatchedByLevels(flt, nm)
  BY <1>2 DEF MQTTPacket_equals, MatchedByLevels
<1> QED BY <1>3, MatchedAsMeant DEF Selected


(* An entry of the table whose text is a correct filter selects exactly    *)
(* the names that its text means, level by level: for texts and names of   *)
(* any length (MQTTClient.c:110-138).                                      *)
THEOREM DeliverySelectsAsMeant == DeliverySpec => []SelectedAsMeant
<1>1. DeliveryInv => SelectedAsMeant
  <2> SUFFICES ASSUME DeliveryTypeOK, CorrectFilter(msgTopic), CorrectName(name)
               PROVE  Selected(msgTopic, name) <=> MatchedByLevels(msgTopic, name)
    BY DEF DeliveryInv, SelectedAsMeant
  <2>1. msgTopic \in Seq(STRING)
    BY TextAssumption DEF DeliveryTypeOK
  <2>2. name \in Seq(STRING)
    <3>1. Nobody \in Seq(STRING)
      BY DEF Nobody
    <3> QED BY <3>1, TextAssumption DEF DeliveryTypeOK
  <2> QED BY <2>1, <2>2, SelectedIsMeant
<1> QED BY DeliverySafe, <1>1, PTL
=============================================================================
