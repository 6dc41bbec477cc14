--------------------------- MODULE RingBufProofs ---------------------------
(***************************************************************************)
(* Proofs about RingBuf for every length and every set of objects.         *)
(***************************************************************************)
EXTENDS RingBuf, Sequences, SequenceTheorems, TLAPS

(* Stepping an index forward wraps at len, once.                           *)
LEMMA WrapOnce ==
  ASSUME NEW x \in 0 .. 2 * len - 1
  PROVE  x % len = IF x < len THEN x ELSE x - len
<1> USE LenAssumption
<1>1. CASE x < len
  BY <1>1, SMT
<1>2. CASE x >= len
  <2>1. x - len \in 0 .. len - 1
    BY <1>2, SMT
  <2>2. x = 1 * len + (x - len)
    BY SMT
  <2> QED BY <2>1, <2>2, <1>2, SMTT(30)
<1> QED BY <1>1, <1>2, SMT

(* Two of the first len positions from any start are different slots.      *)
LEMMA SlotsDiffer ==
  ASSUME NEW s \in Index, NEW i \in Index, NEW j \in Index, i # j
  PROVE  /\ (s + i) % len \in Index
         /\ (s + i) % len # (s + j) % len
<1> USE LenAssumption DEF Index
<1>1. s + i \in 0 .. 2 * len - 1 /\ s + j \in 0 .. 2 * len - 1
  BY SMT
<1>2. (s + i) % len = IF s + i < len THEN s + i ELSE s + i - len
  BY <1>1, WrapOnce
<1>3. (s + j) % len = IF s + j < len THEN s + j ELSE s + j - len
  BY <1>1, WrapOnce
<1> QED BY <1>2, <1>3, SMT

(* Advancing an index that sits k slots after s lands k + 1 slots after s. *)
LEMMA NextSlot ==
  ASSUME NEW s \in Index, NEW k \in 0 .. len
  PROVE  /\ (((s + k) % len) + 1) % len = (s + k + 1) % len
         /\ (((s + 1) % len) + k) % len = (s + k + 1) % len
         /\ (s + k) % len \in Index
<1> USE LenAssumption DEF Index
<1> DEFINE W(x) == IF x < len THEN x ELSE x - len
<1>1. CASE k = len
  <2>1. (s + k) % len = s
    <3>1. s + k \in 0 .. 2 * len - 1
      BY <1>1, SMT
    <3> QED BY <3>1, <1>1, WrapOnce, SMT
  <2>2. s + k + 1 = s + 1 + len
    BY <1>1, SMT
  <2>3. (s + 1) % len = W(s + 1)
    <3>1. s + 1 \in 0 .. 2 * len - 1
      BY SMT
    <3> QED BY <3>1, WrapOnce
  <2>4. (s + 1 + len) % len = (s + 1) % len
    <3>1. CASE s + 1 < len
      <4>1. s + 1 + len \in 0 .. 2 * len - 1
        BY <3>1, SMT
      <4> QED BY <4>1, <2>3, <3>1, WrapOnce, SMT
    <3>2. CASE s + 1 = len
      <4>1. s + 1 + len = 2 * len + 0
        BY <3>2, SMT
      <4> QED BY <4>1, <2>3, <3>2, SMTT(30)
    <3> QED BY <3>1, <3>2, SMT
  <2>5. W(s + 1) + k \in 0 .. 2 * len - 1 /\ W(s + 1) \in Index
    BY <1>1, SMT
  <2>6. (W(s + 1) + k) % len = W(s + 1)
    BY <2>5, <1>1, WrapOnce, SMT
  <2> QED BY <2>1, <2>2, <2>3, <2>4, <2>5, <2>6, <1>1, SMT
<1>2. CASE k < len
  <2>1. s + k \in 0 .. 2 * len - 1 /\ s + k + 1 \in 0 .. 2 * len - 1
        /\ s + 1 \in 0 .. 2 * len - 1
    BY <1>2, SMT
  <2>2. /\ (s + k) % len = W(s + k)
        /\ (s + k + 1) % len = W(s + k + 1)
        /\ (s + 1) % len = W(s + 1)
    BY <2>1, WrapOnce
  <2>3. /\ W(s + k) + 1 \in 0 .. 2 * len - 1
        /\ W(s + 1) + k \in 0 .. 2 * len - 1
    BY <1>2, SMT
  <2>4. /\ (W(s + k) + 1) % len = W(W(s + k) + 1)
        /\ (W(s + 1) + k) % len = W(W(s + 1) + k)
    BY <2>3, WrapOnce
  <2>5. /\ W(W(s + k) + 1) = W(s + k + 1)
        /\ W(W(s + 1) + k) = W(s + k + 1)
        /\ W(s + k) \in Index
    BY <1>2, SMT
  <2> QED BY <2>2, <2>4, <2>5
<1> QED BY <1>1, <1>2, SMT

-----------------------------------------------------------------------------
Inv == TypeOK /\ Consistent

(* While there is room, the slot an Add writes is the one elements slots   *)
(* after start, whether or not the buffer is empty, and it becomes end.    *)
LEMMA AddSlot ==
  ASSUME Inv, elements < len
  PROVE  /\ NextEndIndex = (start + elements) % len
         /\ NextEndIndex \in Index
         /\ NextEndIndex = IF IsEmpty THEN end ELSE (end + 1) % len
         /\ NextEndIndex >= 0
<1> USE LenAssumption
<1>1. start \in Index /\ end \in Index /\ elements \in 0 .. len
  BY DEF Inv, TypeOK
<1>2. ~IsFull
  BY <1>1, SMT DEF IsFull, Index
<1>3. (start + elements) % len \in Index
  BY <1>1, NextSlot
<1>4. CASE elements = 0
  <2>1. end = start
    BY <1>4 DEF Inv, Consistent
  <2>2. start + elements = start /\ end + 0 = start
    BY <2>1, <1>1, <1>4, SMT DEF Index
  <2>3. start % len = start
    <3>1. start \in 0 .. 2 * len - 1
      BY <1>1, SMT DEF Index
    <3> QED BY <3>1, <1>1, WrapOnce, SMT DEF Index
  <2> QED BY <1>1, <1>2, <1>4, <2>1, <2>2, <2>3, SMT DEF NextEndIndex, IsEmpty, Index
<1>5. CASE elements > 0
  <2>1. end = (start + (elements - 1)) % len
    <3>1. start + elements - 1 = start + (elements - 1)
      BY <1>1, SMT DEF Index
    <3> QED BY <3>1, <1>5 DEF Inv, Consistent
  <2>2. elements - 1 \in 0 .. len /\ start + (elements - 1) + 1 = start + elements
    BY <1>1, <1>5, SMT DEF Index
  <2>3. (end + 1) % len = (start + elements) % len
    BY <1>1, <2>1, <2>2, NextSlot
  <2> QED BY <1>1, <1>2, <1>3, <1>5, <2>3, SMT DEF NextEndIndex, IsEmpty, Index
<1> QED BY <1>1, <1>4, <1>5, SMT DEF Index

(* The initial buffer is consistent.                                       *)
LEMMA InitInv == Init => Inv
<1> SUFFICES ASSUME Init PROVE Inv
  OBVIOUS
<1> QED BY LenAssumption, SMT DEF Init, Inv, TypeOK, Consistent, Index

(* An Add keeps the buffer consistent.                                     *)
LEMMA AddInv ==
  ASSUME Inv, NEW o \in Object, Add(o)
  PROVE  Inv'
<1> USE LenAssumption
<1>0. TypeOK
  BY DEF Inv
<1>1. CASE NextEndIndex < 0
  <2>1. UNCHANGED <<buf, start, end, elements>> /\ answer' = FALSE
    BY <1>0, <1>1, SMT DEF Add, TypeOK, NextEndIndex, Index
  <2> QED BY <2>1 DEF Inv, TypeOK, Consistent
<1>2. CASE NextEndIndex >= 0
  <2>1. elements < len
    BY <1>0, <1>2, SMT DEF NextEndIndex, IsFull, TypeOK
  <2>2. /\ NextEndIndex = (start + elements) % len
        /\ NextEndIndex \in Index
        /\ NextEndIndex = IF IsEmpty THEN end ELSE (end + 1) % len
    BY <2>1, AddSlot
  <2>3. /\ buf' = [buf EXCEPT ![NextEndIndex] = o]
        /\ end' = NextEndIndex
        /\ elements' = elements + 1
        /\ start' = start
        /\ answer' = TRUE
    BY <1>2, <2>2, SMT DEF Add, Index
  <2>4. TypeOK'
    BY <1>0, <2>1, <2>2, <2>3, SMT DEF TypeOK
  <2>5. end' = (start' + elements' - 1) % len /\ elements' > 0
    <3>1. start' + elements' - 1 = start + elements
      BY <1>0, <2>3, SMT DEF TypeOK, Index
    <3> QED BY <1>0, <2>2, <2>3, <3>1, SMT DEF TypeOK
  <2>6. ASSUME NEW i \in 0 .. len - 1, i < elements'
        PROVE  buf'[(start' + i) % len] \in Object
    <3>1. i \in Index /\ elements \in Index /\ start \in Index
      BY <1>0, <2>1, SMT DEF TypeOK, Index
    <3>2. (start + i) % len \in Index
      BY <3>1, NextSlot, SMT DEF Index
    <3>3. CASE i = elements
      BY <1>0, <2>2, <2>3, <3>3 DEF TypeOK
    <3>4. CASE i < elements
      <4>1. (start + i) % len # NextEndIndex
        BY <3>1, <3>4, <2>2, SlotsDiffer, SMT DEF Index
      <4>2. buf[(start + i) % len] \in Object
        BY <3>4 DEF Inv, Consistent
      <4> QED BY <1>0, <2>2, <2>3, <3>2, <4>1, <4>2 DEF TypeOK
    <3> QED BY <2>6, <1>0, <2>3, <3>3, <3>4, SMT DEF TypeOK
  <2>7. elements' # 0
    BY <1>0, <2>3, SMT DEF TypeOK
  <2> QED BY <2>4, <2>5, <2>6, <2>7 DEF Inv, Consistent
<1>3. NextEndIndex < 0 \/ NextEndIndex >= 0
  BY <1>0, SMT DEF NextEndIndex, IsFull, IsEmpty, TypeOK, Index
<1> QED BY <1>1, <1>2, <1>3

(* A Pull keeps the buffer consistent, the last one included.              *)
LEMMA PullInv ==
  ASSUME Inv, Pull
  PROVE  Inv'
<1> USE LenAssumption
<1>0. TypeOK
  BY DEF Inv
<1>1. CASE IsEmpty
  BY <1>1 DEF Pull, Inv, TypeOK, Consistent
<1>2. CASE ~IsEmpty
  <2>1. elements \in 1 .. len /\ elements - 1 \in Index
    BY <1>0, <1>2, SMT DEF IsEmpty, TypeOK, Index
  <2>2. /\ elements' = elements - 1
        /\ start' = IF elements' = 0 THEN start ELSE (start + 1) % len
        /\ buf' = buf /\ end' = end
        /\ answer' = buf[start]
    BY <1>2 DEF Pull
  <2>3. end = (start + (elements - 1)) % len
    <3>1. start + elements - 1 = start + (elements - 1) /\ elements > 0
      BY <1>0, <2>1, SMT DEF TypeOK, Index
    <3> QED BY <3>1 DEF Inv, Consistent
  <2>4. (start + 1) % len \in Index
    BY <1>0, NextSlot, SMT DEF TypeOK
  <2>5. TypeOK'
    BY <1>0, <2>1, <2>2, <2>4, SMT DEF TypeOK, Index
  <2>6. CASE elements' = 0
    <3>1. elements - 1 = 0
      BY <2>6, <2>2
    <3>2. start + 0 = start /\ start % len = start
      <4>1. start \in 0 .. 2 * len - 1
        BY <1>0, SMT DEF TypeOK, Index
      <4> QED BY <4>1, <1>0, WrapOnce, SMT DEF TypeOK, Index
    <3>3. start' = end'
      BY <2>2, <2>3, <2>6, <3>1, <3>2
    <3> QED BY <2>5, <2>6, <3>3, SMT DEF Inv, Consistent
  <2>7. CASE elements' # 0
    <3>1. elements' \in 1 .. len - 1 /\ start' = (start + 1) % len
      BY <2>1, <2>2, <2>7, SMT DEF Index
    <3>2. ASSUME NEW k \in 0 .. len
          PROVE  (start' + k) % len = (start + (k + 1)) % len
      <4>1. (((start + 1) % len) + k) % len = (start + k + 1) % len
        BY <1>0, NextSlot DEF TypeOK
      <4>2. start + k + 1 = start + (k + 1)
        BY <1>0, SMT DEF TypeOK, Index
      <4> QED BY <3>1, <4>1, <4>2
    <3>3. end' = (start' + elements' - 1) % len
      <4>1. elements' - 1 \in 0 .. len /\ (elements' - 1) + 1 = elements - 1
            /\ start' + elements' - 1 = start' + (elements' - 1)
        BY <2>1, <2>2, <2>5, <3>1, SMT DEF TypeOK, Index
      <4> QED BY <3>2, <4>1, <2>2, <2>3
    <3>4. ASSUME NEW i \in 0 .. len - 1, i < elements'
          PROVE  buf'[(start' + i) % len] \in Object
      <4>1. i + 1 \in 0 .. len - 1 /\ i + 1 < elements /\ i \in 0 .. len
        BY <2>1, <2>2, <3>4, SMT DEF Index
      <4>2. buf[(start + (i + 1)) % len] \in Object
        BY <4>1 DEF Inv, Consistent
      <4> QED BY <3>2, <4>1, <4>2, <2>2
    <3> QED BY <2>5, <2>7, <3>3, <3>4 DEF Inv, Consistent
  <2> QED BY <2>6, <2>7
<1> QED BY <1>1, <1>2

(* Every step keeps the buffer consistent.                                 *)
LEMMA NextInv == Inv /\ [Next]_vars => Inv'
<1> SUFFICES ASSUME Inv, [Next]_vars PROVE Inv'
  OBVIOUS
<1>1. ASSUME NEW o \in Object, Add(o) PROVE Inv'
  BY <1>1, AddInv
<1>2. CASE Pull
  BY <1>2, PullInv
<1>3. ASSUME NEW n \in 0 .. len, Peek(n) PROVE Inv'
  <2>1. UNCHANGED <<buf, start, end, elements>>
    BY <1>3 DEF Peek
  <2>2. answer' \in Object \cup {NoObject}
    <3>1. CASE IsEmpty \/ n > elements - 1
      BY <1>3, <3>1 DEF Peek
    <3>2. CASE ~(IsEmpty \/ n > elements - 1)
      <4>1. n \in 0 .. len - 1 /\ n < elements
        BY <3>2, LenAssumption, SMT DEF Inv, TypeOK
      <4>2. buf[(start + n) % len] \in Object
        BY <4>1 DEF Inv, Consistent
      <4> QED BY <1>3, <3>2, <4>2 DEF Peek
    <3> QED BY <3>1, <3>2
  <2> QED BY <2>1, <2>2 DEF Inv, TypeOK, Consistent
<1>4. CASE UNCHANGED vars
  BY <1>4 DEF vars, Inv, TypeOK, Consistent
<1> QED BY <1>1, <1>2, <1>3, <1>4 DEF Next

(* For every length and every set of objects, the indices stay in bounds   *)
(* (ringbuf.h:31) and the count stays between 0 and len.                   *)
THEOREM RingBufTypeCorrect == Spec => []TypeOK
<1>1. Inv => TypeOK
  BY DEF Inv
<1> QED BY InitInv, NextInv, <1>1, PTL DEF Spec

(* For every length and every set of objects, start, end and elements      *)
(* agree on which slots hold objects (ringbuf.c:53-118).                   *)
THEOREM RingBufConsistent == Spec => []Consistent
<1>1. Inv => Consistent
  BY DEF Inv
<1> QED BY InitInv, NextInv, <1>1, PTL DEF Spec

-----------------------------------------------------------------------------
(* The abstract queue of a consistent buffer is a sequence of its objects. *)
LEMMA StoredIsSeq ==
  ASSUME Inv
  PROVE  /\ Stored \in Seq(Object)
         /\ Len(Stored) = elements
         /\ \A k \in 0 .. len - 1 :
              k < elements => Stored[k + 1] = buf[(start + k) % len]
<1> USE LenAssumption
<1>1. elements \in 0 .. len /\ start \in Index
  BY DEF Inv, TypeOK
<1>2. ASSUME NEW i \in 1 .. elements
      PROVE  buf[(start + i - 1) % len] \in Object
  <2>1. i - 1 \in 0 .. len - 1 /\ i - 1 < elements
        /\ start + i - 1 = start + (i - 1)
    BY <1>1, SMT DEF Index
  <2> QED BY <2>1 DEF Inv, Consistent
<1>3. Stored \in Seq(Object) /\ Len(Stored) = elements
  BY <1>1, <1>2, SMT DEF Stored
<1>4. ASSUME NEW k \in 0 .. len - 1, k < elements
      PROVE  Stored[k + 1] = buf[(start + k) % len]
  <2>1. k + 1 \in 1 .. elements /\ start + (k + 1) - 1 = start + k
    BY <1>1, <1>4, SMT DEF Index
  <2> QED BY <2>1 DEF Stored
<1> QED BY <1>3, <1>4

(* An Add of the buffer is an Add of the queue.                            *)
LEMMA AddRefines ==
  ASSUME Inv, NEW o \in Object, Add(o)
  PROVE  Abstract!Add(o)
<1> USE LenAssumption
<1>0. TypeOK /\ Inv'
  BY AddInv DEF Inv
<1>1. Len(Stored) = elements /\ Stored \in Seq(Object)
  BY StoredIsSeq
<1>2. CASE NextEndIndex < 0
  <2>1. elements = len
    BY <1>0, <1>2, SMT DEF NextEndIndex, IsFull, IsEmpty, TypeOK, Index
  <2>2. UNCHANGED <<buf, start, end, elements>> /\ answer' = FALSE
    BY <1>0, <1>2, SMT DEF Add, TypeOK, NextEndIndex, Index
  <2>3. Stored' = Stored
    BY <2>2 DEF Stored
  <2> QED BY <1>1, <2>1, <2>2, <2>3 DEF Abstract!Add
<1>3. CASE NextEndIndex >= 0
  <2>1. elements < len
    BY <1>0, <1>3, SMT DEF NextEndIndex, IsFull, TypeOK
  <2>2. NextEndIndex = (start + elements) % len /\ NextEndIndex \in Index
    BY <2>1, AddSlot
  <2>3. /\ buf' = [buf EXCEPT ![NextEndIndex] = o]
        /\ elements' = elements + 1 /\ start' = start /\ answer' = TRUE
    BY <1>3, <2>2, SMT DEF Add, Index
  <2>4. Len(Stored') = elements' /\ Stored' \in Seq(Object)
    <3>1. /\ elements' \in 0 .. len /\ start' \in Index
          /\ \A i \in 1 .. elements' : buf'[(start' + i - 1) % len] \in Object
      <4>1. elements' \in 0 .. len /\ start' \in Index
        BY <1>0 DEF Inv, TypeOK
      <4>2. ASSUME NEW i \in 1 .. elements'
            PROVE  buf'[(start' + i - 1) % len] \in Object
        <5>1. i - 1 \in 0 .. len - 1 /\ i - 1 < elements'
              /\ start' + i - 1 = start' + (i - 1)
          BY <4>1, SMT DEF Index
        <5> QED BY <1>0, <5>1 DEF Inv, Consistent
      <4> QED BY <4>1, <4>2
    <3> QED BY <3>1, SMT DEF Stored
  <2>5. ASSUME NEW i \in 1 .. elements + 1
        PROVE  Stored'[i] = Append(Stored, o)[i]
    <3>1. /\ i \in 1 .. elements' /\ start' + i - 1 = start + (i - 1)
          /\ i - 1 \in Index /\ elements \in Index /\ start \in Index
      BY <1>0, <2>1, <2>3, SMT DEF TypeOK, Index
    <3>2. Stored'[i] = buf'[(start + (i - 1)) % len]
      BY <3>1 DEF Stored
    <3>3. CASE i = elements + 1
      <4>1. i - 1 = elements
        BY <3>3, <1>0, SMT DEF TypeOK
      <4>2. Stored'[i] = o
        BY <1>0, <2>2, <2>3, <3>2, <4>1 DEF TypeOK
      <4>3. Append(Stored, o)[i] = o
        BY <1>1, <3>3, SMT
      <4> QED BY <4>2, <4>3
    <3>4. CASE i # elements + 1
      <4>1. i \in 1 .. elements /\ i - 1 # elements /\ i - 1 < elements
            /\ (i - 1) + 1 = i
        BY <3>4, <1>0, SMT DEF TypeOK
      <4>2. (start + (i - 1)) % len # NextEndIndex
            /\ (start + (i - 1)) % len \in Index
        BY <3>1, <4>1, <2>2, SlotsDiffer
      <4>3. Stored'[i] = buf[(start + (i - 1)) % len]
        BY <1>0, <2>3, <3>2, <4>2 DEF TypeOK
      <4>4. Stored[i] = buf[(start + (i - 1)) % len]
        BY <3>1, <4>1, StoredIsSeq DEF Index
      <4>5. Append(Stored, o)[i] = Stored[i]
        BY <1>1, <4>1, SMT
      <4> QED BY <4>3, <4>4, <4>5
    <3> QED BY <3>3, <3>4
  <2>6. Len(Append(Stored, o)) = elements + 1 /\ Append(Stored, o) \in Seq(Object)
    BY <1>1, SMT
  <2>7. Stored' = Append(Stored, o)
    BY <2>3, <2>4, <2>5, <2>6, SeqEqual
  <2> QED BY <1>1, <2>1, <2>3, <2>7 DEF Abstract!Add
<1>4. NextEndIndex < 0 \/ NextEndIndex >= 0
  BY <1>0, SMT DEF NextEndIndex, IsFull, IsEmpty, TypeOK, Index
<1> QED BY <1>2, <1>3, <1>4

(* A Pull of the buffer is a Pull of the queue.                            *)
LEMMA PullRefines ==
  ASSUME Inv, Pull
  PROVE  Abstract!Pull
<1> USE LenAssumption
<1>0. TypeOK /\ Inv'
  BY PullInv DEF Inv
<1>1. Len(Stored) = elements /\ Stored \in Seq(Object)
  BY StoredIsSeq
<1>2. CASE IsEmpty
  <2>1. UNCHANGED <<buf, start, end, elements>> /\ answer' = NoObject
    BY <1>2 DEF Pull
  <2>2. Stored' = Stored /\ Stored = << >>
    <3>1. Stored = << >>
      BY <1>1, <1>2, EmptySeq DEF IsEmpty
    <3> QED BY <2>1, <3>1 DEF Stored
  <2> QED BY <2>1, <2>2 DEF Abstract!Pull
<1>3. CASE ~IsEmpty
  <2>1. elements \in 1 .. len /\ start \in Index
    BY <1>0, <1>3, SMT DEF IsEmpty, TypeOK
  <2>2. /\ elements' = elements - 1
        /\ start' = IF elements' = 0 THEN start ELSE (start + 1) % len
        /\ buf' = buf
        /\ answer' = buf[start]
    BY <1>3 DEF Pull
  <2>3. Stored # << >>
    BY <1>1, <2>1, EmptySeq, SMT
  <2>4. Head(Stored) = buf[start]
    <3>1. 0 \in 0 .. len - 1 /\ 0 < elements /\ start + 0 = start /\ 0 + 1 = 1
      BY <2>1, SMT DEF Index
    <3>2. start % len = start
      <4>1. start \in 0 .. 2 * len - 1
        BY <2>1, SMT DEF Index
      <4> QED BY <4>1, <2>1, WrapOnce, SMT DEF Index
    <3>3. Stored[1] = buf[start]
      BY <3>1, <3>2, StoredIsSeq
    <3> QED BY <1>1, <2>3, <3>3, SMT
  <2>5. Len(Tail(Stored)) = elements - 1 /\ Tail(Stored) \in Seq(Object)
        /\ \A i \in 1 .. elements - 1 : Tail(Stored)[i] = Stored[i + 1]
    BY <1>1, <2>1, <2>3, SMT
  <2>6. Len(Stored') = elements - 1 /\ Stored' \in Seq(Object)
    <3>1. /\ elements' \in 0 .. len /\ start' \in Index
          /\ \A i \in 1 .. elements' : buf'[(start' + i - 1) % len] \in Object
      <4>1. elements' \in 0 .. len /\ start' \in Index
        BY <1>0 DEF Inv, TypeOK
      <4>2. ASSUME NEW i \in 1 .. elements'
            PROVE  buf'[(start' + i - 1) % len] \in Object
        <5>1. i - 1 \in 0 .. len - 1 /\ i - 1 < elements'
              /\ start' + i - 1 = start' + (i - 1)
          BY <4>1, SMT DEF Index
        <5> QED BY <1>0, <5>1 DEF Inv, Consistent
      <4> QED BY <4>1, <4>2
    <3> QED BY <3>1, <2>2, SMT DEF Stored
  <2>7. ASSUME NEW i \in 1 .. elements - 1
        PROVE  Stored'[i] = Tail(Stored)[i]
    <3>1. /\ i \in 1 .. elements' /\ i - 1 \in 0 .. len /\ i \in 0 .. len - 1
          /\ i < elements /\ elements' # 0
          /\ start' + i - 1 = start' + (i - 1)
          /\ start + (i - 1) + 1 = start + i
      <4>1. start' \in Index
        BY <1>0 DEF Inv, TypeOK
      <4> QED BY <4>1, <2>1, <2>2, SMT DEF Index
    <3>2. Stored'[i] = buf'[(start' + (i - 1)) % len]
      BY <3>1 DEF Stored
    <3>3. (start' + (i - 1)) % len = (start + i) % len
      <4>1. (((start + 1) % len) + (i - 1)) % len = (start + (i - 1) + 1) % len
        BY <2>1, <3>1, NextSlot
      <4> QED BY <2>2, <3>1, <4>1
    <3>4. Stored[i + 1] = buf[(start + i) % len]
      BY <3>1, StoredIsSeq
    <3> QED BY <2>2, <2>5, <3>2, <3>3, <3>4
  <2>8. Stored' = Tail(Stored)
    BY <2>5, <2>6, <2>7, SeqEqual
  <2> QED BY <2>2, <2>3, <2>4, <2>8 DEF Abstract!Pull
<1> QED BY <1>2, <1>3

(* A Peek of the buffer is a Peek of the queue.                            *)
LEMMA PeekRefines ==
  ASSUME Inv, NEW n \in 0 .. len, Peek(n)
  PROVE  Abstract!Peek(n)
<1> USE LenAssumption
<1>1. elements \in 0 .. len
  BY DEF Inv, TypeOK
<1>2. Len(Stored) = elements
  BY StoredIsSeq
<1>3. Stored' = Stored
  BY DEF Peek, Stored
<1>4. CASE n < elements
  <2>1. n \in 0 .. len - 1 /\ ~(IsEmpty \/ n > elements - 1)
    BY <1>1, <1>4, SMT DEF IsEmpty
  <2>2. Stored[n + 1] = buf[(start + n) % len]
    BY <1>4, <2>1, StoredIsSeq
  <2> QED BY <1>2, <1>3, <1>4, <2>1, <2>2 DEF Peek, Abstract!Peek
<1>5. CASE ~(n < elements)
  <2>1. IsEmpty \/ n > elements - 1
    BY <1>1, <1>5, SMT DEF IsEmpty
  <2> QED BY <1>2, <1>3, <1>5, <2>1 DEF Peek, Abstract!Peek
<1> QED BY <1>4, <1>5

(* For every length and every set of objects, the circular buffer of       *)
(* lib/ringbuf.c answers every sequence of Add, Pull and Peek calls as the *)
(* bounded FIFO that ringbuf.h describes would.                            *)
THEOREM RingBufImplementsFifo == Spec => ImplementsFifo
<1>1. Init => Abstract!Init
  <2> SUFFICES ASSUME Init PROVE Abstract!Init
    OBVIOUS
  <2>1. Len(Stored) = elements /\ Stored \in Seq(Object)
    BY InitInv, StoredIsSeq
  <2>2. Stored = << >>
    BY <2>1, EmptySeq DEF Init
  <2> QED BY <2>2 DEF Init, Abstract!Init
<1>2. Inv /\ [Next]_vars => [Abstract!Next]_<<Stored, answer>>
  <2> SUFFICES ASSUME Inv, [Next]_vars
               PROVE  [Abstract!Next]_<<Stored, answer>>
    OBVIOUS
  <2>1. ASSUME NEW o \in Object, Add(o) PROVE Abstract!Next
    BY <2>1, AddRefines DEF Abstract!Next
  <2>2. CASE Pull
    BY <2>2, PullRefines DEF Abstract!Next
  <2>3. ASSUME NEW n \in 0 .. len, Peek(n) PROVE Abstract!Next
    BY <2>3, PeekRefines DEF Abstract!Next
  <2>4. CASE UNCHANGED vars
    BY <2>4 DEF vars, Stored
  <2> QED BY <2>1, <2>2, <2>3, <2>4 DEF Next
<1>3. Spec => []Inv
  BY InitInv, NextInv, PTL DEF Spec
<1> QED BY <1>1, <1>2, <1>3, PTL DEF Spec, ImplementsFifo, Abstract!Spec
=============================================================================
