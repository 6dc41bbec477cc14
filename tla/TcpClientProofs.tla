--------------------------- MODULE TcpClientProofs ---------------------------
(***************************************************************************)
(* Type correctness of TcpClient, the headers of AT+CRTA, the bytes of     *)
(* client1_buf, and that a connection is the one the last AT+CCS asked for *)
(* and a stop lasts, for any number of commands, bytes and any buffer      *)
(* length.                                                                 *)
(***************************************************************************)
EXTENDS TcpClient, FiniteSetTheorems, SequenceTheorems, TLAPS

-----------------------------------------------------------------------------
(* The data, whatever recv_cb1 overwrites: read_sr never pulls more than   *)
(* there is, because only it takes bytes out, and what it printed and      *)
(* still has to print is what the header told.                             *)
Value == Byte \cup {NoByte}

BufInv ==
  /\ buf \in [Index -> Value] /\ start \in Index /\ end \in Index
  /\ elements \in Nat /\ elements <= BufLen
  /\ left \in Nat /\ place \in Place /\ c \in Value
  /\ reg \in Nat /\ reg <= BufLen
  /\ place # "isEmpty" => left >= 1
  /\ place \in {"isEmpty", "copy", "load"} => elements >= left
  /\ place = "store" => reg >= left
  /\ place \in {"last", "print"} => elements + 1 >= left
  /\ received \in Nat /\ received <= MaxByte
  /\ lost \subseteq Byte /\ printed \in Seq(Value) /\ exposed \in BOOLEAN

DataInv ==
  /\ BufInv
  /\ sent \in Nat /\ sent + left <= BufLen /\ told \in Nat

TellsInv ==
  told # NoHeader /\ sent + left < HeaderBit => told = HeaderBit + sent + left

LEMMA HeaderOfFew ==
  ASSUME NEW count \in Nat, NEW k \in Nat
  PROVE  /\ Header(count, k) \in Nat
         /\ count < HeaderBit => Header(count, k) = HeaderBit + count
<1>1. count < HeaderBit => count \div HeaderBit = 0
  BY HeaderAssumption, SMT
<1>2. Header(count, k) \in {count, count + HeaderBit}
  BY DEF Header
<1>3. count < HeaderBit => (count \div HeaderBit) % 2 # 1
  BY <1>1, SMT
<1> QED BY <1>2, <1>3, HeaderAssumption, SMT DEF Header

LEMMA ModIndex ==
  ASSUME NEW x \in Nat
  PROVE  x % BufLen \in Index
BY BufLenAssumption, SMT DEF Index

(* The steps that change the data; every other one is of the connection.   *)
LEMMA DataSteps ==
  ASSUME [Next]_vars
  PROVE  \/ UNCHANGED data
         \/ recv_cb1
         \/ \E k \in 0 .. BufLen + 1, arduino \in BOOLEAN : ReadBegin(k, arduino)
         \/ ReadByte
<1>1. CASE LookupFound \/ LookupStarted \/ LookupRefused
  BY <1>1 DEF LookupFound, LookupStarted, LookupRefused
<1>2. CASE CopyAddress \/ SwitchOnState \/ Connect
  BY <1>2 DEF CopyAddress, SwitchOnState, Connect
<1>3. CASE espconn_disconnect \/ PUSHMODE
  BY <1>3 DEF espconn_disconnect, PUSHMODE
<1>4. CASE \E n \in Command : ResolveNothing(n) \/ ResolveAddress(n)
  BY <1>4 DEF ResolveNothing, ResolveAddress
<1>5. CASE connectCB1 \/ errorCB1 \/ ErrorOpen \/ disconnectCB1
  BY <1>5 DEF connectCB1, errorCB1, ErrorOpen, disconnectCB1, Gone
<1> QED BY <1>1, <1>2, <1>3, <1>4, <1>5 DEF Next, read_sr, Callback, vars

LEMMA DataInit == user_init => DataInv /\ TellsInv
<1> SUFFICES ASSUME user_init PROVE DataInv /\ TellsInv
  OBVIOUS
<1>1. 0 \in Index
  BY BufLenAssumption, SMT DEF Index
<1>2. BufInv
  BY <1>1, BufLenAssumption, ByteAssumption
     DEF user_init, BufInit, BufInv, Value, NoByte, Place, Byte
<1> QED BY <1>2, BufLenAssumption DEF user_init, BufInit, DataInv, TellsInv, NoHeader

LEMMA AddTypes ==
  ASSUME BufInv, AddByte
  PROVE  BufInv' /\ left' = left
<1>1. received' = received + 1 /\ received' \in Nat /\ received' <= MaxByte /\ received' \in Byte
      /\ UNCHANGED <<start, left, place, reg, c, printed>>
  BY ByteAssumption, SMT DEF AddByte, BufInv, pull, Byte
<1>2. CASE ~IsFull
  <2>1. /\ buf' = [buf EXCEPT ![NextEndIndex] = received'] /\ end' = NextEndIndex
        /\ elements' = elements + 1 /\ exposed' \in BOOLEAN /\ lost' = lost
    BY <1>2 DEF AddByte, IsFull, BufInv
  <2>2. NextEndIndex \in Index
    <3>1. end + (IF elements = 0 THEN 0 ELSE 1) \in Nat
      BY BufLenAssumption, SMT DEF BufInv, Index
    <3> QED BY <3>1, ModIndex DEF NextEndIndex
  <2>3. elements' \in Nat /\ elements' <= BufLen /\ elements' >= elements
    BY <1>2, <2>1, BufLenAssumption, SMT DEF BufInv, IsFull
  <2>4. /\ place \in {"isEmpty", "copy", "load"} => elements' >= left
        /\ place \in {"last", "print"} => elements' + 1 >= left
    <3>1. /\ elements >= left => elements' >= left
          /\ elements + 1 >= left => elements' + 1 >= left
      BY <2>1, SMT DEF BufInv
    <3> QED BY <3>1 DEF BufInv
  <2>5. buf' \in [Index -> Value]
    BY <1>1, <2>1, <2>2 DEF BufInv, Value
  <2> QED BY <1>1, <2>1, <2>2, <2>3, <2>4, <2>5 DEF BufInv
<1>3. CASE IsFull
  BY <1>1, <1>3 DEF AddByte, IsFull, BufInv
<1> QED BY <1>2, <1>3

LEMMA PullTypes ==
  ASSUME BufInv, PullStep
  PROVE  /\ BufInv'
         /\ left' = IF place = "print" THEN left - 1 ELSE left
         /\ place = "print" => left >= 1
<1> USE DEF BufInv, ring, bytes, Place
<1>0. exposed' = exposed
  BY DEF PullStep
<1>1. CASE PullIsEmpty
  <2>1. elements # 0
    BY <1>1, SMT DEF PullIsEmpty
  <2> QED BY <1>0, <1>1, <2>1 DEF PullIsEmpty
<1>2. CASE PullCopy
  BY <1>0, <1>2 DEF PullCopy
<1>3. CASE PullLoad
  BY <1>0, <1>3 DEF PullLoad
<1>4. CASE PullStore
  <2>1. reg - 1 \in Nat /\ reg - 1 <= BufLen /\ (reg - 1) + 1 >= left /\ 0 <= BufLen
    BY <1>4, BufLenAssumption, SMT DEF PullStore
  <2> QED BY <1>0, <1>4, <2>1 DEF PullStore
<1>5. CASE PullLast
  <2>1. (start + 1) % BufLen \in Index
    <3>1. start + 1 \in Nat
      BY BufLenAssumption, SMT DEF Index
    <3> QED BY <3>1, ModIndex
  <2> QED BY <1>0, <1>5, <2>1 DEF PullLast
<1>6. CASE PrintByte
  <2>1. left - 1 \in Nat /\ elements >= left - 1 /\ left >= 1
    BY <1>6, SMT DEF PrintByte
  <2> QED BY <1>0, <1>6, <2>1 DEF PrintByte
<1> QED BY <1>1, <1>2, <1>3, <1>4, <1>5, <1>6 DEF PullStep

LEMMA BeginTypes ==
  ASSUME DataInv, NEW k \in 0 .. BufLen + 1, NEW arduino \in BOOLEAN, ReadBegin(k, arduino)
  PROVE  DataInv' /\ TellsInv'
<1>0. BufInv
  BY DEF DataInv
<1>1. ToRead(k) \in Nat /\ ToRead(k) <= elements /\ k \in Nat
  BY <1>0, BufLenAssumption, SMT DEF ToRead, BufInv
<1>2. /\ left' = ToRead(k) /\ sent' = 0 /\ left = 0
      /\ told' = IF arduino THEN Header(ToRead(k), k) ELSE 0
      /\ UNCHANGED <<buf, start, end, elements, place, reg, c, received, lost, printed, exposed>>
  BY DEF ReadBegin, ring, bytes, NoHeader, Idle
<1>3. place = "isEmpty"
  <2>1. ~(left >= 1)
    BY <1>2, SMT
  <2> QED BY <1>0, <2>1 DEF BufInv
<1>4. BufInv'
  BY <1>0, <1>1, <1>2, <1>3 DEF BufInv
<1>5. /\ told' \in Nat
      /\ told' # 0 /\ ToRead(k) < HeaderBit => told' = HeaderBit + ToRead(k)
  <2>1. /\ Header(ToRead(k), k) \in Nat
        /\ ToRead(k) < HeaderBit => Header(ToRead(k), k) = HeaderBit + ToRead(k)
    BY <1>1, HeaderOfFew
  <2> QED BY <1>2, <2>1
<1>6. sent' + left' = ToRead(k) /\ ToRead(k) <= BufLen
      /\ HeaderBit + sent' + left' = HeaderBit + ToRead(k)
  BY <1>0, <1>1, <1>2, BufLenAssumption, HeaderAssumption, SMT DEF BufInv
<1>7. sent' \in Nat
  BY <1>2
<1> QED BY <1>4, <1>5, <1>6, <1>7 DEF DataInv, TellsInv, NoHeader

LEMMA DataNext ==
  ASSUME DataInv, TellsInv, [Next]_vars
  PROVE  DataInv' /\ TellsInv'
<1>0. BufInv
  BY DEF DataInv
<1>1. CASE UNCHANGED data
  BY <1>1 DEF data, ring, pull, bytes, DataInv, BufInv, TellsInv
<1>2. CASE recv_cb1
  <2>1. BufInv' /\ left' = left /\ UNCHANGED <<told, sent>>
    BY <1>0, <1>2, AddTypes DEF recv_cb1
  <2> QED BY <2>1 DEF DataInv, TellsInv
<1>3. ASSUME NEW k \in 0 .. BufLen + 1, NEW arduino \in BOOLEAN, ReadBegin(k, arduino)
      PROVE  DataInv' /\ TellsInv'
  BY <1>3, BeginTypes
<1>4. CASE ReadByte
  <2>1. /\ BufInv' /\ told' = told
        /\ left' = IF place = "print" THEN left - 1 ELSE left
        /\ sent' = IF place = "print" THEN sent + 1 ELSE sent
        /\ place = "print" => left >= 1
    BY <1>0, <1>4, PullTypes DEF ReadByte
  <2>2. left \in Nat /\ sent \in Nat /\ left' \in Nat
    BY <1>0, <2>1 DEF DataInv, BufInv
  <2>3. sent' \in Nat /\ sent' + left' = sent + left
        /\ HeaderBit + sent' + left' = HeaderBit + sent + left
    BY <2>1, <2>2, HeaderAssumption, SMT
  <2> QED BY <2>1, <2>3 DEF DataInv, TellsInv
<1> QED BY <1>1, <1>2, <1>3, <1>4, DataSteps

(* As many bytes follow a header of AT+CRTA as it tells (user_main.c:525-  *)
(* 537), for every buffer length and every count below the header's bit,   *)
(* wherever recv_cb1 preempts the pulls.                                   *)
THEOREM HeaderAlwaysTells == Spec => []HeaderTells
<1>1. DataInv /\ TellsInv => HeaderTells
  BY HeaderAssumption, SMT DEF DataInv, BufInv, TellsInv, HeaderTells
<1> QED BY DataInit, DataNext, <1>1, PTL DEF Spec

-----------------------------------------------------------------------------
(* The slots of the ring.                                                  *)
LEMMA WrapOnce ==
  ASSUME NEW x \in 0 .. 2 * BufLen - 1
  PROVE  x % BufLen = IF x < BufLen THEN x ELSE x - BufLen
<1> USE BufLenAssumption
<1>1. CASE x < BufLen
  BY <1>1, SMT
<1>2. CASE x >= BufLen
  <2>1. x - BufLen \in 0 .. BufLen - 1 /\ x = 1 * BufLen + (x - BufLen)
    BY <1>2, SMT
  <2> QED BY <2>1, <1>2, SMTT(30)
<1> QED BY <1>1, <1>2, SMT

LEMMA SlotsDiffer ==
  ASSUME NEW s \in Index, NEW i \in Index, NEW j \in Index, i # j
  PROVE  (s + i) % BufLen # (s + j) % BufLen
<1> USE BufLenAssumption DEF Index
<1>1. s + i \in 0 .. 2 * BufLen - 1 /\ s + j \in 0 .. 2 * BufLen - 1
  BY SMT
<1> QED BY <1>1, WrapOnce, SMT

LEMMA NextSlot ==
  ASSUME NEW s \in Index, NEW k \in Index
  PROVE  /\ (((s + k) % BufLen) + 1) % BufLen = (s + (k + 1)) % BufLen
         /\ (((s + 1) % BufLen) + k) % BufLen = (s + (k + 1)) % BufLen
         /\ (s + k) % BufLen \in Index
<1> USE BufLenAssumption DEF Index
<1> DEFINE W(x) == IF x < BufLen THEN x ELSE x - BufLen
<1>1. /\ s + k \in 0 .. 2 * BufLen - 1 /\ s + (k + 1) \in 0 .. 2 * BufLen - 1
      /\ s + 1 \in 0 .. 2 * BufLen - 1
  BY SMT
<1>2. /\ (s + k) % BufLen = W(s + k)
      /\ (s + (k + 1)) % BufLen = W(s + (k + 1))
      /\ (s + 1) % BufLen = W(s + 1)
  BY <1>1, WrapOnce
<1>3. /\ W(s + k) + 1 \in 0 .. 2 * BufLen - 1
      /\ W(s + 1) + k \in 0 .. 2 * BufLen - 1
  BY SMT
<1>4. /\ (W(s + k) + 1) % BufLen = W(W(s + k) + 1)
      /\ (W(s + 1) + k) % BufLen = W(W(s + 1) + k)
  BY <1>3, WrapOnce
<1>5. /\ W(W(s + k) + 1) = W(s + (k + 1))
      /\ W(W(s + 1) + k) = W(s + (k + 1))
      /\ W(s + k) \in Index
  BY SMT
<1> QED BY <1>2, <1>4, <1>5

LEMMA FirstSlot ==
  ASSUME NEW s \in Index
  PROVE  (s + 0) % BufLen = s
<1>1. s + 0 = s /\ s \in 0 .. 2 * BufLen - 1 /\ s < BufLen
  BY BufLenAssumption, SMT DEF Index
<1> QED BY <1>1, WrapOnce

(* n bytes of a ring from slot s on.                                       *)
StoredOf(b, s, n) == [i \in 1 .. n |-> b[(s + (i - 1)) % BufLen]]

LEMMA StoredType ==
  ASSUME NEW b \in [Index -> Value], NEW s \in Index, NEW n \in Nat, n <= BufLen
  PROVE  /\ StoredOf(b, s, n) \in Seq(Value) /\ Len(StoredOf(b, s, n)) = n
         /\ \A i \in 1 .. n : /\ StoredOf(b, s, n)[i] = b[(s + (i - 1)) % BufLen]
                              /\ (s + (i - 1)) % BufLen \in Index
<1>1. ASSUME NEW i \in 1 .. n PROVE (s + (i - 1)) % BufLen \in Index
  <2>1. i - 1 \in Index
    BY BufLenAssumption, SMT DEF Index
  <2> QED BY <2>1, NextSlot
<1>2. \A i \in 1 .. n : b[(s + (i - 1)) % BufLen] \in Value
  BY <1>1
<1>3. StoredOf(b, s, n) \in [1 .. n -> Value]
  BY <1>2 DEF StoredOf
<1>4. StoredOf(b, s, n) \in Seq(Value) /\ Len(StoredOf(b, s, n)) = n
  BY <1>3, SMT
<1> QED BY <1>1, <1>4 DEF StoredOf

LEMMA StoredAdd ==
  ASSUME NEW b \in [Index -> Value], NEW s \in Index, NEW n \in Index, NEW v \in Value,
         NEW d \in [Index -> Value], d[(s + n) % BufLen] = v,
         \A j \in Index : j # (s + n) % BufLen => d[j] = b[j]
  PROVE  StoredOf(d, s, n + 1) = StoredOf(b, s, n) \o <<v>>
<1>1. n \in Nat /\ n + 1 \in Nat /\ n <= BufLen /\ n + 1 <= BufLen
  BY BufLenAssumption, SMT DEF Index
<1>2. (s + n) % BufLen \in Index
  BY NextSlot
<1>3. d \in [Index -> Value] /\ d[(s + n) % BufLen] = v
  OBVIOUS
<1>4. PICK p \in Seq(Value) : p = StoredOf(b, s, n) /\ Len(p) = n
  BY <1>1, StoredType
<1>5. PICK m \in Nat : m = n + 1 /\ m <= BufLen
  BY <1>1
<1>10. PICK q \in Seq(Value) : q = StoredOf(d, s, m) /\ Len(q) = m
  BY <1>3, <1>5, StoredType
<1>6. <<v>> \in Seq(Value) /\ Len(<<v>>) = 1 /\ <<v>>[1] = v
  OBVIOUS
<1>7. /\ p \o <<v>> \in Seq(Value) /\ Len(p \o <<v>>) = n + 1
      /\ \A i \in 1 .. n + 1 : (p \o <<v>>)[i] = IF i <= n THEN p[i] ELSE <<v>>[i - n]
  BY <1>4, <1>6, ConcatProperties
<1>8. ASSUME NEW i \in 1 .. n + 1 PROVE q[i] = (p \o <<v>>)[i]
  <2>1. q[i] = d[(s + (i - 1)) % BufLen]
    <3>1. i \in 1 .. m
      BY <1>5
    <3> QED BY <1>3, <1>5, <1>10, <3>1, StoredType
  <2>2. CASE i <= n
    <3>1. i \in 1 .. n /\ i - 1 \in Index /\ i - 1 # n
      BY <1>1, <2>2, BufLenAssumption, SMT DEF Index
    <3>2. p[i] = b[(s + (i - 1)) % BufLen] /\ (s + (i - 1)) % BufLen \in Index
      BY <1>1, <1>4, <3>1, StoredType
    <3>3. (s + (i - 1)) % BufLen # (s + n) % BufLen
      BY <3>1, SlotsDiffer
    <3> QED BY <1>7, <2>1, <2>2, <3>2, <3>3
  <2>3. CASE ~(i <= n)
    <3>1. i - 1 = n /\ i - n = 1
      BY <1>1, <2>3, SMT
    <3> QED BY <1>3, <1>6, <1>7, <2>1, <2>3, <3>1
  <2> QED BY <2>2, <2>3
<1>9. q = p \o <<v>>
  BY <1>5, <1>10, <1>7, <1>8, SeqEqual
<1> QED BY <1>4, <1>5, <1>10, <1>9

LEMMA StoredTake ==
  ASSUME NEW b \in [Index -> Value], NEW s \in Index, NEW n \in Nat, n >= 1, n <= BufLen
  PROVE  /\ StoredOf(b, s, n) = <<b[s]>> \o StoredOf(b, (s + 1) % BufLen, n - 1)
         /\ (s + 1) % BufLen \in Index
<1>1. n - 1 \in Nat /\ n - 1 <= BufLen /\ 1 \in Index /\ 1 + (n - 1) = n
  BY BufLenAssumption, SMT DEF Index
<1>2. (s + 1) % BufLen \in Index
  BY <1>1, NextSlot
<1>3. PICK q \in Seq(Value) : q = StoredOf(b, s, n) /\ Len(q) = n
  BY StoredType
<1>4. PICK p \in Seq(Value) : p = StoredOf(b, (s + 1) % BufLen, n - 1) /\ Len(p) = n - 1
  BY <1>1, <1>2, StoredType
<1>5. <<b[s]>> \in Seq(Value) /\ Len(<<b[s]>>) = 1 /\ <<b[s]>>[1] = b[s]
  OBVIOUS
<1>6. /\ <<b[s]>> \o p \in Seq(Value) /\ Len(<<b[s]>> \o p) = n
      /\ \A i \in 1 .. n : (<<b[s]>> \o p)[i] = IF i <= 1 THEN <<b[s]>>[i] ELSE p[i - 1]
  BY <1>1, <1>4, <1>5, ConcatProperties
<1>7. ASSUME NEW i \in 1 .. n PROVE q[i] = (<<b[s]>> \o p)[i]
  <2>1. q[i] = b[(s + (i - 1)) % BufLen]
    BY <1>3, <1>7, StoredType
  <2>2. CASE i <= 1
    <3>1. i = 1 /\ i - 1 = 0
      BY <2>2, SMT
    <3> QED BY <1>5, <1>6, <2>1, <2>2, <3>1, FirstSlot
  <2>3. CASE ~(i <= 1)
    <3>1. i - 1 \in 1 .. n - 1 /\ (i - 1) - 1 \in Index /\ ((i - 1) - 1) + 1 = i - 1
      BY <2>3, BufLenAssumption, SMT DEF Index
    <3>2. p[i - 1] = b[(((s + 1) % BufLen) + ((i - 1) - 1)) % BufLen]
      BY <1>1, <1>2, <1>4, <3>1, StoredType
    <3>3. (((s + 1) % BufLen) + ((i - 1) - 1)) % BufLen = (s + (i - 1)) % BufLen
      BY <3>1, NextSlot
    <3> QED BY <1>6, <2>1, <2>3, <3>2, <3>3
  <2> QED BY <2>2, <2>3
<1>8. q = <<b[s]>> \o p
  BY <1>3, <1>6, <1>7, SeqEqual
<1> QED BY <1>2, <1>3, <1>4, <1>8

-----------------------------------------------------------------------------
(* The bytes.  Unless recv_cb1 ran in the window, start, end and elements  *)
(* agree and c is the byte that elements still counts: a pull and its      *)
(* print move one byte from the first slot to the end of what was printed, *)
(* and recv_cb1 only brings numbers above all that were received.          *)
Linked ==
  /\ elements = 0 => end = start
  /\ elements > 0 => end = (First + (elements - 1)) % BufLen
  /\ place = "store" => reg = elements
  /\ place \in {"load", "store"} => c = buf[start]
  /\ lost \subseteq 1 .. received

Rising(s) == \A i, j \in DOMAIN s : i < j => s[i] < s[j]
Elements(s) == {s[i] : i \in DOMAIN s}

From(r, q) == \A i \in DOMAIN q : q[i] = r + i

LEMMA Extended ==
  ASSUME NEW s \in Seq(Value), NEW q \in Seq(Value), NEW r \in Nat,
         From(r, q), Rising(s), Elements(s) \subseteq 1 .. r
  PROVE  Rising(s \o q) /\ Elements(s \o q) = Elements(s) \cup (r + 1 .. r + Len(q))
<1> DEFINE n == Len(s)
           t == s \o q
           f == Len(q)
<1>0. f \in Nat /\ \A i \in 1 .. f : q[i] = r + i
  BY DEF From
<1>1. n \in Nat /\ DOMAIN s = 1 .. n
  OBVIOUS
<1>2. /\ t \in Seq(Value) /\ Len(t) = n + f
      /\ \A i \in 1 .. n + f : t[i] = IF i <= n THEN s[i] ELSE q[i - n]
  BY <1>0, ConcatProperties
<1> HIDE DEF n, t, f
<1>3. DOMAIN t = 1 .. n + f
  BY <1>0, <1>2
<1>4. \A i \in 1 .. n : t[i] = s[i] /\ s[i] \in 1 .. r
  <2> SUFFICES ASSUME NEW i \in 1 .. n PROVE t[i] = s[i] /\ s[i] \in 1 .. r
    OBVIOUS
  <2>1. i \in 1 .. n + f /\ i <= n
    BY <1>0, <1>1, SMT
  <2> QED BY <1>0, <1>1, <1>2, <2>1 DEF Elements
<1>5. \A i \in n + 1 .. n + f : t[i] = r + (i - n)
  <2> SUFFICES ASSUME NEW i \in n + 1 .. n + f PROVE t[i] = r + (i - n)
    OBVIOUS
  <2>1. i \in 1 .. n + f /\ ~(i <= n) /\ i - n \in 1 .. f
    BY <1>0, <1>1, SMT
  <2> QED BY <1>0, <1>2, <2>1
<1>6. Rising(t)
  <2> SUFFICES ASSUME NEW i \in 1 .. n + f, NEW j \in 1 .. n + f, i < j
               PROVE  t[i] < t[j]
    BY <1>3 DEF Rising
  <2>1. CASE j <= n
    <3>1. i \in 1 .. n /\ j \in 1 .. n
      BY <1>0, <1>1, <2>1, SMT
    <3> QED BY <1>0, <1>1, <1>4, <3>1 DEF Rising
  <2>2. CASE ~(j <= n) /\ i <= n
    <3>1. i \in 1 .. n /\ j \in n + 1 .. n + f
      BY <1>0, <1>1, <2>2, SMT
    <3>2. t[i] \in 1 .. r /\ t[j] = r + (j - n)
      BY <1>4, <1>5, <3>1
    <3> QED BY <1>0, <1>1, <3>1, <3>2, SMT
  <2>3. CASE ~(i <= n)
    <3>1. i \in n + 1 .. n + f /\ j \in n + 1 .. n + f
      BY <1>0, <1>1, <2>3, SMT
    <3>2. t[i] = r + (i - n) /\ t[j] = r + (j - n)
      BY <1>5, <3>1
    <3> QED BY <1>0, <1>1, <3>1, <3>2, SMT
  <2> QED BY <1>0, <1>1, <2>1, <2>2, <2>3, SMT
<1>7. Elements(t) \subseteq Elements(s) \cup (r + 1 .. r + f)
  <2> SUFFICES ASSUME NEW i \in 1 .. n + f
               PROVE  t[i] \in Elements(s) \cup (r + 1 .. r + f)
    BY <1>3 DEF Elements
  <2>1. CASE i <= n
    <3>1. i \in 1 .. n
      BY <1>0, <1>1, <2>1, SMT
    <3> QED BY <1>0, <1>1, <1>4, <3>1 DEF Elements
  <2>2. CASE ~(i <= n)
    <3>1. i \in n + 1 .. n + f
      BY <1>0, <1>1, <2>2, SMT
    <3>2. r + (i - n) \in r + 1 .. r + f
      BY <1>0, <1>1, <3>1, SMT
    <3> QED BY <1>5, <3>1, <3>2
  <2> QED BY <2>1, <2>2
<1>8. \A x \in Elements(s) : x \in Elements(t)
  <2> SUFFICES ASSUME NEW i \in 1 .. n PROVE s[i] \in Elements(t)
    BY <1>0, <1>1 DEF Elements
  <2>1. i \in 1 .. n + f
    BY <1>0, <1>1, SMT
  <2> QED BY <1>3, <1>4, <2>1 DEF Elements
<1>9. \A x \in r + 1 .. r + f : x \in Elements(t)
  <2> SUFFICES ASSUME NEW x \in r + 1 .. r + f PROVE x \in Elements(t)
    OBVIOUS
  <2> DEFINE i == n + (x - r)
  <2>1. i \in n + 1 .. n + f /\ i \in 1 .. n + f /\ r + (i - n) = x
    BY <1>0, <1>1, SMT
  <2> HIDE DEF i
  <2>2. t[i] = x
    BY <1>5, <2>1
  <2> QED BY <1>3, <2>1, <2>2 DEF Elements
<1> QED BY <1>6, <1>7, <1>8, <1>9 DEF t, f

LEMMA KeptType ==
  ASSUME BufInv
  PROVE  /\ First \in Index /\ Held \in Seq(Value)
         /\ Stored = StoredOf(buf, First, elements) /\ Stored \in Seq(Value)
         /\ Kept = (printed \o Held) \o Stored /\ Kept \in Seq(Value)
<1>1. First \in Index
  <2>1. start + 1 \in Nat
    BY BufLenAssumption, SMT DEF BufInv, Index
  <2> QED BY <2>1, ModIndex DEF First, BufInv
<1>2. Held \in Seq(Value) /\ printed \in Seq(Value)
  BY DEF Held, BufInv
<1>3. Stored = StoredOf(buf, First, elements)
  BY DEF Stored, StoredOf
<1>4. Stored \in Seq(Value)
  BY <1>1, <1>3, StoredType DEF BufInv
<1>5. printed \o Held \in Seq(Value)
  BY <1>2, ConcatProperties
<1>6. Kept = (printed \o Held) \o Stored
  BY DEF Kept
<1> QED BY <1>1, <1>2, <1>3, <1>4, <1>5, <1>6, ConcatProperties

LEMMA EmptyStored ==
  ASSUME BufInv, elements = 0
  PROVE  Stored \in Seq(Value) /\ Len(Stored) = 0
<1>1. PICK s \in Index : s = First /\ Stored = StoredOf(buf, s, elements)
  BY KeptType
<1>2. PICK b \in [Index -> Value] : b = buf
  BY DEF BufInv
<1>3. 0 \in Nat /\ 0 <= BufLen
  BY BufLenAssumption
<1>4. StoredOf(b, s, 0) \in Seq(Value) /\ Len(StoredOf(b, s, 0)) = 0
  BY <1>3, StoredType
<1> QED BY <1>1, <1>2, <1>4

(* A pull and its print, in the order of the code.                         *)
LEMMA StoreKeeps ==
  ASSUME BufInv, Linked, PullStore
  PROVE  Linked' /\ Kept' = Kept
<1>1. /\ place = "store" /\ elements' = reg - 1 /\ place' = "last"
      /\ UNCHANGED <<buf, start, end, c, received, lost, printed>>
  BY DEF PullStore, bytes
<1>2. reg = elements /\ c = buf[start] /\ elements \in Nat /\ elements <= BufLen
      /\ elements >= 1 /\ First = start
      /\ start \in Index /\ buf \in [Index -> Value] /\ printed \in Seq(Value)
  <2>1. left >= 1 /\ reg >= left /\ reg \in Nat /\ left \in Nat
    BY <1>1 DEF BufInv
  <2>2. reg >= 1
    BY <2>1, SMT
  <2> QED BY <1>1, <2>2 DEF BufInv, Linked, First
<1>3. PICK t \in Index : t = (start + 1) % BufLen
  BY <1>2, StoredTake
<1>4. PICK n \in Nat : n = elements - 1 /\ n <= BufLen /\ n + 1 = elements
  <2>1. elements - 1 \in Nat /\ elements - 1 <= BufLen /\ (elements - 1) + 1 = elements
    <3>1. elements \in Nat /\ elements >= 1 /\ elements <= BufLen
      BY <1>2
    <3> QED BY <3>1, BufLenAssumption, SMT
  <2> QED BY <2>1
<1>5. First' = t /\ elements' = n /\ Held' = <<c>> /\ Held = << >>
  BY <1>1, <1>2, <1>3, <1>4 DEF First, Held
<1>6. PICK q \in Seq(Value) : q = StoredOf(buf, t, n)
  BY <1>2, <1>4, StoredType
<1>7. Stored = <<c>> \o q
  BY <1>2, <1>3, <1>4, <1>6, StoredTake, KeptType
<1>8. Stored' = q
  BY <1>1, <1>5, <1>6 DEF Stored, StoredOf
<1>9. Kept' = Kept
  <2>1. <<c>> \in Seq(Value)
    BY DEF BufInv
  <2>2. (printed \o <<c>>) \o q = printed \o (<<c>> \o q)
    BY <1>2, <2>1, ConcatAssociative
  <2>3. printed \o << >> = printed
    BY <1>2, ConcatEmptySeq
  <2>4. Kept' = (printed \o <<c>>) \o q
    BY <1>1, <1>5, <1>8 DEF Kept
  <2>5. Kept = printed \o (<<c>> \o q)
    BY <1>5, <1>7, <2>3, KeptType
  <2> QED BY <2>2, <2>4, <2>5
<1>10. n = 0 => end = start
  <2>1. n = 0 => elements - 1 = 0 /\ elements > 0
    BY <1>4, SMT
  <2> QED BY <1>2, <2>1, FirstSlot DEF Linked
<1>11. n > 0 => end = (t + (n - 1)) % BufLen
  <2> SUFFICES ASSUME n > 0 PROVE end = (t + (n - 1)) % BufLen
    OBVIOUS
  <2>1. PICK k \in Index : k = n - 1 /\ k + 1 = elements - 1
    BY <1>4, BufLenAssumption, SMT DEF Index
  <2>2. elements > 0
    BY <1>4
  <2>3. (((start + 1) % BufLen) + k) % BufLen = (start + (k + 1)) % BufLen
    BY <1>2, NextSlot
  <2>4. end = (start + (elements - 1)) % BufLen
    BY <1>2, <2>2 DEF Linked
  <2> QED BY <1>3, <2>1, <2>3, <2>4
<1>12. Linked'
  BY <1>1, <1>5, <1>10, <1>11 DEF Linked
<1> QED BY <1>9, <1>12

LEMMA LastKeeps ==
  ASSUME BufInv, Linked, PullLast
  PROVE  Linked' /\ Kept' = Kept
<1>1. /\ place = "last" /\ place' = "print" /\ start' = (IF elements = 0 THEN start ELSE (start + 1) % BufLen)
      /\ UNCHANGED <<buf, end, elements, c, received, lost, printed>>
  BY DEF PullLast, bytes
<1>2. Held' = Held
  BY <1>1 DEF Held
<1>3. CASE elements = 0
  <2>1. Stored = << >> /\ Stored' = << >>
    <3>1. \A f : [i \in 1 .. 0 |-> f[i]] = << >>
      BY SMT
    <3>2. Stored \in Seq(Value) /\ Len(Stored) = 0
      BY <1>3, EmptyStored
    <3>3. Stored = << >>
      BY <3>2, EmptySeq
    <3>4. 1 .. elements = {} /\ 1 .. elements' = {}
      BY <1>1, <1>3, SMT
    <3>5. Stored' = Stored
      BY <3>4 DEF Stored
    <3> QED BY <3>3, <3>5
  <2>2. Kept' = Kept
    BY <1>1, <1>2, <2>1 DEF Kept
  <2>3. ~(elements > 0)
    BY <1>3, SMT
  <2> QED BY <1>1, <1>3, <2>2, <2>3 DEF Linked
<1>4. CASE elements # 0
  <2>1. First' = First
    BY <1>1, <1>4 DEF First
  <2>2. Stored' = Stored
    BY <1>1, <2>1 DEF Stored
  <2>3. Kept' = Kept
    BY <1>1, <1>2, <2>2 DEF Kept
  <2> QED BY <1>1, <1>4, <2>1, <2>3 DEF Linked
<1> QED BY <1>3, <1>4

LEMMA PrintKeeps ==
  ASSUME BufInv, Linked, PrintByte
  PROVE  Linked' /\ Kept' = Kept
<1>1. /\ place = "print" /\ place' = "isEmpty" /\ printed' = Append(printed, c)
      /\ UNCHANGED <<buf, start, end, elements, c, reg, received, lost>>
  BY DEF PrintByte, ring
<1>2. First' = First /\ Held = <<c>> /\ Held' = << >>
  BY <1>1 DEF First, Held
<1>3. Stored' = Stored
  BY <1>1, <1>2 DEF Stored
<1>4. printed \in Seq(Value) /\ c \in Value
  BY DEF BufInv
<1>5. printed' = printed \o <<c>> /\ printed' \in Seq(Value)
  BY <1>1, <1>4, AppendIsConcat
<1>6. printed' \o << >> = printed'
  BY <1>5, ConcatEmptySeq
<1>7. Kept' = Kept
  BY <1>2, <1>3, <1>5, <1>6 DEF Kept
<1> QED BY <1>1, <1>2, <1>7 DEF Linked

LEMMA PullKeeps ==
  ASSUME BufInv, Linked, PullStep
  PROVE  Linked' /\ Kept' = Kept
<1>1. CASE PullIsEmpty
  <2>1. elements # 0
    BY <1>1, SMT DEF PullIsEmpty, BufInv
  <2>2. /\ place = "isEmpty" /\ place' = "copy"
        /\ UNCHANGED <<buf, start, end, elements, c, reg, received, lost, printed>>
    BY <1>1, <2>1 DEF PullIsEmpty, ring, bytes
  <2>3. First' = First /\ Held' = Held
    BY <2>2 DEF First, Held
  <2> QED BY <2>2, <2>3 DEF Kept, Stored, Linked
<1>2. CASE PullCopy
  <2>1. /\ place = "copy" /\ place' = "load" /\ c' = buf[start]
        /\ UNCHANGED <<buf, start, end, elements, reg, received, lost, printed>>
    BY <1>2 DEF PullCopy, ring, bytes
  <2>2. First' = First /\ Held' = Held
    BY <2>1 DEF First, Held
  <2> QED BY <2>1, <2>2 DEF Kept, Stored, Linked
<1>3. CASE PullLoad
  <2>1. /\ place = "load" /\ place' = "store" /\ reg' = elements
        /\ UNCHANGED <<buf, start, end, elements, c, received, lost, printed>>
    BY <1>3 DEF PullLoad, ring, bytes
  <2>2. First' = First /\ Held' = Held
    BY <2>1 DEF First, Held
  <2> QED BY <2>1, <2>2 DEF Kept, Stored, Linked
<1> QED BY <1>1, <1>2, <1>3, StoreKeeps, LastKeeps, PrintKeeps DEF PullStep

(* One byte of recv_cb1: the last one, outside the window.                 *)
LEMMA AddKeeps ==
  ASSUME BufInv, Linked, AddByte, ~IsFull, ~Window
  PROVE  Linked' /\ Kept' = Kept \o <<received + 1>>
<1>1. /\ received' = received + 1 /\ buf' = [buf EXCEPT ![NextEndIndex] = received']
      /\ end' = NextEndIndex /\ elements' = elements + 1
      /\ UNCHANGED <<start, place, reg, c, printed, lost>>
  BY DEF AddByte, IsFull, pull
<1>2. PICK s \in Index : s = First /\ First' = s
  BY <1>1, KeptType DEF First
<1>3. PICK n \in Index : n = elements /\ n \in Nat
  BY BufLenAssumption, SMT DEF BufInv, Index, IsFull
<1>4. NextEndIndex = (s + n) % BufLen
  <2>1. CASE n = 0
    <3>1. First = start
      BY <1>3, <2>1 DEF Window, First
    <3> QED BY <1>2, <1>3, <2>1, <3>1 DEF NextEndIndex, Linked
  <2>2. CASE n # 0
    <3>1. n - 1 \in Index /\ (n - 1) + 1 = n /\ n > 0
      BY <1>3, <2>2, BufLenAssumption, SMT DEF Index
    <3>2. end = (s + (n - 1)) % BufLen
      BY <1>2, <1>3, <3>1 DEF Linked
    <3>3. NextEndIndex = (end + 1) % BufLen
      BY <1>3, <2>2 DEF NextEndIndex
    <3> QED BY <3>1, <3>2, <3>3, NextSlot
  <2> QED BY <2>1, <2>2
<1>5. buf \in [Index -> Value] /\ received' \in Value /\ NextEndIndex \in Index
      /\ received \in Nat /\ lost \subseteq Byte
  <2>1. received' \in Value
    BY <1>1, AddTypes, ByteAssumption, SMT DEF AddByte, BufInv, Value, Byte
  <2>2. NextEndIndex \in Index
    BY <1>4, NextSlot
  <2> QED BY <2>1, <2>2 DEF BufInv
<1>6. StoredOf(buf', s, n + 1) = StoredOf(buf, s, n) \o <<received'>>
  <2>1. PICK b \in [Index -> Value] : b = buf
    BY <1>5
  <2>2. PICK v \in Value : v = received'
    BY <1>5
  <2>3. PICK d \in [Index -> Value] : d = buf'
    BY <1>1, <1>5
  <2>4. /\ d[(s + n) % BufLen] = v
        /\ \A j \in Index : j # (s + n) % BufLen => d[j] = b[j]
    BY <1>1, <1>4, <1>5, <2>1, <2>2, <2>3
  <2>5. StoredOf(d, s, n + 1) = StoredOf(b, s, n) \o <<v>>
    BY <2>4, StoredAdd
  <2> QED BY <2>1, <2>2, <2>3, <2>5
<1>7. Stored' = Stored \o <<received'>>
  BY <1>1, <1>2, <1>3, <1>6 DEF Stored, StoredOf
<1>8. Held' = Held
  BY <1>1 DEF Held
<1>9. Kept' = Kept \o <<received + 1>>
  <2>1. printed \o Held \in Seq(Value) /\ Stored \in Seq(Value) /\ <<received'>> \in Seq(Value)
    BY <1>5, KeptType, ConcatProperties DEF BufInv
  <2>2. ((printed \o Held) \o Stored) \o <<received'>> = (printed \o Held) \o (Stored \o <<received'>>)
    BY <2>1, ConcatAssociative
  <2>3. Kept' = (printed \o Held) \o (Stored \o <<received'>>)
    BY <1>1, <1>7, <1>8 DEF Kept
  <2> QED BY <1>1, <2>2, <2>3 DEF Kept
<1>10. elements' # 0 /\ end' = (s + (elements' - 1)) % BufLen
  <2>1. elements' - 1 = n /\ elements' # 0
    BY <1>1, <1>3, SMT
  <2> QED BY <1>1, <1>4, <2>1
<1>11. place = "load" => c = buf'[start]
  <2> SUFFICES ASSUME place = "load" PROVE c = buf'[start]
    OBVIOUS
  <2>1. n # 0 /\ s = start /\ c = buf[start]
    <3>1. left >= 1 /\ elements >= left /\ elements \in Nat /\ left \in Nat
      BY DEF BufInv
    <3>2. elements # 0
      BY <3>1, SMT
    <3> QED BY <1>2, <1>3, <3>2 DEF Linked, First
  <2>2. 0 \in Index
    BY BufLenAssumption, SMT DEF Index
  <2>3. start # NextEndIndex
    BY <1>4, <2>1, <2>2, SlotsDiffer, FirstSlot
  <2> QED BY <1>1, <1>5, <2>1, <2>3
<1>12. lost \subseteq 1 .. received'
  <2>1. \A x \in 1 .. received : x \in 1 .. received'
    BY <1>1, <1>5, SMT
  <2> QED BY <2>1 DEF Linked
<1>13. place # "store"
  BY DEF Window
<1> QED BY <1>1, <1>2, <1>9, <1>10, <1>11, <1>12, <1>13 DEF Linked

Whole == Rising(Kept) /\ Elements(Kept) = 1 .. received \ lost

LEMMA RecvKeeps ==
  ASSUME BufInv, Linked, Whole, AddByte, ~exposed'
  PROVE  Linked' /\ Whole'
<1>1. PICK r \in Nat : r = received /\ received' = r + 1
  BY DEF AddByte, BufInv
<1>2. PICK k \in Seq(Value) : k = Kept
  BY KeptType
<1>3. lost \subseteq 1 .. r /\ r + 1 \notin 1 .. r
  BY <1>1, SMT DEF Linked
<1>4. \A x : x \in 1 .. r + 1 <=> x \in 1 .. r \/ x = r + 1
  BY <1>1, SMT
<1>5. CASE ~IsFull
  <2>1. ~Window /\ lost' = lost
    BY <1>5 DEF AddByte, IsFull
  <2>2. Linked' /\ Kept' = k \o <<r + 1>>
    BY <1>1, <1>2, <1>5, <2>1, AddKeeps
  <2>3. r + 1 \in Value
    BY <1>1, ByteAssumption, SMT DEF AddByte, BufInv, Value, Byte
  <2>4. <<r + 1>> \in Seq(Value) /\ Len(<<r + 1>>) = 1 /\ From(r, <<r + 1>>)
    BY <2>3, SMT DEF From
  <2>5. /\ Rising(k \o <<r + 1>>)
        /\ Elements(k \o <<r + 1>>) = Elements(k) \cup (r + 1 .. r + 1)
    <3>1. Rising(k) /\ Elements(k) \subseteq 1 .. r
      BY <1>1, <1>2 DEF Whole
    <3> QED BY <1>1, <2>4, <3>1, Extended
  <2>6. \A x : x \in r + 1 .. r + 1 <=> x = r + 1
    BY <1>1, SMT
  <2>7. Elements(k \o <<r + 1>>) = 1 .. r + 1 \ lost
    BY <1>1, <1>2, <1>3, <1>4, <2>5, <2>6 DEF Whole
  <2> QED BY <1>1, <2>1, <2>2, <2>5, <2>7 DEF Whole
<1>6. CASE IsFull
  <2>1. /\ lost' = lost \cup {r + 1}
        /\ UNCHANGED <<buf, start, end, elements, place, c, reg, printed>>
    BY <1>1, <1>6 DEF AddByte, IsFull, pull
  <2>2. First' = First /\ Held' = Held
    BY <2>1 DEF First, Held
  <2>3. Kept' = Kept
    BY <2>1, <2>2 DEF Kept, Stored
  <2>4. lost' \subseteq 1 .. received'
    BY <1>1, <1>3, <1>4, <2>1
  <2>5. Linked'
    BY <2>1, <2>2, <2>4 DEF Linked
  <2>6. 1 .. received' \ lost' = 1 .. r \ lost
    BY <1>1, <1>3, <1>4, <2>1
  <2> QED BY <1>1, <2>3, <2>5, <2>6 DEF Whole
<1> QED BY <1>5, <1>6

BytesInv == exposed \/ (Linked /\ Whole)

LEMMA BytesNext ==
  ASSUME DataInv, BytesInv, [Next]_vars
  PROVE  BytesInv'
<1>0. BufInv
  BY DEF DataInv
<1>1. ASSUME Linked, Whole, UNCHANGED <<ring, place, reg, c, bytes>>
      PROVE  Linked' /\ Whole'
  <2>1. UNCHANGED <<buf, start, end, elements, place, reg, c, received, lost, printed>>
    BY <1>1 DEF ring, bytes
  <2>2. First' = First /\ Held' = Held
    BY <2>1 DEF First, Held
  <2>3. Kept' = Kept
    BY <2>1, <2>2 DEF Kept, Stored
  <2> QED BY <1>1, <2>1, <2>2, <2>3 DEF Linked, Whole
<1>2. CASE UNCHANGED data
  BY <1>1, <1>2 DEF data, pull, BytesInv
<1>3. CASE recv_cb1
  <2>1. AddByte /\ (exposed => exposed')
    <3>1. AddByte
      BY <1>3 DEF recv_cb1
    <3>2. exposed' = exposed \/ exposed' = (exposed \/ Window)
      BY <3>1 DEF AddByte
    <3>3. exposed => exposed'
      BY <3>2, Zenon
    <3> QED BY <3>1, <3>3
  <2> QED BY <1>0, <2>1, RecvKeeps DEF BytesInv
<1>4. ASSUME NEW k \in 0 .. BufLen + 1, NEW arduino \in BOOLEAN, ReadBegin(k, arduino)
      PROVE  BytesInv'
  BY <1>1, <1>4 DEF ReadBegin, BytesInv
<1>5. CASE ReadByte
  <2>1. PullStep /\ exposed' = exposed
    BY <1>5 DEF ReadByte, PullStep
  <2>2. UNCHANGED <<received, lost>>
    BY <2>1 DEF PullStep, PullIsEmpty, PullCopy, PullLoad, PullStore, PullLast, PrintByte, bytes
  <2> QED BY <1>0, <2>1, <2>2, PullKeeps DEF BytesInv, Whole
<1> QED BY <1>2, <1>3, <1>4, <1>5, DataSteps

LEMMA BytesInit == user_init => BytesInv
<1> SUFFICES ASSUME user_init PROVE BytesInv
  OBVIOUS
<1>1. BufInv
  BY DataInit DEF DataInv
<1>2. /\ elements = 0 /\ place = "isEmpty" /\ start = 0 /\ end = 0
      /\ received = 0 /\ lost = {} /\ printed = << >>
  BY DEF user_init, BufInit
<1>3. Kept = << >>
  <2>1. Held = << >>
    BY <1>2 DEF Held
  <2>2. Stored \in Seq(Value) /\ Len(Stored) = 0
    BY <1>1, <1>2, EmptyStored
  <2>3. Stored = << >>
    BY <2>2, EmptySeq
  <2> QED BY <1>2, <2>1, <2>3 DEF Kept
<1>4. Whole
  BY <1>2, <1>3, SMT DEF Whole, Rising, Elements
<1>5. Linked
  BY <1>2, SMT DEF Linked
<1> QED BY <1>4, <1>5 DEF BytesInv

(* Unless recv_cb1 ran between the load and the store of elements, or      *)
(* between the store of none and its test (ringbuf.c:112-114), every byte  *)
(* received is printed, held by the pull or in the buffer, once and in     *)
(* order, or found the buffer full (user_main.c:12-18, 470-500): for every *)
(* buffer length, wherever else recv_cb1 preempts the pulls.               *)
THEOREM BytesAlwaysKept == Spec => []BytesKept
<1>1. BytesInv => BytesKept
  BY DEF BytesInv, Whole, Rising, Elements, BytesKept
<1> QED BY DataInit, DataNext, BytesInit, BytesNext, <1>1, PTL DEF Spec

-----------------------------------------------------------------------------
(* The connection: types, and what its fields have to do with the last     *)
(* command.                                                                *)
Conn1 == [state : State, remote_ip : 0 .. MaxConnect, remote_port : 0 .. MaxConnect]
Link == [n : 0 .. MaxConnect, ip : 0 .. MaxConnect, port : 0 .. MaxConnect, closing : BOOLEAN]

SocketInv ==
  /\ conn1 \in Conn1 /\ conn1.remote_port = issued
  /\ HostResolve_Ip1 \in 0 .. MaxConnect /\ (ccs = "found" => HostResolve_Ip1 = issued)
  /\ ccs \in {"idle", "found", "copied", "connect"}
  /\ lookups \subseteq 1 .. issued
  /\ link \in Link
  /\ link # NoLink <=> conn1.state \in {"WAIT", "CONNECT"}

HostInv ==
  /\ issued \in 0 .. MaxConnect /\ owed \in 0 .. issued
  /\ answered \subseteq Command /\ silent \subseteq Command
  /\ {hasty, misled, stopped} \subseteq BOOLEAN
  /\ ccs # "idle" => issued \in Command
  /\ conn1.state = "WAIT" => link.n \in Command

Types == SocketInv /\ HostInv

LEMMA TypesInit == user_init => Types
<1> SUFFICES ASSUME user_init PROVE Types
  OBVIOUS
<1>1. 0 \in 0 .. MaxConnect
  BY BoundAssumption
<1>2. conn1 \in Conn1
  BY <1>1 DEF user_init, Conn1, State
<1>3. link \in Link
  BY <1>1 DEF user_init, Link, NoLink
<1>4. SocketInv
  BY <1>1, <1>2, <1>3 DEF user_init, SocketInv
<1>5. 0 \in 0 .. 0
  BY SMT
<1>6. HostInv
  BY <1>1, <1>5 DEF user_init, HostInv
<1> QED BY <1>4, <1>6 DEF Types

LEMMA OneLessType ==
  ASSUME NEW m \in Nat, NEW k \in 0 .. m
  PROVE  OneLess(k) \in 0 .. m
BY SMT DEF OneLess

LEMMA AnswerTypes ==
  ASSUME HostInv, NEW n \in Command, Answer(n) \/ NoAnswer(n)
  PROVE  /\ issued' = issued /\ owed' \in 0 .. issued
         /\ answered' \subseteq Command /\ silent' \subseteq Command
         /\ UNCHANGED <<hasty, misled, stopped>>
<1>1. issued \in Nat /\ owed \in 0 .. issued
  BY BoundAssumption DEF HostInv
<1>2. OneLess(owed) \in 0 .. issued
  BY <1>1, OneLessType
<1> QED BY <1>2 DEF Answer, NoAnswer, HostInv

(* espconn_connect, for read_sr and for the DNS callback.                  *)
LEMMA ConnectTypes ==
  ASSUME conn1 \in Conn1, link \in Link, HostInv,
         link # NoLink <=> conn1.state \in {"WAIT", "CONNECT"},
         NEW n \in Command, NEW ip \in 0 .. MaxConnect, espconn_connect(n, ip, conn1.remote_port)
  PROVE  /\ conn1' \in Conn1 /\ conn1'.remote_port = conn1.remote_port
         /\ link' \in Link
         /\ issued' = issued /\ owed' \in 0 .. issued
         /\ answered' \subseteq Command /\ silent' \subseteq Command
         /\ {hasty', misled', stopped'} \subseteq BOOLEAN
         /\ conn1'.state = "WAIT" => link'.n \in Command
         /\ link' # NoLink <=> conn1'.state \in {"WAIT", "CONNECT"}
<1>1. n \in 0 .. MaxConnect /\ n # 0
  BY BoundAssumption DEF Command
<1>2. CASE /\ link' = [n |-> n, ip |-> ip, port |-> conn1.remote_port, closing |-> FALSE]
           /\ conn1' = [state |-> "WAIT", remote_ip |-> ip, remote_port |-> conn1.remote_port]
           /\ UNCHANGED host
  BY <1>1, <1>2 DEF Conn1, Link, NoLink, HostInv, host, State
<1>3. CASE conn1' = [conn1 EXCEPT !.remote_ip = ip] /\ NoAnswer(n) /\ UNCHANGED link
  BY <1>1, <1>3, AnswerTypes DEF Conn1, HostInv
<1> QED BY <1>2, <1>3 DEF espconn_connect

(* The steps of read_sr that start a connection.                           *)
LEMMA CcsTypes ==
  ASSUME Types,
         LookupFound \/ LookupStarted \/ LookupRefused \/ CopyAddress
           \/ SwitchOnState \/ Connect
  PROVE  Types'
<1> USE DEF Types, SocketInv, HostInv
<1>1. ASSUME issued < MaxConnect
      PROVE  /\ issued + 1 \in Command /\ issued + 1 \in 0 .. MaxConnect
             /\ owed + 1 \in 0 .. issued + 1 /\ owed \in 0 .. issued + 1
             /\ 1 .. issued \subseteq 1 .. issued + 1 /\ issued + 1 \in 1 .. issued + 1
             /\ (owed > 0) \in BOOLEAN
  BY <1>1, BoundAssumption, SMT DEF Command
<1>2. CASE LookupFound
  <2>1. conn1' \in Conn1 /\ conn1'.remote_port = issued + 1 /\ conn1'.state = conn1.state
    BY <1>1, <1>2 DEF LookupFound, Conn1
  <2> QED BY <1>1, <1>2, <2>1 DEF LookupFound, AskCommand
<1>3. CASE LookupStarted
  <2>1. conn1' \in Conn1 /\ conn1'.remote_port = issued + 1 /\ conn1'.state = conn1.state
    BY <1>1, <1>3 DEF LookupStarted, Conn1
  <2> QED BY <1>1, <1>3, <2>1 DEF LookupStarted, AskCommand, Idle
<1>4. CASE LookupRefused
  <2>1. conn1' \in Conn1 /\ conn1'.remote_port = issued + 1 /\ conn1'.state = conn1.state
    BY <1>1, <1>4 DEF LookupRefused, Conn1
  <2> QED BY <1>1, <1>4, <2>1 DEF LookupRefused, AskCommand, Idle
<1>5. CASE CopyAddress
  <2>1. conn1' \in Conn1 /\ conn1'.remote_port = conn1.remote_port /\ conn1'.state = conn1.state
    BY <1>5 DEF CopyAddress, Conn1
  <2> QED BY <1>5, <2>1 DEF CopyAddress, host
<1>6. CASE SwitchOnState
  <2>1. issued \in Command
    BY <1>6 DEF SwitchOnState
  <2>2. CASE ccs' = "connect" /\ UNCHANGED host
    BY <1>6, <2>1, <2>2 DEF SwitchOnState, host
  <2>3. CASE ccs' = "idle" /\ Answer(issued)
    BY <1>6, <2>1, <2>3, AnswerTypes DEF SwitchOnState
  <2> QED BY <1>6, <2>2, <2>3 DEF SwitchOnState
<1>7. CASE Connect
  <2>1. issued \in Command /\ conn1.remote_ip \in 0 .. MaxConnect
    BY <1>7 DEF Connect, Conn1
  <2> HIDE DEF HostInv
  <2>2. espconn_connect(issued, conn1.remote_ip, conn1.remote_port)
    BY <1>7 DEF Connect
  <2>3. /\ conn1' \in Conn1 /\ conn1'.remote_port = conn1.remote_port
        /\ link' \in Link
        /\ issued' = issued /\ owed' \in 0 .. issued
        /\ answered' \subseteq Command /\ silent' \subseteq Command
        /\ {hasty', misled', stopped'} \subseteq BOOLEAN
        /\ conn1'.state = "WAIT" => link'.n \in Command
        /\ link' # NoLink <=> conn1'.state \in {"WAIT", "CONNECT"}
    BY <2>1, <2>2, ConnectTypes
  <2> USE DEF HostInv
  <2> QED BY <1>7, <2>3 DEF Connect
<1> QED BY <1>2, <1>3, <1>4, <1>5, <1>6, <1>7

LEMMA DisconnectTypes ==
  ASSUME Types, espconn_disconnect
  PROVE  Types'
<1> USE DEF Types, SocketInv, HostInv, espconn_disconnect
<1>1. /\ issued' = issued /\ answered' = answered /\ ccs' = ccs /\ ccs = "idle"
      /\ UNCHANGED <<HostResolve_Ip1, lookups, hasty, misled>>
      /\ stopped' \in BOOLEAN
  BY DEF Stop, Idle
<1>2. CASE conn1.state = "CONNECT" /\ link' = [link EXCEPT !.closing = TRUE]
           /\ UNCHANGED <<conn1, silent, owed>>
  <2>1. link' \in Link /\ link' # NoLink
    BY <1>2 DEF Link, NoLink
  <2> QED BY <1>1, <1>2, <2>1
<1>3. CASE /\ conn1.state = "WAIT" /\ link' = NoLink
           /\ conn1' = [conn1 EXCEPT !.state = "CLOSE"]
           /\ silent' = silent \cup {link.n} /\ owed' = OneLess(owed)
  <2>1. owed' \in 0 .. issued
    BY <1>3, OneLessType, BoundAssumption
  <2>2. conn1' \in Conn1 /\ conn1'.remote_port = conn1.remote_port /\ conn1'.state = "CLOSE"
    BY <1>3 DEF Conn1, State
  <2>3. link' \in Link
    BY <1>3, BoundAssumption DEF Link, NoLink
  <2> QED BY <1>1, <1>3, <2>1, <2>2, <2>3
<1>4. CASE UNCHANGED <<conn1, link, silent, owed>>
  BY <1>1, <1>4
<1> QED BY <1>2, <1>3, <1>4

(* The callbacks.                                                          *)
LEMMA ResolveTypes ==
  ASSUME Types, NEW n \in Command, ResolveNothing(n) \/ ResolveAddress(n)
  PROVE  Types'
<1> USE DEF Types, SocketInv, HostInv
<1>1. n \in 0 .. MaxConnect
  BY BoundAssumption DEF Command
<1>2. CASE ResolveNothing(n)
  BY <1>2, AnswerTypes DEF ResolveNothing
<1>3. CASE ResolveAddress(n)
  <2>1. UNCHANGED <<HostResolve_Ip1, ccs>> /\ lookups' \subseteq lookups
    BY <1>3 DEF ResolveAddress
  <2>2. CASE espconn_connect(n, n, conn1.remote_port)
    <3> HIDE DEF HostInv
    <3>1. /\ conn1' \in Conn1 /\ conn1'.remote_port = conn1.remote_port
          /\ link' \in Link
          /\ issued' = issued /\ owed' \in 0 .. issued
          /\ answered' \subseteq Command /\ silent' \subseteq Command
          /\ {hasty', misled', stopped'} \subseteq BOOLEAN
          /\ conn1'.state = "WAIT" => link'.n \in Command
          /\ link' # NoLink <=> conn1'.state \in {"WAIT", "CONNECT"}
      BY <1>1, <2>2, ConnectTypes
    <3> USE DEF HostInv
    <3> QED BY <2>1, <3>1
  <2>3. CASE conn1' = [conn1 EXCEPT !.remote_ip = n] /\ Answer(n) /\ UNCHANGED link
    <3>1. conn1' \in Conn1 /\ conn1'.remote_port = conn1.remote_port /\ conn1'.state = conn1.state
      BY <1>1, <2>3 DEF Conn1
    <3> QED BY <2>1, <2>3, <3>1, AnswerTypes
  <2> QED BY <1>3, <2>2, <2>3 DEF ResolveAddress
<1> QED BY <1>2, <1>3

LEMMA CallbackTypes ==
  ASSUME Types, connectCB1 \/ errorCB1 \/ ErrorOpen \/ disconnectCB1
  PROVE  Types'
<1> USE DEF Types, SocketInv, HostInv
<1>1. CASE connectCB1
  <2>1. /\ conn1' \in Conn1 /\ conn1'.remote_port = conn1.remote_port
        /\ conn1'.state = "CONNECT" /\ link # NoLink
    BY <1>1 DEF connectCB1, Conn1, State
  <2>2. link.n \in Command /\ Answer(link.n)
    BY <1>1 DEF connectCB1
  <2> QED BY <1>1, <2>1, <2>2, AnswerTypes DEF connectCB1
<1>2. ASSUME Gone
      PROVE  /\ conn1' \in Conn1 /\ conn1'.remote_port = conn1.remote_port
             /\ conn1'.state = "CLOSE" /\ link' = NoLink /\ link' \in Link
             /\ UNCHANGED <<HostResolve_Ip1, ccs, lookups>>
  <2>1. 0 \in 0 .. MaxConnect
    BY BoundAssumption
  <2> QED BY <1>2, <2>1 DEF Gone, Conn1, Link, NoLink, State
<1>3. CASE errorCB1
  <2>1. link.n \in Command /\ Answer(link.n)
    BY <1>3 DEF errorCB1
  <2> QED BY <1>2, <1>3, <2>1, AnswerTypes DEF errorCB1
<1>4. CASE ErrorOpen
  <2>1. owed' \in 0 .. issued
    BY <1>4, OneLessType, BoundAssumption DEF ErrorOpen
  <2>2. misled' \in BOOLEAN
    BY <1>4 DEF ErrorOpen
  <2> QED BY <1>2, <1>4, <2>1, <2>2 DEF ErrorOpen
<1>5. CASE disconnectCB1
  BY <1>2, <1>5 DEF disconnectCB1, host
<1> QED BY <1>1, <1>3, <1>4, <1>5

LEMMA TypesNext == Types /\ [Next]_vars => Types'
<1> SUFFICES ASSUME Types, [Next]_vars PROVE Types'
  OBVIOUS
<1>1. CASE UNCHANGED <<socket, host>>
  BY <1>1 DEF socket, host, Types, SocketInv, HostInv
<1>2. CASE recv_cb1 \/ PUSHMODE
  BY <1>1, <1>2 DEF recv_cb1, PUSHMODE
<1>3. ASSUME NEW k \in 0 .. BufLen + 1, NEW arduino \in BOOLEAN, ReadBegin(k, arduino)
      PROVE  Types'
  BY <1>1, <1>3 DEF ReadBegin
<1>4. CASE ReadByte
  BY <1>1, <1>4 DEF ReadByte
<1> QED BY <1>1, <1>2, <1>3, <1>4, CcsTypes, DisconnectTypes, ResolveTypes, CallbackTypes
        DEF Next, read_sr, Callback, vars

LEMMA ModeNext ==
  ASSUME push_mode \in PushMode, [Next]_vars
  PROVE  push_mode' \in PushMode
<1>1. CASE LookupFound \/ LookupStarted \/ LookupRefused
  BY <1>1 DEF LookupFound, LookupStarted, LookupRefused
<1>2. CASE CopyAddress \/ SwitchOnState \/ Connect
  BY <1>2 DEF CopyAddress, SwitchOnState, Connect
<1>3. CASE espconn_disconnect \/ PUSHMODE
  BY <1>3 DEF espconn_disconnect, PUSHMODE
<1>4. CASE \E n \in Command : ResolveNothing(n) \/ ResolveAddress(n)
  BY <1>4 DEF ResolveNothing, ResolveAddress
<1>5. CASE connectCB1 \/ errorCB1 \/ ErrorOpen \/ disconnectCB1
  BY <1>5 DEF connectCB1, errorCB1, ErrorOpen, disconnectCB1, Gone
<1>6. CASE recv_cb1 \/ ReadByte
  BY <1>6 DEF recv_cb1, ReadByte
<1>7. CASE \E k \in 0 .. BufLen + 1, arduino \in BOOLEAN : ReadBegin(k, arduino)
  BY <1>7 DEF ReadBegin
<1> QED BY <1>1, <1>2, <1>3, <1>4, <1>5, <1>6, <1>7 DEF Next, read_sr, Callback, vars

LEMMA BufTypes ==
  ASSUME BufInv, sent \in Nat, sent + left <= BufLen
  PROVE  BufTypeOK
<1>1. /\ left \in 0 .. BufLen /\ elements \in 0 .. BufLen /\ reg \in 0 .. BufLen
      /\ received \in 0 .. MaxByte
  <2>1. /\ left \in Nat /\ elements \in Nat /\ elements <= BufLen /\ reg \in Nat
        /\ reg <= BufLen /\ received \in Nat /\ received <= MaxByte
    BY DEF BufInv
  <2> QED BY <2>1, BufLenAssumption, ByteAssumption, SMT
<1>2. place \in {"copy", "load"} => elements > 0
  <2>1. left \in Nat /\ elements \in Nat
    BY DEF BufInv
  <2>2. left >= 1 /\ elements >= left => elements > 0
    BY <2>1, SMT
  <2> QED BY <2>2 DEF BufInv
<1> QED BY <1>1, <1>2 DEF BufInv, BufTypeOK, Value

(* Every variable keeps its type: client1_buf never holds more than its    *)
(* length, and a link exists exactly while conn1.state says so, for any    *)
(* number of commands and bytes.                                           *)
THEOREM TypeCorrect == Spec => []TypeOK
<1> DEFINE ModeInv == push_mode \in PushMode
<1>1. DataInv /\ Types /\ ModeInv => TypeOK
  <2> SUFFICES ASSUME DataInv, Types, ModeInv PROVE TypeOK
    OBVIOUS
  <2>1. lookups \subseteq Command /\ owed \in 0 .. MaxConnect
    BY BoundAssumption, SMT DEF Types, SocketInv, HostInv, Command
  <2>2. sent \in 0 .. BufLen /\ told \in Nat
    <3>1. left \in Nat /\ sent \in Nat /\ sent + left <= BufLen /\ told \in Nat
      BY DEF DataInv, BufInv
    <3> QED BY <3>1, BufLenAssumption, SMT
  <2>3. BufTypeOK
    BY BufTypes DEF DataInv
  <2> QED BY <2>1, <2>2, <2>3 DEF Types, SocketInv, HostInv, TypeOK, Conn1, Link
<1>2. user_init => ModeInv
  BY ModeAssumption DEF user_init
<1>3. ModeInv /\ [Next]_vars => ModeInv'
  BY ModeNext
<1> QED BY DataInit, DataNext, TypesInit, TypesNext, <1>1, <1>2, <1>3, PTL DEF Spec

-----------------------------------------------------------------------------
(* What is under way.  As long as no error of an open connection misled    *)
(* it, the host waits for exactly as many answers as there are lookups,    *)
(* commands in read_sr and attempts: when it waits for none, nothing of an *)
(* earlier command is left to change the address or to connect.            *)
InReadSr == IF ccs = "idle" THEN 0 ELSE 1
Attempts == IF conn1.state = "WAIT" THEN 1 ELSE 0
UnderWay == Cardinality(lookups) + InReadSr + Attempts
Counting == IsFiniteSet(lookups) /\ (~misled => owed = UnderWay)

Quiet ==
  ~hasty /\ ~misled =>
    /\ lookups \subseteq {issued}
    /\ ccs # "idle" => lookups = {}
    /\ ccs \in {"copied", "connect"} => conn1.remote_ip = issued

StopInv == stopped => owed = 0

Safe == Counting /\ Quiet /\ StopInv /\ StopHonoured

LEMMA UnderWayType ==
  ASSUME IsFiniteSet(lookups)
  PROVE  /\ Cardinality(lookups) \in Nat /\ InReadSr \in {0, 1} /\ Attempts \in {0, 1}
         /\ UnderWay \in Nat
<1>1. Cardinality(lookups) \in Nat
  BY FS_CardinalityType
<1>2. InReadSr \in {0, 1} /\ Attempts \in {0, 1}
  BY DEF InReadSr, Attempts
<1> QED BY <1>1, <1>2, SMT DEF UnderWay

LEMMA NothingLeft ==
  ASSUME Types, Counting, ~misled, owed = 0
  PROVE  lookups = {} /\ ccs = "idle" /\ conn1.state # "WAIT"
<1>1. Cardinality(lookups) = 0 /\ InReadSr = 0 /\ Attempts = 0
  BY UnderWayType, SMT DEF Counting, UnderWay
<1> QED BY <1>1, FS_EmptySet DEF Counting, InReadSr, Attempts

(* While something is under way, the host has not stopped the client.      *)
LEMMA Busy ==
  ASSUME Types, Safe, ~misled, lookups # {} \/ ccs # "idle" \/ conn1.state = "WAIT"
  PROVE  owed \in Nat /\ owed > 0 /\ ~stopped
<1>1. owed \in Nat
  BY BoundAssumption DEF Types, HostInv
<1>2. owed # 0
  BY NothingLeft DEF Safe
<1> QED BY <1>1, <1>2, SMT DEF Safe, StopInv

(* Four ways to keep count.                                                *)
LEMMA CountSame ==
  ASSUME Counting, misled => misled', owed' = owed, IsFiniteSet(lookups'),
         UnderWay' = UnderWay
  PROVE  Counting'
BY DEF Counting

LEMMA CountMore ==
  ASSUME Counting, misled => misled', owed' = owed + 1, IsFiniteSet(lookups'),
         UnderWay' = UnderWay + 1
  PROVE  Counting'
BY DEF Counting

LEMMA CountLess ==
  ASSUME Counting, misled => misled', owed' = OneLess(owed), IsFiniteSet(lookups'),
         UnderWay' \in Nat, UnderWay = UnderWay' + 1
  PROVE  Counting'
<1>1. ASSUME NEW m \in Nat PROVE OneLess(m + 1) = m
  BY SMT DEF OneLess
<1>2. OneLess(UnderWay) = UnderWay'
  BY <1>1
<1> QED BY <1>2 DEF Counting

LEMMA CountNone ==
  ASSUME Counting, misled => misled', ~misled' => owed = 0 /\ owed' = 0,
         IsFiniteSet(lookups'), UnderWay' = UnderWay
  PROVE  Counting'
BY DEF Counting

LEMMA SafeInit == user_init => Safe
<1> SUFFICES ASSUME user_init PROVE Safe
  OBVIOUS
<1>1. IsFiniteSet(lookups) /\ Cardinality(lookups) = 0
  BY FS_EmptySet DEF user_init
<1>2. InReadSr = 0 /\ Attempts = 0
  BY DEF user_init, InReadSr, Attempts
<1>3. Counting
  BY <1>1, <1>2, SMT DEF user_init, Counting, UnderWay
<1> QED BY <1>3 DEF user_init, Safe, Quiet, StopInv, StopHonoured

(* The three outcomes of a lookup.                                         *)
LEMMA AskSafe ==
  ASSUME Types, Safe, LookupFound \/ LookupStarted \/ LookupRefused
  PROVE  Safe'
<1>1. /\ issued' = issued + 1 /\ hasty' = (owed > 0) /\ stopped' = FALSE /\ misled' = misled
      /\ ccs = "idle" /\ conn1'.state = conn1.state
  BY DEF LookupFound, LookupStarted, LookupRefused, AskCommand, Idle, Types, SocketInv, Conn1
<1>2. owed \in Nat /\ issued \in Nat /\ lookups \subseteq 1 .. issued
  BY BoundAssumption DEF Types, SocketInv, HostInv
<1>3. IsFiniteSet(lookups)
  BY DEF Safe, Counting
<1>4. ~hasty' /\ ~misled' => lookups = {}
  <2> SUFFICES ASSUME ~hasty', ~misled' PROVE lookups = {}
    OBVIOUS
  <2>1. ~(owed > 0) /\ ~misled
    BY <1>1
  <2>2. owed = 0
    BY <1>2, <2>1
  <2> QED BY <2>1, <2>2, NothingLeft DEF Safe
<1>5. StopInv' /\ StopHonoured'
  BY <1>1 DEF StopInv, StopHonoured
<1>6. Quiet'
  BY <1>1, <1>4 DEF Quiet, LookupFound, LookupStarted, LookupRefused
<1>7. Attempts' = Attempts
  BY <1>1 DEF Attempts
<1>8. Counting'
  <2>1. CASE LookupFound
    <3>1. lookups' = lookups /\ owed' = owed + 1 /\ InReadSr' = InReadSr + 1
      BY <1>1, <2>1 DEF LookupFound, InReadSr
    <3>2. UnderWay' = UnderWay + 1
      BY <1>3, <1>7, <3>1, UnderWayType, SMT DEF UnderWay
    <3> QED BY <1>1, <1>3, <3>1, <3>2, CountMore DEF Safe
  <2>2. CASE LookupStarted
    <3>1. /\ lookups' = lookups \cup {issued + 1} /\ owed' = owed + 1
          /\ InReadSr' = InReadSr
      BY <1>1, <2>2 DEF LookupStarted, InReadSr
    <3>2. issued + 1 \notin lookups
      BY <1>2, SMT
    <3>3. IsFiniteSet(lookups') /\ Cardinality(lookups') = Cardinality(lookups) + 1
      BY <1>3, <3>1, <3>2, FS_AddElement
    <3>4. UnderWay' = UnderWay + 1
      BY <1>3, <1>7, <3>1, <3>3, UnderWayType, SMT DEF UnderWay
    <3> QED BY <1>1, <3>1, <3>3, <3>4, CountMore DEF Safe
  <2>3. CASE LookupRefused
    <3>1. lookups' = lookups /\ owed' = owed /\ InReadSr' = InReadSr
      BY <1>1, <2>3 DEF LookupRefused, InReadSr
    <3>2. UnderWay' = UnderWay
      BY <1>7, <3>1 DEF UnderWay
    <3> QED BY <1>1, <1>3, <3>1, <3>2, CountSame DEF Safe
  <2> QED BY <2>1, <2>2, <2>3
<1> QED BY <1>5, <1>6, <1>8 DEF Safe

(* espconn_connect turns what asked for it into an attempt, or ends it     *)
(* without an answer.                                                      *)
LEMMA ConnectCount ==
  ASSUME Types, Counting, NEW n, NEW ip, NEW port, espconn_connect(n, ip, port),
         IsFiniteSet(lookups'),
         Cardinality(lookups') + InReadSr' + 1 = Cardinality(lookups) + InReadSr
  PROVE  Counting'
<1>1. /\ Cardinality(lookups) \in Nat /\ Cardinality(lookups') \in Nat
      /\ InReadSr \in {0, 1} /\ InReadSr' \in {0, 1} /\ Attempts \in {0, 1}
  BY FS_CardinalityType, UnderWayType DEF Counting, InReadSr
<1>2. CASE /\ link = NoLink
           /\ conn1' = [state |-> "WAIT", remote_ip |-> ip, remote_port |-> port]
           /\ UNCHANGED host
  <2>1. Attempts = 0 /\ Attempts' = 1
    BY <1>2 DEF Attempts, Types, SocketInv
  <2>2. UnderWay' = UnderWay
    BY <1>1, <2>1, SMT DEF UnderWay
  <2> QED BY <1>2, <2>2, CountSame DEF host
<1>3. CASE conn1' = [conn1 EXCEPT !.remote_ip = ip] /\ NoAnswer(n)
  <2>1. Attempts' = Attempts
    BY <1>3 DEF Attempts, Types, SocketInv, Conn1
  <2>2. UnderWay = UnderWay' + 1 /\ UnderWay' \in Nat
    BY <1>1, <2>1, SMT DEF UnderWay
  <2> QED BY <1>3, <2>2, CountLess DEF NoAnswer
<1> QED BY <1>2, <1>3 DEF espconn_connect

(* What the host makes of it leaves StopInv as it is.                      *)
LEMMA StopKept ==
  ASSUME StopInv, stopped' = stopped, owed' \in {owed, OneLess(owed)}
  PROVE  StopInv'
BY DEF StopInv, OneLess

LEMMA ConnectHost ==
  ASSUME NEW n, NEW ip, NEW port, espconn_connect(n, ip, port)
  PROVE  /\ UNCHANGED <<issued, hasty, misled, stopped>>
         /\ owed' \in {owed, OneLess(owed)}
BY DEF espconn_connect, NoAnswer, host

(* read_sr between the lookup and the connection.                          *)
LEMMA CcsSafe ==
  ASSUME Types, Safe, CopyAddress \/ SwitchOnState \/ Connect
  PROVE  Safe'
<1>1. /\ UNCHANGED <<issued, hasty, misled, stopped, lookups>> /\ ccs # "idle"
      /\ owed' \in {owed, OneLess(owed)}
  BY ConnectHost DEF CopyAddress, SwitchOnState, Connect, Answer, host
<1>2. IsFiniteSet(lookups') /\ IsFiniteSet(lookups)
  BY <1>1 DEF Safe, Counting
<1>3. InReadSr = 1
  BY <1>1 DEF InReadSr
<1>4. StopInv'
  BY <1>1, StopKept DEF Safe
<1>5. StopHonoured'
  BY <1>1, Busy DEF StopHonoured
<1>6. CASE CopyAddress
  <2>1. conn1'.state = conn1.state /\ conn1'.remote_ip = HostResolve_Ip1
    BY <1>6 DEF CopyAddress, Types, SocketInv, Conn1
  <2>2. HostResolve_Ip1 = issued /\ owed' = owed
    BY <1>6 DEF CopyAddress, Types, SocketInv, HostInv, host
  <2>3. InReadSr' = InReadSr /\ Attempts' = Attempts
    BY <1>6, <2>1 DEF CopyAddress, InReadSr, Attempts
  <2>4. UnderWay' = UnderWay
    BY <1>1, <2>3 DEF UnderWay
  <2>5. Counting'
    BY <1>1, <1>2, <2>2, <2>4, CountSame DEF Safe
  <2> QED BY <1>1, <1>4, <1>5, <1>6, <2>1, <2>2, <2>5 DEF Safe, Quiet, CopyAddress
<1>7. CASE SwitchOnState
  <2>1. Attempts' = Attempts /\ conn1' = conn1
    BY <1>7 DEF SwitchOnState, Attempts
  <2>2. Quiet'
    BY <1>1, <1>7 DEF Safe, Quiet, SwitchOnState
  <2>3. CASE ccs' = "connect" /\ UNCHANGED host
    <3>1. InReadSr' = InReadSr
      BY <1>3, <2>3 DEF InReadSr
    <3>2. UnderWay' = UnderWay
      BY <1>1, <2>1, <3>1 DEF UnderWay
    <3> QED BY <1>1, <1>2, <1>4, <1>5, <2>2, <2>3, <3>2, CountSame DEF Safe, host
  <2>4. CASE ccs' = "idle" /\ Answer(issued)
    <3>1. InReadSr' = 0
      BY <2>4 DEF InReadSr
    <3>2. UnderWay = UnderWay' + 1 /\ UnderWay' \in Nat
      BY <1>1, <1>2, <1>3, <2>1, <3>1, UnderWayType, SMT DEF UnderWay
    <3> QED BY <1>1, <1>2, <1>4, <1>5, <2>2, <2>4, <3>2, CountLess DEF Safe, Answer
  <2> QED BY <1>7, <2>3, <2>4 DEF SwitchOnState
<1>8. CASE Connect
  <2>1. ccs' = "idle" /\ espconn_connect(issued, conn1.remote_ip, conn1.remote_port)
    BY <1>8 DEF Connect
  <2>2. InReadSr' = 0
    BY <2>1 DEF InReadSr
  <2>3. Cardinality(lookups') + InReadSr' + 1 = Cardinality(lookups) + InReadSr
    BY <1>1, <1>2, <1>3, <2>2, UnderWayType, SMT
  <2>4. Counting'
    BY <1>2, <2>1, <2>3, ConnectCount DEF Safe
  <2> QED BY <1>1, <1>4, <1>5, <2>1, <2>4 DEF Safe, Quiet
<1> QED BY <1>6, <1>7, <1>8

LEMMA DisconnectSafe ==
  ASSUME Types, Safe, espconn_disconnect
  PROVE  Safe'
<1>1. /\ UNCHANGED <<issued, hasty, misled, lookups, ccs>> /\ ccs = "idle"
      /\ stopped' = (owed = 0) /\ IsFiniteSet(lookups') /\ IsFiniteSet(lookups)
  BY DEF espconn_disconnect, Stop, Idle, Safe, Counting
<1>2. owed' \in {owed, OneLess(owed)}
  BY DEF espconn_disconnect
<1>3. StopInv'
  BY <1>1, <1>2 DEF StopInv, OneLess
<1>4. Quiet'
  BY <1>1 DEF Safe, Quiet
<1>5. InReadSr' = InReadSr
  BY <1>1 DEF InReadSr
<1>6. CASE conn1.state = "CONNECT" /\ link' = [link EXCEPT !.closing = TRUE]
           /\ UNCHANGED <<conn1, silent, owed>>
  <2>1. UnderWay' = UnderWay
    BY <1>1, <1>5, <1>6 DEF UnderWay, Attempts
  <2>2. link'.closing
    BY <1>6 DEF Types, SocketInv, Link
  <2>3. Counting'
    BY <1>1, <1>6, <2>1, CountSame DEF Safe
  <2> QED BY <1>3, <1>4, <2>2, <2>3 DEF Safe, StopHonoured
<1>7. CASE /\ conn1.state = "WAIT" /\ link' = NoLink
           /\ conn1' = [conn1 EXCEPT !.state = "CLOSE"]
           /\ owed' = OneLess(owed)
  <2>1. Attempts = 1 /\ Attempts' = 0
    BY <1>7 DEF Types, SocketInv, Conn1, Attempts
  <2>2. UnderWay = UnderWay' + 1 /\ UnderWay' \in Nat
    BY <1>1, <1>5, <2>1, UnderWayType, SMT DEF UnderWay
  <2>3. Counting'
    BY <1>1, <1>7, <2>2, CountLess DEF Safe
  <2> QED BY <1>3, <1>4, <1>7, <2>3 DEF Safe, StopHonoured
<1>8. CASE conn1.state # "CONNECT" /\ UNCHANGED <<conn1, link, silent, owed>>
  <2>1. UnderWay' = UnderWay
    BY <1>1, <1>5, <1>8 DEF UnderWay, Attempts
  <2>2. Counting'
    BY <1>1, <1>8, <2>1, CountSame DEF Safe
  <2>3. StopHonoured'
    <3> SUFFICES ASSUME stopped', ~misled' PROVE link' = NoLink
      BY DEF StopHonoured
    <3>1. conn1.state # "WAIT"
      BY <1>1, NothingLeft DEF Safe
    <3> QED BY <1>8, <3>1 DEF Types, SocketInv
  <2> QED BY <1>3, <1>4, <2>2, <2>3 DEF Safe
<1> QED BY <1>6, <1>7, <1>8 DEF espconn_disconnect

(* The end of a lookup.                                                    *)
LEMMA ResolveSafe ==
  ASSUME Types, Safe, NEW n \in Command, ResolveNothing(n) \/ ResolveAddress(n)
  PROVE  Safe'
<1>1. /\ UNCHANGED <<issued, hasty, misled, stopped, ccs>>
      /\ n \in lookups /\ lookups' = lookups \ {n}
      /\ owed' \in {owed, OneLess(owed)}
  <2>1. Answer(n) \/ NoAnswer(n) =>
          UNCHANGED <<issued, hasty, misled, stopped>> /\ owed' = OneLess(owed)
    BY DEF Answer, NoAnswer
  <2> QED BY <2>1, ConnectHost DEF ResolveNothing, ResolveAddress
<1>2. IsFiniteSet(lookups)
  BY DEF Safe, Counting
<1>3. IsFiniteSet(lookups') /\ Cardinality(lookups') = Cardinality(lookups) - 1
  BY <1>1, <1>2, FS_RemoveElement
<1>4. /\ Cardinality(lookups') \in Nat /\ Cardinality(lookups) \in Nat
      /\ Cardinality(lookups') + 1 = Cardinality(lookups)
  BY <1>2, <1>3, FS_CardinalityType, SMT
<1>5. InReadSr' = InReadSr
  BY <1>1 DEF InReadSr
<1>6. StopInv'
  BY <1>1, StopKept DEF Safe
<1>7. StopHonoured'
  BY <1>1, Busy DEF StopHonoured
<1>8. Quiet'
  BY <1>1 DEF Safe, Quiet
<1>9. CASE (Answer(n) \/ NoAnswer(n)) /\ conn1'.state = conn1.state
  <2>1. Attempts' = Attempts
    BY <1>9 DEF Attempts
  <2>2. UnderWay = UnderWay' + 1 /\ UnderWay' \in Nat
    BY <1>2, <1>4, <1>5, <2>1, UnderWayType, SMT DEF UnderWay
  <2>3. Counting'
    BY <1>1, <1>3, <1>9, <2>2, CountLess DEF Safe, Answer, NoAnswer
  <2> QED BY <1>6, <1>7, <1>8, <2>3 DEF Safe
<1>10. CASE espconn_connect(n, n, conn1.remote_port)
  <2>1. Cardinality(lookups') + InReadSr' + 1 = Cardinality(lookups) + InReadSr
    BY <1>2, <1>4, <1>5, UnderWayType, SMT
  <2>2. Counting'
    BY <1>3, <1>10, <2>1, ConnectCount DEF Safe
  <2> QED BY <1>6, <1>7, <1>8, <2>2 DEF Safe
<1> QED BY <1>9, <1>10 DEF ResolveNothing, ResolveAddress, Types, SocketInv, Conn1

(* The other callbacks.                                                    *)
LEMMA CallbackSafe ==
  ASSUME Types, Safe, connectCB1 \/ errorCB1 \/ ErrorOpen \/ disconnectCB1
  PROVE  Safe'
<1>1. /\ UNCHANGED <<issued, hasty, stopped, lookups, ccs>> /\ (misled => misled')
      /\ owed' \in {owed, OneLess(owed)} /\ conn1'.remote_ip = conn1.remote_ip
      /\ IsFiniteSet(lookups') /\ IsFiniteSet(lookups)
  <2>1. UNCHANGED <<issued, hasty, stopped, lookups, ccs>>
    BY DEF connectCB1, errorCB1, ErrorOpen, disconnectCB1, Gone, Answer, host
  <2>2. conn1'.remote_ip = conn1.remote_ip
    BY DEF connectCB1, errorCB1, ErrorOpen, disconnectCB1, Gone, Types, SocketInv, Conn1
  <2>3. misled' = misled \/ misled' = (misled \/ owed > 0)
    BY DEF connectCB1, errorCB1, ErrorOpen, disconnectCB1, Answer, host
  <2>4. misled => misled'
    BY <2>3, Zenon
  <2>5. owed' \in {owed, OneLess(owed)}
    BY DEF connectCB1, errorCB1, ErrorOpen, disconnectCB1, Answer, host
  <2> QED BY <2>1, <2>2, <2>4, <2>5 DEF Safe, Counting
<1>2. InReadSr' = InReadSr
  BY <1>1 DEF InReadSr
<1>3. StopInv'
  BY <1>1, StopKept DEF Safe
<1>4. Quiet'
  BY <1>1 DEF Safe, Quiet
<1>5. CASE connectCB1 \/ errorCB1
  <2>1. /\ conn1.state = "WAIT" /\ conn1'.state # "WAIT" /\ misled' = misled
        /\ owed' = OneLess(owed)
    BY <1>5 DEF connectCB1, errorCB1, Gone, Answer, Types, SocketInv, Conn1
  <2>2. Attempts = 1 /\ Attempts' = 0
    BY <2>1 DEF Attempts
  <2>3. UnderWay = UnderWay' + 1 /\ UnderWay' \in Nat
    BY <1>1, <1>2, <2>2, UnderWayType, SMT DEF UnderWay
  <2>4. Counting'
    BY <1>1, <2>1, <2>3, CountLess DEF Safe
  <2>5. StopHonoured'
    BY <1>1, <2>1, Busy DEF StopHonoured
  <2> QED BY <1>3, <1>4, <2>4, <2>5 DEF Safe
<1>6. CASE ErrorOpen \/ disconnectCB1
  <2>1. conn1.state = "CONNECT" /\ conn1'.state = "CLOSE" /\ link' = NoLink
    BY <1>6 DEF ErrorOpen, disconnectCB1, Gone, Types, SocketInv, Conn1
  <2>2. Attempts = 0 /\ Attempts' = 0
    BY <2>1 DEF Attempts
  <2>3. UnderWay' = UnderWay
    BY <1>1, <1>2, <2>2 DEF UnderWay
  <2>4. owed \in Nat
    BY BoundAssumption DEF Types, HostInv
  <2>5. CASE owed' = OneLess(owed) /\ misled' = (misled \/ owed > 0)
    <3>1. ~misled' => ~(owed > 0)
      BY <2>5
    <3>2. ~misled' => owed = 0 /\ owed' = 0
      BY <2>4, <2>5, <3>1 DEF OneLess
    <3>3. Counting'
      BY <1>1, <2>3, <3>2, CountNone DEF Safe
    <3> QED BY <1>3, <1>4, <2>1, <3>3 DEF Safe, StopHonoured
  <2>6. CASE UNCHANGED host
    <3>1. Counting'
      BY <1>1, <2>3, <2>6, CountSame DEF Safe, host
    <3> QED BY <1>3, <1>4, <2>1, <3>1 DEF Safe, StopHonoured
  <2> QED BY <1>6, <2>5, <2>6 DEF ErrorOpen, disconnectCB1
<1> QED BY <1>5, <1>6

LEMMA SafeNext == Types /\ Safe /\ [Next]_vars => Safe'
<1> SUFFICES ASSUME Types, Safe, [Next]_vars PROVE Safe'
  OBVIOUS
<1>1. CASE UNCHANGED <<socket, host>>
  BY <1>1 DEF socket, host, Safe, Counting, UnderWay, InReadSr, Attempts, Quiet, StopInv,
              StopHonoured
<1>2. CASE recv_cb1 \/ PUSHMODE
  BY <1>1, <1>2 DEF recv_cb1, PUSHMODE
<1>3. ASSUME NEW k \in 0 .. BufLen + 1, NEW arduino \in BOOLEAN, ReadBegin(k, arduino)
      PROVE  Safe'
  BY <1>1, <1>3 DEF ReadBegin
<1>4. CASE ReadByte
  BY <1>1, <1>4 DEF ReadByte
<1> QED BY <1>1, <1>2, <1>3, <1>4, AskSafe, CcsSafe, DisconnectSafe, ResolveSafe, CallbackSafe
        DEF Next, read_sr, Callback, vars

(* Once AT+CD was sent with no answer outstanding, no lookup or attempt of *)
(* an earlier AT+CCS is left that could connect again, for any number of   *)
(* commands.                                                               *)
THEOREM StopAlwaysHonoured == Spec => []StopHonoured
<1>1. Safe => StopHonoured
  BY DEF Safe
<1> QED BY TypesInit, TypesNext, SafeInit, SafeNext, <1>1, PTL DEF Spec

-----------------------------------------------------------------------------
(* What a new link is to, by who asked for it.                             *)
Target(l) == l \in {link, NoLink, [link EXCEPT !.closing = TRUE]}
Owned(l) == l.n = issued /\ l.ip = issued /\ l.port = issued

LEMMA ConnectTarget ==
  ASSUME Types, espconn_connect(issued, issued, issued)
  PROVE  Target(link') \/ Owned(link')
BY DEF espconn_connect, Target, Owned

LEMMA SameTarget ==
  ASSUME [Next]_vars, ~Connect, ~(\E n \in Command : ResolveAddress(n))
  PROVE  Target(link')
<1>1. CASE UNCHANGED vars
  BY <1>1 DEF vars, socket, Target
<1>2. CASE LookupFound \/ LookupStarted \/ LookupRefused \/ CopyAddress \/ SwitchOnState
  BY <1>2 DEF LookupFound, LookupStarted, LookupRefused, CopyAddress, SwitchOnState, Target
<1>3. CASE espconn_disconnect
  BY <1>3 DEF espconn_disconnect, Target
<1>4. CASE \E k \in 0 .. BufLen + 1, arduino \in BOOLEAN : ReadBegin(k, arduino)
  BY <1>4 DEF ReadBegin, socket, Target
<1>5. CASE ReadByte
  BY <1>5 DEF ReadByte, socket, Target
<1>6. CASE \E n \in Command : ResolveNothing(n)
  BY <1>6 DEF ResolveNothing, Target
<1>7. CASE connectCB1 \/ errorCB1 \/ ErrorOpen \/ disconnectCB1
  BY <1>7 DEF connectCB1, errorCB1, ErrorOpen, disconnectCB1, Gone, Target
<1>8. CASE recv_cb1 \/ PUSHMODE
  BY <1>8 DEF recv_cb1, PUSHMODE, socket, Target
<1> QED BY <1>1, <1>2, <1>3, <1>4, <1>5, <1>6, <1>7, <1>8 DEF Next, read_sr, Callback

LEMMA TargetStep ==
  ASSUME Types, Safe, [Next]_vars
  PROVE  Target(link') \/ hasty' \/ misled' \/ (Owned(link') /\ issued' = issued)
<1>1. CASE Connect
  <2>1. /\ UNCHANGED <<issued, hasty, misled>> /\ ccs = "connect"
        /\ espconn_connect(issued, conn1.remote_ip, conn1.remote_port)
    BY <1>1, ConnectHost DEF Connect
  <2>2. hasty \/ misled \/ conn1.remote_ip = issued
    BY <2>1 DEF Safe, Quiet
  <2>3. conn1.remote_port = issued
    BY DEF Types, SocketInv
  <2> QED BY <2>1, <2>2, <2>3, ConnectTarget
<1>2. ASSUME NEW n \in Command, ResolveAddress(n)
      PROVE  Target(link') \/ hasty' \/ misled' \/ (Owned(link') /\ issued' = issued)
  <2>1. /\ UNCHANGED <<issued, hasty, misled>> /\ n \in lookups
        /\ espconn_connect(n, n, conn1.remote_port) \/ link' = link
    BY <1>2, ConnectHost DEF ResolveAddress, Answer
  <2>2. hasty \/ misled \/ n = issued
    BY <2>1 DEF Safe, Quiet
  <2>3. conn1.remote_port = issued
    BY DEF Types, SocketInv
  <2> QED BY <2>1, <2>2, <2>3, ConnectTarget DEF Target
<1> QED BY <1>1, <1>2, SameTarget

(* A host that waits for each answer is connected to the host and port of  *)
(* its last AT+CCS, though remote_ip and remote_port are written by        *)
(* different tasks at different times, for any number of commands.         *)
THEOREM TargetAlwaysOne == Spec => OneTarget
<1>1. Types /\ Safe /\ [Next]_vars =>
        [link' \notin {link, NoLink, [link EXCEPT !.closing = TRUE]} =>
           \/ hasty' \/ misled'
           \/ link'.n = issued' /\ link'.ip = issued' /\ link'.port = issued']_vars
  BY TargetStep DEF Target, Owned
<1> QED BY TypesInit, TypesNext, SafeInit, SafeNext, <1>1, PTL DEF Spec, OneTarget
=============================================================================
