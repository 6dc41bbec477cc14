--------------------------- MODULE MqttWireProofs ---------------------------
(***************************************************************************)
(* What holds of the bytes between the client and the broker, for every    *)
(* packet, length, size of the buffers and width of the tick counter:      *)
(* first the codec (the bytes of a length, the serializers, the frames     *)
(* that MQTT wants, what is read back), then the two streams, then the     *)
(* timers.  Nothing is recursive: a packet is a first byte, a length of    *)
(* one to four bytes and a body, and what is on its way is described by    *)
(* where in it each packet begins.                                         *)
(***************************************************************************)
EXTENDS MqttWire, SequenceTheorems, TLAPS

-----------------------------------------------------------------------------
(* The bytes of a length.                                                  *)
LEMMA WeightOf == Weight[1] = 1 /\ Weight[2] = 128 /\ Weight[3] = 16384 /\ Weight[4] = 2097152
BY SMT DEF Weight

LEMMA DivideBy128 ==
  ASSUME NEW n \in Nat
  PROVE  n \div 128 \in Nat /\ n % 128 \in 0 .. 127 /\ n = 128 * (n \div 128) + (n % 128)
BY SMT

LEMMA DivideTwice ==
  ASSUME NEW n \in Nat
  PROVE  /\ n \div 16384 = (n \div 128) \div 128
         /\ n \div 2097152 = ((n \div 128) \div 128) \div 128
BY SMT

LEMMA DigitType ==
  ASSUME NEW n \in Nat, n <= MaxLength, NEW i \in 1 .. 4
  PROVE  Digit(n, i) \in 0 .. 127
<1>1. Weight[i] \in {1, 128, 16384, 2097152}
  BY SMT DEF Weight
<1>2. n \div Weight[i] \in Nat
  BY <1>1, SMT
<1> QED BY <1>2, DivideBy128, SMT DEF Digit

(* The digits of a number are its digits.                                  *)
LEMMA DigitsSum ==
  ASSUME NEW n \in Nat, n <= MaxLength
  PROVE  /\ n = Digit(n, 1) + 128 * Digit(n, 2) + 16384 * Digit(n, 3) + 2097152 * Digit(n, 4)
         /\ n < 128 => Digit(n, 2) = 0
         /\ n < 16384 => Digit(n, 3) = 0
         /\ n < 2097152 => Digit(n, 4) = 0
<1> DEFINE q == n \div 128
           r == q \div 128
           s == r \div 128
<1>1. n \in Nat /\ n < 268435456
  BY SMT DEF MaxLength
<1>2. q \in Nat /\ n % 128 \in 0 .. 127 /\ n = 128 * q + (n % 128)
  BY <1>1, DivideBy128, SMT
<1>3. r \in Nat /\ q % 128 \in 0 .. 127 /\ q = 128 * r + (q % 128)
  BY <1>2, DivideBy128, SMT
<1>4. s \in Nat /\ r % 128 \in 0 .. 127 /\ r = 128 * s + (r % 128)
  BY <1>3, DivideBy128, SMT
<1>5. Digit(n, 1) = n % 128 /\ Digit(n, 2) = q % 128
  BY <1>1, WeightOf, SMT DEF Digit
<1>6. Digit(n, 3) = r % 128 /\ Digit(n, 4) = s % 128
  BY <1>1, WeightOf, DivideTwice, SMT DEF Digit
<1> HIDE DEF q, r, s
<1>7. s < 128
  BY <1>1, <1>2, <1>3, <1>4, SMT
<1>8. s % 128 = s
  BY <1>4, <1>7, SMT
<1>9. /\ n < 128 => q = 0
      /\ n < 16384 => r = 0
      /\ n < 2097152 => s = 0
  BY <1>1, <1>2, <1>3, <1>4, SMT
<1>10. 0 % 128 = 0
  BY SMT
<1>11. n = (n % 128) + 128 * (q % 128) + 16384 * (r % 128) + 2097152 * s
  BY <1>1, <1>2, <1>3, <1>4, SMT
<1>12. n = Digit(n, 1) + 128 * Digit(n, 2) + 16384 * Digit(n, 3) + 2097152 * Digit(n, 4)
  BY <1>5, <1>6, <1>8, <1>11
<1> QED BY <1>5, <1>6, <1>9, <1>10, <1>12

LEMMA EncodeShape ==
  ASSUME NEW n \in Nat, n <= MaxLength
  PROVE  /\ MQTTPacket_encode(n) \in Seq(Byte)
         /\ Len(MQTTPacket_encode(n)) = EncodedBytes(n)
         /\ EncodedBytes(n) \in 1 .. 4
         /\ \A i \in 1 .. EncodedBytes(n) :
              MQTTPacket_encode(n)[i] =
                IF i < EncodedBytes(n) THEN 128 + Digit(n, i) ELSE Digit(n, i)
<1>1. EncodedBytes(n) \in 1 .. 4
  BY SMT DEF EncodedBytes
<1>2. \A i \in 1 .. EncodedBytes(n) : Digit(n, i) \in 0 .. 127
  BY <1>1, DigitType, SMT
<1> DEFINE d(i) == IF i < EncodedBytes(n) THEN 128 + Digit(n, i) ELSE Digit(n, i)
<1>3. \A i \in 1 .. EncodedBytes(n) : d(i) \in Byte
  BY <1>1, <1>2, SMT DEF Byte
<1>4. MQTTPacket_encode(n) = [i \in 1 .. EncodedBytes(n) |-> d(i)]
  BY DEF MQTTPacket_encode
<1> HIDE DEF d
<1>5. MQTTPacket_encode(n) \in Seq(Byte) /\ Len(MQTTPacket_encode(n)) = EncodedBytes(n)
  BY <1>1, <1>3, <1>4, SMT
<1>6. \A i \in 1 .. EncodedBytes(n) : MQTTPacket_encode(n)[i] = d(i)
  BY <1>4, SMT
<1> QED BY <1>1, <1>5, <1>6, SMT DEF d

(* A length is read where it was written.                                  *)
LEMMA LengthAt ==
  ASSUME NEW n \in Nat, n <= MaxLength, NEW s, NEW i \in Nat,
         \A j \in 1 .. EncodedBytes(n) : s[i + j - 1] = MQTTPacket_encode(n)[j]
  PROVE  DecodedBytes(s, i) = EncodedBytes(n) /\ DecodedValue(s, i) = n
<1>1. /\ Digit(n, 1) \in 0 .. 127 /\ Digit(n, 2) \in 0 .. 127
      /\ Digit(n, 3) \in 0 .. 127 /\ Digit(n, 4) \in 0 .. 127
  BY DigitType, SMT
<1>2. i + 1 - 1 = i /\ i + 2 - 1 = i + 1 /\ i + 3 - 1 = i + 2 /\ i + 4 - 1 = i + 3
  BY SMT
<1>3. CASE n < 128
  <2>1. EncodedBytes(n) = 1
    BY <1>3, SMT DEF EncodedBytes
  <2>2. s[i] = Digit(n, 1)
    BY <1>2, <2>1, EncodeShape, SMT
  <2> QED BY <1>1, <1>3, <2>1, <2>2, WeightOf, DigitsSum, SMT DEF DecodedBytes, DecodedValue, DecodeByte
<1>4. CASE n >= 128 /\ n < 16384
  <2>1. EncodedBytes(n) = 2
    BY <1>4, SMT DEF EncodedBytes
  <2>2. s[i] = 128 + Digit(n, 1) /\ s[i + 1] = Digit(n, 2)
    BY <1>2, <2>1, EncodeShape, SMT
  <2> QED BY <1>1, <1>4, <2>1, <2>2, WeightOf, DigitsSum, SMT DEF DecodedBytes, DecodedValue, DecodeByte
<1>5. CASE n >= 16384 /\ n < 2097152
  <2>1. EncodedBytes(n) = 3
    BY <1>5, SMT DEF EncodedBytes
  <2>2. s[i] = 128 + Digit(n, 1) /\ s[i + 1] = 128 + Digit(n, 2) /\ s[i + 2] = Digit(n, 3)
    BY <1>2, <2>1, EncodeShape, SMT
  <2> QED BY <1>1, <1>5, <2>1, <2>2, WeightOf, DigitsSum, SMT DEF DecodedBytes, DecodedValue, DecodeByte
<1>6. CASE n >= 2097152
  <2>1. EncodedBytes(n) = 4
    BY <1>6, SMT DEF EncodedBytes
  <2>2. /\ s[i] = 128 + Digit(n, 1) /\ s[i + 1] = 128 + Digit(n, 2)
        /\ s[i + 2] = 128 + Digit(n, 3) /\ s[i + 3] = Digit(n, 4)
    BY <1>2, <2>1, EncodeShape, SMT
  <2> QED BY <1>1, <1>6, <2>1, <2>2, WeightOf, DigitsSum, SMT DEF DecodedBytes, DecodedValue, DecodeByte
<1> QED BY <1>3, <1>4, <1>5, <1>6, SMT

(* Whatever length the client writes, MQTTPacket_decodeBuf reads: the same *)
(* value, from as many bytes (MQTTPacket.c:29-81).                         *)
THEOREM DecodeInvertsEncode ==
  ASSUME NEW n \in Nat, n <= MaxLength
  PROVE  /\ DecodedBytes(MQTTPacket_encode(n), 1) = EncodedBytes(n)
         /\ DecodedValue(MQTTPacket_encode(n), 1) = n
<1>1. \A j \in 1 .. EncodedBytes(n) : 1 + j - 1 = j
  BY EncodeShape, SMT
<1> QED BY <1>1, LengthAt, 1 \in Nat

(* MQTTPacket_len never says less than a packet needs, and at most one     *)
(* byte more (MQTTPacket.c:84-98).                                         *)
LEMMA LengthSuffices ==
  ASSUME NEW n \in Nat, n <= MaxLength
  PROVE  MQTTPacket_len(n) \in {1 + EncodedBytes(n) + n, 2 + EncodedBytes(n) + n}
BY SMT DEF MQTTPacket_len, EncodedBytes

-----------------------------------------------------------------------------
(* The serializers stay in their buffer.  Only lengths matter here.        *)
Run(s, n) == s \in Seq(Byte) /\ Len(s) = n

LEMMA RunConcat ==
  ASSUME NEW s, NEW t, NEW m \in Nat, NEW n \in Nat, Run(s, m), Run(t, n)
  PROVE  Run(s \o t, m + n) /\ m + n \in Nat
BY SMT DEF Run

LEMMA RunPair == \A a, b \in Byte : Run(<<a, b>>, 2)
BY SMT DEF Run

LEMMA RunInt == \A n \in Nat : Run(writeInt(n), 2)
<1> SUFFICES ASSUME NEW n \in Nat PROVE Run(writeInt(n), 2)
  OBVIOUS
<1>1. (n \div 256) % 256 \in Byte /\ n % 256 \in Byte
  BY SMT DEF Byte
<1> QED BY <1>1, RunPair DEF writeInt

LEMMA RunText ==
  ASSUME NEW s, Text(s)
  PROVE  Len(s) \in Nat /\ Run(s, Len(s)) /\ Run(writeMQTTString(s), 2 + Len(s))
<1>1. s \in Seq(Byte) /\ Len(s) \in Nat
  BY SMT DEF Text
<1>2. Run(s, Len(s))
  BY <1>1 DEF Run
<1>3. Run(writeInt(Len(s)), 2)
  BY <1>1, RunInt
<1>4. Run(writeMQTTString(s), 2 + Len(s))
  BY <1>1, <1>2, <1>3, RunConcat DEF writeMQTTString
<1> QED BY <1>1, <1>2, <1>4

LEMMA RunBegin ==
  ASSUME NEW p, Askable(p), NEW qos \in 0 .. 1, NEW n \in Nat, n <= MaxLength,
         RemainingLength(p) = n
  PROVE  /\ EncodedBytes(n) \in 1 .. 4
         /\ Run(Begin(p, qos), 1 + EncodedBytes(n))
<1>1. MQTTHeader(p.type, qos, p.retained) \in Byte
  BY SMT DEF Byte, MQTTHeader, Askable, CONNECT, PUBLISH, SUBSCRIBE, UNSUBSCRIBE, PINGREQ
<1>2. Run(<<MQTTHeader(p.type, qos, p.retained)>>, 1)
  BY <1>1, SMT DEF Run
<1>3. Run(MQTTPacket_encode(n), EncodedBytes(n)) /\ EncodedBytes(n) \in 1 .. 4
  BY EncodeShape DEF Run
<1>4. EncodedBytes(n) \in Nat
  BY <1>3, SMT
<1>5. Run(<<MQTTHeader(p.type, qos, p.retained)>> \o MQTTPacket_encode(n), 1 + EncodedBytes(n))
  BY <1>2, <1>3, <1>4, RunConcat
<1> QED BY <1>3, <1>5 DEF Begin

(* A packet's size when its remaining length fits the buffer.              *)
LEMMA SizeFits ==
  ASSUME NEW p, NEW n \in Nat, RemainingLength(p) = n,
         NEW buflen \in Nat, buflen <= MaxLength, ~TooShort(p, buflen)
  PROVE  n <= MaxLength /\ 1 + EncodedBytes(n) + n <= buflen
<1>1. MQTTPacket_len(n) <= buflen
  BY SMT DEF TooShort, MQTTPacket_len
<1>2. n <= MaxLength
  BY <1>1, SMT DEF MQTTPacket_len, MaxLength
<1>3. EncodedBytes(n) \in 1 .. 4
  BY EncodeShape, <1>2
<1> QED BY <1>1, <1>2, <1>3, LengthSuffices, SMT

(* A header and as many bytes as it announces.                             *)
LEMMA PacketStays ==
  ASSUME NEW p, Askable(p), NEW qos \in 0 .. 1, NEW n \in Nat, RemainingLength(p) = n,
         NEW buflen \in Nat, buflen <= MaxLength, ~TooShort(p, buflen),
         NEW rest, Run(rest, n)
  PROVE  Len(Begin(p, qos) \o rest) <= buflen
<1>1. n <= MaxLength /\ 1 + EncodedBytes(n) + n <= buflen
  BY SizeFits
<1>2. EncodedBytes(n) \in 1 .. 4 /\ Run(Begin(p, qos), 1 + EncodedBytes(n))
  BY <1>1, RunBegin
<1>3. 1 + EncodedBytes(n) \in Nat
  BY <1>2, SMT
<1>4. Run(Begin(p, qos) \o rest, (1 + EncodedBytes(n)) + n)
  BY <1>2, <1>3, RunConcat
<1> QED BY <1>1, <1>4 DEF Run

LEMMA Add == \A m, n \in Nat : m + n \in Nat
BY SMT

LEMMA RunStrings ==
  ASSUME NEW s, NEW n \in Nat, Run(s, n), NEW t, Text(t)
  PROVE  Run(s \o writeMQTTString(t), n + (2 + Len(t))) /\ n + (2 + Len(t)) \in Nat
<1>1. Len(t) \in Nat /\ Run(writeMQTTString(t), 2 + Len(t))
  BY RunText
<1>2. 2 + Len(t) \in Nat
  BY <1>1, SMT
<1> QED BY <1>1, <1>2, RunConcat

(* What comes behind the length.                                           *)
PublishBody(p) == writeMQTTString(p.strings[1]) \o p.payload
UnsubscribeBody(p) == writeInt(p.id) \o writeMQTTString(p.strings[1])
SubscribeBody(p) == writeInt(p.id) \o writeMQTTString(p.strings[1]) \o p.payload
ConnectBody(p) ==
  writeMQTTString(MQIsdp) \o <<3, MQTTConnectFlags>> \o writeInt(p.id)
    \o writeMQTTString(p.strings[1]) \o writeMQTTString(p.strings[2])
    \o writeMQTTString(p.strings[3])

Fields(p) ==
  CASE p.type = CONNECT -> ConnectBody(p)
    [] p.type = PUBLISH -> PublishBody(p)
    [] p.type = SUBSCRIBE -> SubscribeBody(p)
    [] p.type = UNSUBSCRIBE -> UnsubscribeBody(p)
    [] p.type = PINGREQ -> << >>

Qos(p) == IF p.type \in {SUBSCRIBE, UNSUBSCRIBE} THEN 1 ELSE 0

LEMMA PublishBodyRun ==
  ASSUME NEW p, Askable(p), p.type = PUBLISH
  PROVE  RemainingLength(p) \in Nat /\ Run(PublishBody(p), RemainingLength(p))
<1> DEFINE a == Len(p.strings[1])
           b == Len(p.payload)
<1>1. Text(p.strings[1]) /\ Text(p.payload) /\ RemainingLength(p) = (2 + a) + b
  BY SMT DEF Askable, RemainingLength, CONNECT, PUBLISH, SUBSCRIBE, UNSUBSCRIBE, PINGREQ
<1>2. /\ a \in Nat /\ Run(writeMQTTString(p.strings[1]), 2 + a)
      /\ b \in Nat /\ Run(p.payload, b)
  BY <1>1, RunText
<1> HIDE DEF a, b
<1>3. 2 + a \in Nat
  BY <1>2, SMT
<1>4. (2 + a) + b \in Nat /\ Run(writeMQTTString(p.strings[1]) \o p.payload, (2 + a) + b)
  BY <1>2, <1>3, RunConcat
<1> QED BY <1>1, <1>4 DEF PublishBody

LEMMA UnsubscribeBodyRun ==
  ASSUME NEW p, Askable(p), p.type = UNSUBSCRIBE
  PROVE  RemainingLength(p) \in Nat /\ Run(UnsubscribeBody(p), RemainingLength(p))
<1> DEFINE a == Len(p.strings[1])
           n == 2 + (2 + a)
<1>1. Text(p.strings[1]) /\ p.id \in Nat /\ RemainingLength(p) = 2 + 2 + a
  BY SMT DEF Askable, RemainingLength, CONNECT, PUBLISH, SUBSCRIBE, UNSUBSCRIBE, PINGREQ
<1>2. a \in Nat
  BY <1>1, RunText
<1>3. n \in Nat /\ Run(writeInt(p.id) \o writeMQTTString(p.strings[1]), n)
  BY <1>1, RunInt, RunStrings, 2 \in Nat
<1>4. RemainingLength(p) = n
  BY <1>1, <1>2, SMT
<1> QED BY <1>3, <1>4 DEF UnsubscribeBody

LEMMA SubscribeBodyRun ==
  ASSUME NEW p, Askable(p), p.type = SUBSCRIBE
  PROVE  RemainingLength(p) \in Nat /\ Run(SubscribeBody(p), RemainingLength(p))
<1> DEFINE a == Len(p.strings[1])
           n == (2 + (2 + a)) + 1
           fields == writeInt(p.id) \o writeMQTTString(p.strings[1])
<1>1. /\ Text(p.strings[1]) /\ Text(p.payload) /\ Len(p.payload) = 1
      /\ p.id \in Nat /\ RemainingLength(p) = 2 + 2 + a + 1
  BY SMT DEF Askable, RemainingLength, CONNECT, PUBLISH, SUBSCRIBE, UNSUBSCRIBE, PINGREQ
<1>2. a \in Nat /\ Run(p.payload, 1)
  BY <1>1, RunText
<1>3. 2 + (2 + a) \in Nat /\ Run(fields, 2 + (2 + a))
  BY <1>1, RunInt, RunStrings, 2 \in Nat
<1>4. n \in Nat /\ Run(fields \o p.payload, n)
  BY <1>2, <1>3, RunConcat, 1 \in Nat
<1>5. RemainingLength(p) = n
  BY <1>1, <1>2, SMT
<1> QED BY <1>4, <1>5 DEF SubscribeBody

LEMMA ConnectBodyRun ==
  ASSUME NEW p, Askable(p), p.type = CONNECT
  PROVE  RemainingLength(p) \in Nat /\ Run(ConnectBody(p), RemainingLength(p))
<1> DEFINE a == Len(p.strings[1])
           b == Len(p.strings[2])
           c == Len(p.strings[3])
           head == writeMQTTString(MQIsdp) \o <<3, MQTTConnectFlags>> \o writeInt(p.id)
           one == head \o writeMQTTString(p.strings[1])
           two == one \o writeMQTTString(p.strings[2])
           n == ((12 + (2 + a)) + (2 + b)) + (2 + c)
<1>1. /\ Text(p.strings[1]) /\ Text(p.strings[2]) /\ Text(p.strings[3])
      /\ p.id \in Nat /\ RemainingLength(p) = 12 + a + 2 + b + 2 + c + 2
  BY SMT DEF Askable, RemainingLength, CONNECT, PUBLISH, SUBSCRIBE, UNSUBSCRIBE, PINGREQ
<1>2. a \in Nat /\ b \in Nat /\ c \in Nat
  BY <1>1, RunText
<1>3. Run(head, 12)
  <2>1. Text(MQIsdp) /\ Len(MQIsdp) = 6
    BY SMT DEF Text, MQIsdp, Byte
  <2>2. Run(writeMQTTString(MQIsdp), 8)
    BY <2>1, RunText, 2 + 6 = 8
  <2>3. Run(<<3, MQTTConnectFlags>>, 2)
    <3>1. 3 \in Byte /\ MQTTConnectFlags \in Byte
      BY SMT DEF MQTTConnectFlags, Byte
    <3> QED BY <3>1, RunPair
  <2>4. Run(writeMQTTString(MQIsdp) \o <<3, MQTTConnectFlags>>, 10)
    BY <2>2, <2>3, RunConcat, 8 + 2 = 10, 8 \in Nat, 2 \in Nat
  <2> QED BY <1>1, <2>4, RunInt, RunConcat, 10 + 2 = 12, 10 \in Nat, 2 \in Nat
<1> HIDE DEF head
<1>4. 12 + (2 + a) \in Nat /\ Run(one, 12 + (2 + a))
  BY <1>1, <1>3, RunStrings, 12 \in Nat
<1> HIDE DEF one
<1>5. (12 + (2 + a)) + (2 + b) \in Nat /\ Run(two, (12 + (2 + a)) + (2 + b))
  BY <1>1, <1>4, RunStrings
<1> HIDE DEF two
<1>6. n \in Nat /\ Run(two \o writeMQTTString(p.strings[3]), n)
  BY <1>1, <1>5, RunStrings
<1>7. RemainingLength(p) = n
  <2> HIDE DEF a, b, c
  <2>1. RemainingLength(p) = 12 + a + 2 + b + 2 + c + 2
    BY <1>1
  <2> QED BY <1>2, <2>1, SMT
<1>8. ConnectBody(p) = two \o writeMQTTString(p.strings[3])
  BY DEF ConnectBody, two, one, head
<1> QED BY <1>6, <1>7, <1>8

LEMMA TypeNumbers ==
  /\ CONNECT = 1 /\ CONNACK = 2 /\ PUBLISH = 3 /\ SUBSCRIBE = 8 /\ SUBACK = 9
  /\ UNSUBSCRIBE = 10 /\ UNSUBACK = 11 /\ PINGREQ = 12 /\ PINGRESP = 13
BY DEF CONNECT, CONNACK, PUBLISH, SUBSCRIBE, SUBACK, UNSUBSCRIBE, UNSUBACK, PINGREQ, PINGRESP

(* A serializer writes the header and the length, then the fields.         *)
LEMMA SerializedInParts ==
  ASSUME NEW p, Askable(p)
  PROVE  /\ Qos(p) \in 0 .. 1
         /\ RemainingLength(p) \in Nat
         /\ Run(Fields(p), RemainingLength(p))
         /\ IF p.type = PINGREQ THEN Serialize(p) = Begin(p, Qos(p))
            ELSE Serialize(p) = Begin(p, Qos(p)) \o Fields(p)
<1>0. p.type \in {CONNECT, PUBLISH, SUBSCRIBE, UNSUBSCRIBE, PINGREQ}
  BY DEF Askable
<1>1. Qos(p) \in 0 .. 1
  BY SMT DEF Qos
<1>2. CASE p.type = CONNECT
  <2>1. /\ Fields(p) = ConnectBody(p) /\ Qos(p) = 0
        /\ Serialize(p) = MQTTSerialize_connect(p) /\ p.type # PINGREQ
    BY <1>2, TypeNumbers DEF Fields, Qos, Serialize
  <2> QED BY <1>1, <1>2, <2>1, ConnectBodyRun DEF MQTTSerialize_connect, ConnectBody
<1>3. CASE p.type = PUBLISH
  <2>1. /\ Fields(p) = PublishBody(p) /\ Qos(p) = 0
        /\ Serialize(p) = MQTTSerialize_publish(p) /\ p.type # PINGREQ
    BY <1>3, TypeNumbers DEF Fields, Qos, Serialize
  <2> QED BY <1>1, <1>3, <2>1, PublishBodyRun DEF MQTTSerialize_publish, PublishBody
<1>4. CASE p.type = SUBSCRIBE
  <2>1. /\ Fields(p) = SubscribeBody(p) /\ Qos(p) = 1
        /\ Serialize(p) = MQTTSerialize_subscribe(p) /\ p.type # PINGREQ
    BY <1>4, TypeNumbers DEF Fields, Qos, Serialize
  <2> QED BY <1>1, <1>4, <2>1, SubscribeBodyRun DEF MQTTSerialize_subscribe, SubscribeBody
<1>5. CASE p.type = UNSUBSCRIBE
  <2>1. /\ Fields(p) = UnsubscribeBody(p) /\ Qos(p) = 1
        /\ Serialize(p) = MQTTSerialize_unsubscribe(p) /\ p.type # PINGREQ
    BY <1>5, TypeNumbers DEF Fields, Qos, Serialize
  <2> QED BY <1>1, <1>5, <2>1, UnsubscribeBodyRun DEF MQTTSerialize_unsubscribe, UnsubscribeBody
<1>6. CASE p.type = PINGREQ
  <2>1. /\ Fields(p) = << >> /\ Qos(p) = 0 /\ RemainingLength(p) = 0
        /\ Serialize(p) = Begin(p, 0)
    BY <1>6, TypeNumbers, SMT DEF Fields, Qos, Serialize, MQTTSerialize_zero, RemainingLength
  <2>2. Run(<< >>, 0)
    BY EmptySeq DEF Run
  <2> QED BY <1>1, <1>6, <2>1, <2>2, SMT
<1> QED BY <1>0, <1>2, <1>3, <1>4, <1>5, <1>6

(* A serializer that does not fail stays in its buffer, whatever the texts *)
(* and whatever the buffer's length (MQTTPacket_len and the serializers of *)
(* MQTTConnectClient.c, MQTTSerializePublish.c, MQTTSubscribeClient.c and  *)
(* MQTTUnsubscribeClient.c).                                               *)
THEOREM SerializerStaysInBuffer ==
  ASSUME NEW p, Askable(p), NEW buflen \in Nat, buflen <= MaxLength, ~TooShort(p, buflen)
  PROVE  Len(Serialize(p)) <= buflen
<1>1. /\ Qos(p) \in 0 .. 1 /\ RemainingLength(p) \in Nat
      /\ Run(Fields(p), RemainingLength(p))
      /\ IF p.type = PINGREQ THEN Serialize(p) = Begin(p, Qos(p))
         ELSE Serialize(p) = Begin(p, Qos(p)) \o Fields(p)
  BY SerializedInParts
<1>2. CASE p.type = PINGREQ
  <2> DEFINE n == RemainingLength(p)
  <2>1. n \in Nat /\ RemainingLength(p) = n /\ Serialize(p) = Begin(p, Qos(p))
    BY <1>1, <1>2
  <2> HIDE DEF n
  <2>2. n <= MaxLength /\ 1 + EncodedBytes(n) + n <= buflen
    BY <2>1, SizeFits
  <2>3. EncodedBytes(n) \in 1 .. 4 /\ Run(Begin(p, Qos(p)), 1 + EncodedBytes(n))
    BY <1>1, <2>1, <2>2, RunBegin
  <2> QED BY <2>1, <2>2, <2>3, SMT DEF Run
<1>3. CASE p.type # PINGREQ
  BY <1>1, <1>3, PacketStays
<1> QED BY <1>2, <1>3

-----------------------------------------------------------------------------
(* The frame of a packet: what the client writes is what MQTT wants.       *)
LEMMA SmallDigit == \A x \in 0 .. 127 : x % 128 = x
BY SMT

LEMMA EncodedAsStandard ==
  ASSUME NEW n \in Nat, n <= MaxLength
  PROVE  MQTTPacket_encode(n) = LengthBytes(n)
<1> DEFINE e == MQTTPacket_encode(n)
           l == LengthBytes(n)
<1>1. /\ e \in Seq(Byte) /\ Len(e) = EncodedBytes(n)
      /\ \A i \in 1 .. EncodedBytes(n) :
           e[i] = IF i < EncodedBytes(n) THEN 128 + Digit(n, i) ELSE Digit(n, i)
  BY EncodeShape
<1>2. /\ Digit(n, 1) \in 0 .. 127 /\ Digit(n, 2) \in 0 .. 127
      /\ Digit(n, 3) \in 0 .. 127 /\ Digit(n, 4) \in 0 .. 127
  BY DigitType, SMT
<1>3. /\ n = Digit(n, 1) + 128 * Digit(n, 2) + 16384 * Digit(n, 3) + 2097152 * Digit(n, 4)
      /\ n < 128 => Digit(n, 2) = 0
      /\ n < 16384 => Digit(n, 3) = 0
      /\ n < 2097152 => Digit(n, 4) = 0
  BY DigitsSum
<1>4. /\ n % 128 = Digit(n, 1) /\ (n \div 128) % 128 = Digit(n, 2)
      /\ (n \div 16384) % 128 = Digit(n, 3) /\ (n \div 2097152) % 128 = Digit(n, 4)
  <2>1. n \div 1 = n
    BY SMT
  <2> QED BY <2>1, WeightOf DEF Digit
<1> HIDE DEF e
<1>5. CASE n < 128
  <2>1. EncodedBytes(n) = 1 /\ l = <<n>> /\ n = Digit(n, 1)
    BY <1>2, <1>3, <1>5, SMT DEF EncodedBytes, LengthBytes
  <2>2. e[1] = n /\ Len(e) = 1
    BY <1>1, <2>1, SMT
  <2> QED BY <1>1, <2>1, <2>2, SMT DEF e
<1>6. CASE n >= 128 /\ n < 16384
  <2>1. EncodedBytes(n) = 2 /\ l = <<128 + (n % 128), n \div 128>>
    BY <1>6, SMT DEF EncodedBytes, LengthBytes
  <2>2. n \div 128 = Digit(n, 2)
    <3>1. n \div 128 \in 0 .. 127
      BY <1>6, SMT DEF MaxLength
    <3> QED BY <1>4, <3>1, SmallDigit
  <2>3. e[1] = 128 + (n % 128) /\ e[2] = n \div 128 /\ Len(e) = 2
    BY <1>1, <1>4, <2>1, <2>2, SMT
  <2> HIDE DEF l
  <2> QED BY <1>1, <2>1, <2>3, SMT DEF e, l
<1>7. CASE n >= 16384 /\ n < 2097152
  <2>1. /\ EncodedBytes(n) = 3
        /\ l = <<128 + (n % 128), 128 + ((n \div 128) % 128), n \div 16384>>
    BY <1>7, SMT DEF EncodedBytes, LengthBytes
  <2>2. n \div 16384 = Digit(n, 3)
    <3>1. n \div 16384 \in 0 .. 127
      BY <1>7, SMT DEF MaxLength
    <3> QED BY <1>4, <3>1, SmallDigit
  <2>3. /\ e[1] = 128 + (n % 128) /\ e[2] = 128 + ((n \div 128) % 128)
        /\ e[3] = n \div 16384 /\ Len(e) = 3
    BY <1>1, <1>4, <2>1, <2>2, SMT
  <2> HIDE DEF l
  <2> QED BY <1>1, <2>1, <2>3, SMT DEF e, l
<1>8. CASE n >= 2097152
  <2>1. /\ EncodedBytes(n) = 4
        /\ l = <<128 + (n % 128), 128 + ((n \div 128) % 128),
                 128 + ((n \div 16384) % 128), n \div 2097152>>
    BY <1>8, SMT DEF EncodedBytes, LengthBytes
  <2>2. n \div 2097152 = Digit(n, 4)
    <3>1. n \div 2097152 \in 0 .. 127
      BY <1>8, SMT DEF MaxLength
    <3> QED BY <1>4, <3>1, SmallDigit
  <2>3. /\ e[1] = 128 + (n % 128) /\ e[2] = 128 + ((n \div 128) % 128)
        /\ e[3] = 128 + ((n \div 16384) % 128) /\ e[4] = n \div 2097152 /\ Len(e) = 4
    BY <1>1, <1>4, <2>1, <2>2, SMT
  <2> HIDE DEF l
  <2> QED BY <1>1, <2>1, <2>3, SMT DEF e, l
<1> QED BY <1>5, <1>6, <1>7, <1>8, SMT

LEMMA OneByte ==
  ASSUME NEW f \in Byte
  PROVE  <<f>> \in Seq(Byte) /\ Len(<<f>>) = 1 /\ <<f>>[1] = f
BY SMT

LEMMA FrameConcat ==
  ASSUME NEW f \in Byte, NEW b \in Seq(Byte), Len(b) <= MaxLength
  PROVE  Frame(f, b) = (<<f>> \o MQTTPacket_encode(Len(b))) \o b
<1>1. Len(b) \in Nat
  BY LenProperties
<1> QED BY <1>1, EncodedAsStandard DEF Frame

(* What stands where in a frame.                                           *)
LEMMA FrameShape ==
  ASSUME NEW f \in Byte, NEW b \in Seq(Byte), NEW n \in Nat, Len(b) = n, n <= MaxLength
  PROVE  /\ Frame(f, b) \in Seq(Byte)
         /\ EncodedBytes(n) \in 1 .. 4
         /\ Len(Frame(f, b)) = 1 + EncodedBytes(n) + n
         /\ Frame(f, b)[1] = f
         /\ \A i \in 1 .. EncodedBytes(n) : Frame(f, b)[1 + i] = MQTTPacket_encode(n)[i]
         /\ \A i \in 1 .. n : Frame(f, b)[1 + EncodedBytes(n) + i] = b[i]
<1> DEFINE e == MQTTPacket_encode(n)
           k == EncodedBytes(n)
           h == <<f>> \o e
<1>1. e \in Seq(Byte) /\ Len(e) = k /\ k \in 1 .. 4
  BY EncodeShape
<1>2. Frame(f, b) = h \o b
  BY FrameConcat
<1> HIDE DEF e, k
<1>3. /\ h \in Seq(Byte) /\ Len(h) = 1 + k
      /\ \A i \in 1 .. 1 + k : h[i] = IF i <= 1 THEN <<f>>[i] ELSE e[i - 1]
  BY <1>1, OneByte, ConcatProperties
<1>4. h[1] = f /\ \A i \in 1 .. k : h[1 + i] = e[i]
  BY <1>1, <1>3, OneByte, SMT
<1> HIDE DEF h
<1>5. /\ h \o b \in Seq(Byte) /\ Len(h \o b) = (1 + k) + n
      /\ \A i \in 1 .. (1 + k) + n : (h \o b)[i] = IF i <= 1 + k THEN h[i] ELSE b[i - (1 + k)]
  <2>1. /\ h \o b \in Seq(Byte) /\ Len(h \o b) = Len(h) + Len(b)
        /\ \A i \in 1 .. Len(h) + Len(b) :
             (h \o b)[i] = IF i <= Len(h) THEN h[i] ELSE b[i - Len(h)]
    BY <1>3, ConcatProperties
  <2> QED BY <1>3, <2>1
<1>6. (h \o b)[1] = f /\ \A i \in 1 .. k : (h \o b)[1 + i] = e[i]
  BY <1>1, <1>4, <1>5, SMT
<1>7. \A i \in 1 .. n : (h \o b)[1 + k + i] = b[i]
  BY <1>1, <1>5, SMT
<1> QED BY <1>1, <1>2, <1>5, <1>6, <1>7 DEF h, e, k

LEMMA ThreeDigits ==
  ASSUME NEW n \in Nat, n < 2097152
  PROVE  n = Digit(n, 1) + 128 * Digit(n, 2) + 16384 * Digit(n, 3)
<1>1. n <= MaxLength
  BY SMT DEF MaxLength
<1> DEFINE a == Digit(n, 1)
           b == Digit(n, 2)
           c == Digit(n, 3)
           d == Digit(n, 4)
<1>2. a \in 0 .. 127 /\ b \in 0 .. 127 /\ c \in 0 .. 127 /\ d = 0
  BY <1>1, DigitType, DigitsSum, SMT
<1>3. n = a + 128 * b + 16384 * c + 2097152 * d
  BY <1>1, DigitsSum
<1> HIDE DEF a, b, c, d
<1>4. n = a + 128 * b + 16384 * c
  BY <1>2, <1>3, SMT
<1> QED BY <1>4 DEF a, b, c

LEMMA LengthRead ==
  ASSUME NEW n \in Nat, n <= MaxLength, NEW s,
         \A i \in 1 .. EncodedBytes(n) : s[1 + i] = MQTTPacket_encode(n)[i]
  PROVE  Length(s) = n
<1>1. /\ EncodedBytes(n) \in 1 .. 4
      /\ \A i \in 1 .. EncodedBytes(n) :
           s[1 + i] = IF i < EncodedBytes(n) THEN 128 + Digit(n, i) ELSE Digit(n, i)
  BY EncodeShape
<1>2. /\ Digit(n, 1) \in 0 .. 127 /\ Digit(n, 2) \in 0 .. 127
      /\ Digit(n, 3) \in 0 .. 127 /\ Digit(n, 4) \in 0 .. 127
  BY DigitType, SMT
<1>3. /\ n = Digit(n, 1) + 128 * Digit(n, 2) + 16384 * Digit(n, 3) + 2097152 * Digit(n, 4)
      /\ n < 128 => Digit(n, 2) = 0
      /\ n < 16384 => Digit(n, 3) = 0
      /\ n < 2097152 => Digit(n, 4) = 0
  BY DigitsSum
<1>4. CASE EncodedBytes(n) = 1
  <2>1. s[2] = Digit(n, 1) /\ n < 128
    BY <1>1, <1>4, SMT DEF EncodedBytes
  <2> QED BY <1>2, <1>3, <2>1, SMT DEF Length
<1>5. CASE EncodedBytes(n) = 2
  <2>1. s[2] = 128 + Digit(n, 1) /\ s[3] = Digit(n, 2) /\ n < 16384
    BY <1>1, <1>5, SMT DEF EncodedBytes
  <2> QED BY <1>2, <1>3, <2>1, SMT DEF Length
<1>6. CASE EncodedBytes(n) = 3
  <2>1. /\ s[2] = 128 + Digit(n, 1) /\ s[3] = 128 + Digit(n, 2) /\ s[4] = Digit(n, 3)
        /\ n < 2097152
    BY <1>1, <1>6, SMT DEF EncodedBytes
  <2>2. Length(s) = (s[2] - 128) + 128 * (s[3] - 128) + 16384 * s[4]
    BY <1>2, <2>1, SMT DEF Length
  <2>3. Digit(n, 4) = 0
    BY <1>3, <2>1
  <2>4. s[2] - 128 = Digit(n, 1) /\ s[3] - 128 = Digit(n, 2)
    BY <1>2, <2>1, SMT
  <2>5. Length(s) = Digit(n, 1) + 128 * Digit(n, 2) + 16384 * Digit(n, 3)
    BY <2>1, <2>2, <2>4
  <2>6. n = Digit(n, 1) + 128 * Digit(n, 2) + 16384 * Digit(n, 3)
    BY <2>1, ThreeDigits
  <2> QED BY <2>5, <2>6
<1>7. CASE EncodedBytes(n) = 4
  <2>1. /\ s[2] = 128 + Digit(n, 1) /\ s[3] = 128 + Digit(n, 2) /\ s[4] = 128 + Digit(n, 3)
        /\ s[5] = Digit(n, 4)
    BY <1>1, <1>7, SMT
  <2> QED BY <1>2, <1>3, <2>1, SMT DEF Length
<1> QED BY <1>1, <1>4, <1>5, <1>6, <1>7, SMT

(* The broker finds the body of a frame at the head of a stream.           *)
LEMMA BrokerTakes ==
  ASSUME NEW f \in Byte, NEW b \in Seq(Byte), Len(b) <= MaxLength,
         NEW s \in Seq(Byte), Len(Frame(f, b)) <= Len(s),
         \A i \in 1 .. Len(Frame(f, b)) : s[i] = Frame(f, b)[i]
  PROVE  s[1] = f /\ Body(s) = b
<1> DEFINE n == Len(b)
           k == EncodedBytes(n)
           from == 2 + k
<1>1. n \in Nat /\ Len(s) \in Nat
  BY LenProperties
<1>2. /\ k \in 1 .. 4 /\ Len(Frame(f, b)) = 1 + k + n
      /\ Frame(f, b)[1] = f
      /\ \A i \in 1 .. k : Frame(f, b)[1 + i] = MQTTPacket_encode(n)[i]
      /\ \A i \in 1 .. n : Frame(f, b)[1 + k + i] = b[i]
  <2>1. n <= MaxLength /\ Len(b) = n
    OBVIOUS
  <2>2. \A m \in Nat : Len(b) = m /\ m <= MaxLength =>
          /\ EncodedBytes(m) \in 1 .. 4 /\ Len(Frame(f, b)) = 1 + EncodedBytes(m) + m
          /\ Frame(f, b)[1] = f
          /\ \A i \in 1 .. EncodedBytes(m) : Frame(f, b)[1 + i] = MQTTPacket_encode(m)[i]
          /\ \A i \in 1 .. m : Frame(f, b)[1 + EncodedBytes(m) + i] = b[i]
    <3> SUFFICES ASSUME NEW m \in Nat, Len(b) = m, m <= MaxLength
                 PROVE  /\ EncodedBytes(m) \in 1 .. 4
                        /\ Len(Frame(f, b)) = 1 + EncodedBytes(m) + m
                        /\ Frame(f, b)[1] = f
                        /\ \A i \in 1 .. EncodedBytes(m) :
                             Frame(f, b)[1 + i] = MQTTPacket_encode(m)[i]
                        /\ \A i \in 1 .. m : Frame(f, b)[1 + EncodedBytes(m) + i] = b[i]
      OBVIOUS
    <3> QED BY FrameShape
  <2> QED BY <1>1, <2>1, <2>2
<1> HIDE DEF n, k
<1>3. s[1] = f
  <2>1. 1 \in 1 .. Len(Frame(f, b))
    BY <1>1, <1>2, SMT
  <2> QED BY <1>2, <2>1
<1>4. Length(s) = n
  <2>1. \A i \in 1 .. k : 1 + i \in 1 .. Len(Frame(f, b))
    BY <1>1, <1>2, SMT
  <2>2. \A i \in 1 .. k : s[1 + i] = MQTTPacket_encode(n)[i]
    BY <1>2, <2>1
  <2> QED BY <1>1, <2>2, LengthRead DEF k, n
<1>5. Len(LengthBytes(n)) = k
  BY <1>1, EncodeShape, EncodedAsStandard DEF k, n
<1>6. Body(s) = SubSeq(s, from, from + n - 1)
  BY <1>4, <1>5 DEF Body
<1>7. \A i \in 1 .. n : 1 + k + i \in 1 .. Len(Frame(f, b)) /\ 1 + k + i = from + i - 1
  BY <1>1, <1>2, SMT
<1>8. \A i \in 1 .. n : s[from + i - 1] = b[i]
  <2> SUFFICES ASSUME NEW i \in 1 .. n PROVE s[from + i - 1] = b[i]
    OBVIOUS
  <2>1. s[1 + k + i] = b[i]
    BY <1>2, <1>7
  <2> QED BY <1>7, <2>1
<1>9. \A i \in from .. from + n - 1 : s[i] \in Byte
  <2> SUFFICES ASSUME NEW i \in from .. from + n - 1 PROVE s[i] \in Byte
    OBVIOUS
  <2>1. i \in 1 .. Len(s)
    BY <1>1, <1>2, SMT
  <2> QED BY <2>1, ElementOfSeq
<1>10. from \in Int /\ from + n - 1 \in Int /\ (from + n - 1) - from + 1 = n
       /\ (from <= from + n - 1 <=> n # 0)
  BY <1>1, <1>2, SMT
<1>11. /\ SubSeq(s, from, from + n - 1) \in Seq(Byte)
       /\ Len(SubSeq(s, from, from + n - 1)) = n
       /\ \A i \in 1 .. n : SubSeq(s, from, from + n - 1)[i] = s[from + i - 1]
  <2> DEFINE to == from + n - 1
  <2> HIDE DEF to, from
  <2>1. /\ SubSeq(s, from, to) \in Seq(Byte)
        /\ Len(SubSeq(s, from, to)) = IF from <= to THEN to - from + 1 ELSE 0
        /\ \A i \in 1 .. to - from + 1 : SubSeq(s, from, to)[i] = s[from + i - 1]
    BY <1>9, <1>10, SubSeqProperties DEF to
  <2>2. to - from + 1 = n /\ (from <= to <=> n # 0)
    BY <1>10 DEF to
  <2> QED BY <2>1, <2>2 DEF to
<1>12. SubSeq(s, from, from + n - 1) = b
  BY <1>8, <1>11, SeqEqual DEF n
<1> QED BY <1>3, <1>6, <1>12

(* Ids and lengths of two bytes keep their value.                          *)
LEMMA IntAsStandard ==
  ASSUME NEW n \in Nat, n < 65536
  PROVE  writeInt(n) = <<n \div 256, n % 256>>
<1> DEFINE d == n \div 256
<1>1. d \in Nat /\ d < 256
  BY SMT
<1> HIDE DEF d
<1>2. d % 256 = d
  BY <1>1, SMT
<1> QED BY <1>2 DEF writeInt, d

LEMMA StringAsStandard ==
  ASSUME NEW s, Text(s), Len(s) < 65536
  PROVE  writeMQTTString(s) = String(s)
<1>1. Len(s) \in Nat
  BY RunText
<1>2. writeInt(Len(s)) = <<Len(s) \div 256, Len(s) % 256>>
  BY <1>1, IntAsStandard, SMT
<1> QED BY <1>2 DEF writeMQTTString, String

LEMMA ConnectStart ==
  writeMQTTString(MQIsdp) \o <<3, MQTTConnectFlags>> = ConnectFields
<1>1. Len(MQIsdp) = 6
  BY SMT DEF MQIsdp
<1>2. writeInt(6) = <<0, 6>>
  BY SMT DEF writeInt
<1>3. MQTTConnectFlags = 194
  BY SMT DEF MQTTConnectFlags
<1>4. writeMQTTString(MQIsdp) = <<0, 6>> \o <<77, 81, 73, 115, 100, 112>>
  BY <1>1, <1>2, Zenon DEF writeMQTTString, MQIsdp
<1> DEFINE a == <<0, 6>>
           b == <<77, 81, 73, 115, 100, 112>>
           c == <<3, 194>>
           ab == <<0, 6, 77, 81, 73, 115, 100, 112>>
<1>5. a \in Seq(Byte) /\ b \in Seq(Byte) /\ c \in Seq(Byte) /\ Len(a) = 2 /\ Len(b) = 6 /\ Len(c) = 2
  BY SMT DEF Byte
<1>6. /\ ab \in Seq(Byte) /\ Len(ab) = 8
      /\ ConnectFields \in Seq(Byte) /\ Len(ConnectFields) = 10
  BY SMT DEF ConnectFields, Byte
<1>7. a \o b = ab
  <2>1. \A i \in 1 .. 8 : (a \o b)[i] = ab[i]
    BY <1>5, ConcatProperties, SMT
  <2>2. a \o b \in Seq(Byte) /\ Len(a \o b) = 8
    BY <1>5, ConcatProperties, SMT
  <2> QED BY <1>6, <2>1, <2>2, SeqEqual
<1>8. ab \o c = ConnectFields
  <2>1. \A i \in 1 .. 10 : (ab \o c)[i] = ConnectFields[i]
    BY <1>5, <1>6, ConcatProperties, SMT DEF ConnectFields
  <2>2. ab \o c \in Seq(Byte) /\ Len(ab \o c) = 10
    BY <1>5, <1>6, ConcatProperties, SMT
  <2> QED BY <1>6, <2>1, <2>2, SeqEqual
<1> QED BY <1>3, <1>4, <1>7, <1>8, Zenon

LEMMA EncodedZero == MQTTPacket_encode(0) = <<0>>
<1>1. 0 \in Nat /\ 0 <= MaxLength /\ 0 < 128
  BY SMT DEF MaxLength
<1>2. LengthBytes(0) = <<0>>
  BY <1>1, SMT DEF LengthBytes
<1> QED BY <1>1, <1>2, EncodedAsStandard

LEMMA PairConcat ==
  ASSUME NEW x \in Byte, NEW y \in Byte
  PROVE  <<x>> \o <<y>> = <<x, y>>
<1>1. <<x>> \in Seq(Byte) /\ <<y>> \in Seq(Byte) /\ <<x, y>> \in Seq(Byte)
  BY SMT
<1>2. \A i \in 1 .. 2 : (<<x>> \o <<y>>)[i] = <<x, y>>[i]
  BY <1>1, ConcatProperties, SMT
<1>3. <<x>> \o <<y>> \in Seq(Byte) /\ Len(<<x>> \o <<y>>) = 2 /\ Len(<<x, y>>) = 2
  BY <1>1, ConcatProperties, SMT
<1> QED BY <1>1, <1>2, <1>3, SeqEqual

(* A packet without fields is a frame too.                                 *)
LEMMA EmptyFrame ==
  ASSUME NEW f \in Byte
  PROVE  Frame(f, << >>) = <<f, 0>> /\ <<f>> \o MQTTPacket_encode(0) = <<f, 0>>
<1>1. << >> \in Seq(Byte) /\ Len(<< >>) = 0 /\ 0 <= MaxLength
  BY EmptySeq, SMT DEF MaxLength
<1>2. Frame(f, << >>) = (<<f>> \o MQTTPacket_encode(0)) \o << >>
  BY <1>1, FrameConcat
<1>3. 0 \in Byte /\ <<f, 0>> \in Seq(Byte)
  BY SMT DEF Byte
<1>4. <<f>> \o <<0>> = <<f, 0>>
  BY <1>3, PairConcat
<1>5. <<f, 0>> \o << >> = <<f, 0>>
  BY <1>3, ConcatEmptySeq
<1> QED BY <1>2, <1>4, <1>5, EncodedZero

(* The frame that MQTT wants a request to have has the fields that the     *)
(* serializer writes, behind the same first byte.                          *)
LEMMA StandardRequest ==
  ASSUME NEW p, Askable(p), Representable(p)
  PROVE  /\ MQTTHeader(p.type, Qos(p), p.retained) \in Byte
         /\ Standard(p) = Frame(MQTTHeader(p.type, Qos(p), p.retained), Fields(p))
<1> DEFINE h == MQTTHeader(p.type, Qos(p), p.retained)
<1>0. /\ p.type \in {CONNECT, PUBLISH, SUBSCRIBE, UNSUBSCRIBE, PINGREQ}
      /\ p.id \in Nat /\ p.id < 65536 /\ p.retained \in 0 .. 1
      /\ p.type # PUBLISH => p.retained = 0
  BY SMT DEF Askable, Representable
<1>1. h = 16 * p.type + 2 * Qos(p) + p.retained
  BY DEF MQTTHeader
<1>2. Id(p) = writeInt(p.id)
  BY <1>0, IntAsStandard DEF Id
<1> HIDE DEF h
<1>3. CASE p.type = CONNECT
  <2>1. h = 16
    BY <1>0, <1>1, <1>3, TypeNumbers, SMT DEF Qos
  <2>2. /\ String(p.strings[1]) = writeMQTTString(p.strings[1])
        /\ String(p.strings[2]) = writeMQTTString(p.strings[2])
        /\ String(p.strings[3]) = writeMQTTString(p.strings[3])
    <3>1. Text(p.strings[1]) /\ Text(p.strings[2]) /\ Text(p.strings[3])
      BY <1>3 DEF Askable
    <3>2. /\ Len(p.strings[1]) < 65536 /\ Len(p.strings[2]) < 65536
          /\ Len(p.strings[3]) < 65536
      BY <1>3, TypeNumbers DEF Representable
    <3> QED BY <3>1, <3>2, StringAsStandard
  <2>3. /\ Fields(p) = ConnectBody(p)
        /\ Standard(p) = Frame(16, ConnectFields \o Id(p) \o String(p.strings[1])
                                     \o String(p.strings[2]) \o String(p.strings[3]))
    BY <1>3, TypeNumbers DEF Fields, Standard
  <2>4. ConnectBody(p) = ConnectFields \o Id(p) \o String(p.strings[1])
                           \o String(p.strings[2]) \o String(p.strings[3])
    BY <1>2, <2>2, ConnectStart DEF ConnectBody
  <2>5. 16 \in Byte
    BY SMT DEF Byte
  <2> QED BY <2>1, <2>3, <2>4, <2>5 DEF h
<1>4. CASE p.type = PUBLISH
  <2>1. h = 48 + p.retained /\ 48 + p.retained \in Byte
    BY <1>0, <1>1, <1>4, TypeNumbers, SMT DEF Qos, Byte
  <2>2. String(p.strings[1]) = writeMQTTString(p.strings[1])
    BY <1>4, StringAsStandard, TypeNumbers DEF Askable, Representable
  <2>3. /\ Fields(p) = PublishBody(p)
        /\ Standard(p) = Frame(48 + p.retained, String(p.strings[1]) \o p.payload)
    BY <1>4, TypeNumbers DEF Fields, Standard
  <2> QED BY <2>1, <2>2, <2>3 DEF h, PublishBody
<1>5. CASE p.type = SUBSCRIBE
  <2>1. h = 130 /\ 130 \in Byte
    BY <1>0, <1>1, <1>5, TypeNumbers, SMT DEF Qos, Byte
  <2>2. String(p.strings[1]) = writeMQTTString(p.strings[1])
    BY <1>5, StringAsStandard, TypeNumbers DEF Askable, Representable
  <2>3. /\ Fields(p) = SubscribeBody(p)
        /\ Standard(p) = Frame(130, Id(p) \o String(p.strings[1]) \o p.payload)
    BY <1>5, TypeNumbers DEF Fields, Standard
  <2> QED BY <1>2, <2>1, <2>2, <2>3 DEF h, SubscribeBody
<1>6. CASE p.type = UNSUBSCRIBE
  <2>1. h = 162 /\ 162 \in Byte
    BY <1>0, <1>1, <1>6, TypeNumbers, SMT DEF Qos, Byte
  <2>2. String(p.strings[1]) = writeMQTTString(p.strings[1])
    BY <1>6, StringAsStandard, TypeNumbers DEF Askable, Representable
  <2>3. /\ Fields(p) = UnsubscribeBody(p)
        /\ Standard(p) = Frame(162, Id(p) \o String(p.strings[1]))
    BY <1>6, TypeNumbers DEF Fields, Standard
  <2> QED BY <1>2, <2>1, <2>2, <2>3 DEF h, UnsubscribeBody
<1>7. CASE p.type = PINGREQ
  <2>1. h = 192 /\ 192 \in Byte
    BY <1>0, <1>1, <1>7, TypeNumbers, SMT DEF Qos, Byte
  <2>2. Fields(p) = << >> /\ Standard(p) = <<192, 0>>
    BY <1>7, TypeNumbers DEF Fields, Standard
  <2> QED BY <2>1, <2>2, EmptyFrame DEF h
<1> QED BY <1>0, <1>3, <1>4, <1>5, <1>6, <1>7

(* What the client writes for a request is the packet that MQTT wants, for *)
(* every text and id and for lengths of one to four bytes                  *)
(* (MQTTConnectClient.c, MQTTSerializePublish.c, MQTTSubscribeClient.c,    *)
(* MQTTUnsubscribeClient.c, MQTTPacket.c:29-47).                           *)
THEOREM SerializedAsStandard ==
  ASSUME NEW p, Askable(p), Representable(p), RemainingLength(p) <= MaxLength
  PROVE  Serialize(p) = Standard(p)
<1> DEFINE h == MQTTHeader(p.type, Qos(p), p.retained)
           n == RemainingLength(p)
<1>1. /\ n \in Nat /\ Fields(p) \in Seq(Byte) /\ Len(Fields(p)) = n
      /\ IF p.type = PINGREQ THEN Serialize(p) = Begin(p, Qos(p))
         ELSE Serialize(p) = Begin(p, Qos(p)) \o Fields(p)
  BY SerializedInParts DEF Run
<1>2. h \in Byte /\ Standard(p) = Frame(h, Fields(p))
  BY StandardRequest
<1>3. Begin(p, Qos(p)) = <<h>> \o MQTTPacket_encode(n)
  BY DEF Begin
<1> HIDE DEF h
<1>4. CASE p.type = PINGREQ
  <2>1. n = 0 /\ Fields(p) = << >>
    BY <1>4, TypeNumbers, SMT DEF RemainingLength, Fields
  <2> QED BY <1>1, <1>2, <1>3, <1>4, <2>1, EmptyFrame
<1>5. CASE p.type # PINGREQ
  BY <1>1, <1>2, <1>3, <1>5, FrameConcat
<1> QED BY <1>4, <1>5

-----------------------------------------------------------------------------
(* What the client reads back.                                             *)
LEMMA ConcatParts ==
  ASSUME NEW S, NEW s \in Seq(S), NEW t \in Seq(S)
  PROVE  /\ s \o t \in Seq(S) /\ Len(s \o t) = Len(s) + Len(t)
         /\ \A i \in 1 .. Len(s) : (s \o t)[i] = s[i]
         /\ \A i \in 1 .. Len(t) : (s \o t)[Len(s) + i] = t[i]
<1>1. Len(s) \in Nat /\ Len(t) \in Nat
  BY LenProperties
<1> DEFINE r == s \o t
           m == Len(s)
           n == Len(t)
<1>2. /\ r \in Seq(S) /\ Len(r) = m + n
      /\ \A i \in 1 .. m + n : r[i] = IF i <= m THEN s[i] ELSE t[i - m]
  BY ConcatProperties
<1> HIDE DEF r, m, n
<1>3. m \in Nat /\ n \in Nat
  BY <1>1 DEF m, n
<1>4. \A i \in 1 .. m : r[i] = s[i]
  BY <1>2, <1>3, SMT
<1>5. ASSUME NEW i \in 1 .. n PROVE r[m + i] = t[i]
  <2>1. m + i \in 1 .. m + n /\ ~(m + i <= m) /\ (m + i) - m = i
    BY <1>3, SMT
  <2> QED BY <1>2, <2>1
<1> QED BY <1>2, <1>4, <1>5 DEF r, m, n

LEMMA SubSeqIs ==
  ASSUME NEW S, NEW s \in Seq(S), NEW t \in Seq(S), NEW m \in Nat, NEW k \in Nat,
         Len(t) = k, m + k <= Len(s), \A i \in 1 .. k : s[m + i] = t[i],
         NEW from, from = m + 1, NEW to, to = m + k
  PROVE  SubSeq(s, from, to) = t
<1> DEFINE r == SubSeq(s, from, to)
<1>1. Len(s) \in Nat
  BY LenProperties
<1>2. from \in 1 .. Len(s) + 1 /\ to \in from - 1 .. Len(s) /\ to - from + 1 = k
  BY <1>1, SMT
<1>3. /\ r \in Seq(S) /\ Len(r) = k
      /\ \A i \in 1 .. k : r[i] = s[from + i - 1]
  BY <1>1, <1>2, SubSeqProperties, SMT
<1>4. \A i \in 1 .. k : from + i - 1 = m + i
  BY SMT
<1>5. \A i \in 1 .. k : r[i] = t[i]
  BY <1>3, <1>4
<1> QED BY <1>3, <1>5, SeqEqual

(* The length behind the first byte is read as it was written.             *)
LEMMA LengthDecoded ==
  ASSUME NEW n \in Nat, n <= MaxLength, NEW s,
         \A i \in 1 .. EncodedBytes(n) : s[1 + i] = MQTTPacket_encode(n)[i]
  PROVE  DecodedBytes(s, 2) = EncodedBytes(n) /\ DecodedValue(s, 2) = n
<1>1. \A j \in 1 .. EncodedBytes(n) : 2 + j - 1 = 1 + j
  BY EncodeShape, SMT
<1>2. \A j \in 1 .. EncodedBytes(n) : s[2 + j - 1] = MQTTPacket_encode(n)[j]
  BY <1>1
<1> QED BY <1>2, LengthAt, 2 \in Nat

(* Where the fields are in a frame, and which.                             *)
LEMMA FrameRead ==
  ASSUME NEW f \in Byte, NEW b \in Seq(Byte), NEW n \in Nat, Len(b) = n, n <= MaxLength,
         NEW s, s = Frame(f, b)
  PROVE  /\ s \in Seq(Byte) /\ s[1] = f
         /\ Start(s) \in Nat /\ Start(s) >= 3
         /\ End(s) = Start(s) + n - 1 /\ Len(s) = End(s)
         /\ \A i \in 1 .. n : s[Start(s) - 1 + i] = b[i]
<1> DEFINE k == EncodedBytes(n)
<1>1. /\ s \in Seq(Byte) /\ k \in 1 .. 4 /\ Len(s) = 1 + k + n /\ s[1] = f
      /\ \A i \in 1 .. k : s[1 + i] = MQTTPacket_encode(n)[i]
      /\ \A i \in 1 .. n : s[1 + k + i] = b[i]
  BY FrameShape
<1>2. DecodedBytes(s, 2) = k /\ DecodedValue(s, 2) = n
  BY <1>1, LengthDecoded
<1> HIDE DEF k
<1>3. Start(s) = 2 + k /\ End(s) = 2 + k + n - 1
  BY <1>2, Zenon DEF Start, End
<1>4. \A i \in 1 .. n : Start(s) - 1 + i = 1 + k + i
  BY <1>1, <1>3, SMT
<1>5. \A i \in 1 .. n : s[Start(s) - 1 + i] = b[i]
  BY <1>1, <1>4
<1> QED BY <1>1, <1>3, <1>5, SMT

(* Only a body that leaves room for its length fits the buffer.            *)
LEMMA BodyShorter ==
  ASSUME NEW f \in Byte, NEW b \in Seq(Byte)
  PROVE  Len(Frame(f, b)) \in Nat /\ Len(b) <= Len(Frame(f, b))
<1> DEFINE n == Len(b)
           l == LengthBytes(n)
<1>1. n \in Nat
  BY LenProperties
<1>2. l \in Seq(Nat)
  <2> HIDE DEF n
  <2>1. /\ 128 + (n % 128) \in Nat /\ 128 + ((n \div 128) % 128) \in Nat
        /\ 128 + ((n \div 16384) % 128) \in Nat /\ n \div 128 \in Nat
        /\ n \div 16384 \in Nat /\ n \div 2097152 \in Nat
    BY <1>1, SMT
  <2> QED BY <1>1, <2>1, SMT DEF LengthBytes
<1>3. <<f>> \in Seq(Nat) /\ b \in Seq(Nat)
  <2>1. Byte \subseteq Nat
    BY SMT DEF Byte
  <2>2. f \in Nat /\ b \in Seq(Nat)
    BY <2>1, SeqMonotonic
  <2> QED BY <2>2, SMT
<1> HIDE DEF n, l
<1>4. <<f>> \o l \in Seq(Nat)
  BY <1>2, <1>3, ConcatProperties
<1>5. Len((<<f>> \o l) \o b) = Len(<<f>> \o l) + Len(b)
  BY <1>3, <1>4, ConcatProperties
<1>6. Len(<<f>> \o l) \in Nat /\ Len(b) \in Nat
  BY <1>3, <1>4, LenProperties
<1>7. Frame(f, b) = (<<f>> \o l) \o b
  BY DEF Frame, n, l
<1>8. Len(<<f>> \o l) + Len(b) \in Nat /\ Len(b) <= Len(<<f>> \o l) + Len(b)
  BY <1>6, SMT
<1> QED BY <1>5, <1>7, <1>8

LEMMA PairParts ==
  ASSUME NEW x \in Byte, NEW y \in Byte, NEW t \in Seq(Byte)
  PROVE  /\ <<x, y>> \o t \in Seq(Byte) /\ Len(<<x, y>> \o t) = 2 + Len(t)
         /\ (<<x, y>> \o t)[1] = x /\ (<<x, y>> \o t)[2] = y
         /\ \A i \in 1 .. Len(t) : (<<x, y>> \o t)[2 + i] = t[i]
<1>1. <<x, y>> \in Seq(Byte) /\ Len(<<x, y>>) = 2 /\ <<x, y>>[1] = x /\ <<x, y>>[2] = y
  BY SMT
<1>2. 1 \in 1 .. 2 /\ 2 \in 1 .. 2
  BY SMT
<1> DEFINE h == <<x, y>>
<1> HIDE DEF h
<1>3. /\ h \o t \in Seq(Byte) /\ Len(h \o t) = 2 + Len(t)
      /\ \A i \in 1 .. 2 : (h \o t)[i] = h[i]
      /\ \A i \in 1 .. Len(t) : (h \o t)[2 + i] = t[i]
  <2>1. h \in Seq(Byte) /\ Len(h) = 2
    BY <1>1 DEF h
  <2>2. /\ h \o t \in Seq(Byte) /\ Len(h \o t) = Len(h) + Len(t)
        /\ \A i \in 1 .. Len(h) : (h \o t)[i] = h[i]
        /\ \A i \in 1 .. Len(t) : (h \o t)[Len(h) + i] = t[i]
    BY <2>1, ConcatParts
  <2> QED BY <2>1, <2>2
<1>4. h[1] = x /\ h[2] = y
  BY <1>1 DEF h
<1> QED BY <1>2, <1>3, <1>4 DEF h

LEMMA TwoBytes ==
  ASSUME NEW n \in Nat, n < 65536
  PROVE  /\ n \div 256 \in Byte /\ n % 256 \in Byte
         /\ 256 * (n \div 256) + (n % 256) = n
BY SMT DEF Byte

(* A string of MQTT: its length, then its bytes.                           *)
LEMMA StringParts ==
  ASSUME NEW s, Text(s), Len(s) < 65536
  PROVE  /\ String(s) \in Seq(Byte) /\ Len(String(s)) = 2 + Len(s)
         /\ readInt(String(s), 1) = Len(s)
         /\ \A i \in 1 .. Len(s) : String(s)[2 + i] = s[i]
<1> DEFINE n == Len(s)
<1>1. s \in Seq(Byte) /\ n \in Nat
  BY LenProperties DEF Text
<1>2. n \div 256 \in Byte /\ n % 256 \in Byte /\ 256 * (n \div 256) + (n % 256) = n
  BY <1>1, TwoBytes
<1>3. String(s) = <<n \div 256, n % 256>> \o s
  BY DEF String
<1> HIDE DEF n
<1>4. /\ String(s) \in Seq(Byte) /\ Len(String(s)) = 2 + Len(s)
      /\ String(s)[1] = n \div 256 /\ String(s)[2] = n % 256
      /\ \A i \in 1 .. Len(s) : String(s)[2 + i] = s[i]
  BY <1>1, <1>2, <1>3, PairParts
<1>5. readInt(String(s), 1) = n
  BY <1>2, <1>4, 1 + 1 = 2 DEF readInt
<1> QED BY <1>4, <1>5 DEF n

(* The first byte and the body of a packet of the broker.                  *)
FirstByte(p) ==
  CASE p.type = CONNACK -> 32
    [] p.type = PUBLISH -> 48 + p.retained
    [] p.type = SUBACK -> 144
    [] p.type = UNSUBACK -> 176
    [] p.type = PINGRESP -> 208
AnswerBody(p) ==
  CASE p.type = CONNACK -> <<0>> \o p.payload
    [] p.type = PUBLISH -> String(p.strings[1]) \o p.payload
    [] p.type = SUBACK -> Id(p) \o p.payload
    [] p.type = UNSUBACK -> Id(p)
    [] p.type = PINGRESP -> << >>

LEMMA IdBytes ==
  ASSUME NEW p, p.id \in Nat, p.id < 65536
  PROVE  /\ p.id \div 256 \in Byte /\ p.id % 256 \in Byte
         /\ Id(p) \in Seq(Byte) /\ Len(Id(p)) = 2 /\ Id(p)[1] = p.id \div 256
         /\ Id(p)[2] = p.id % 256 /\ 256 * (p.id \div 256) + (p.id % 256) = p.id
<1> DEFINE a == p.id \div 256
           b == p.id % 256
<1>1. a \in Byte /\ b \in Byte /\ 256 * a + b = p.id
  BY TwoBytes
<1>2. Id(p) = <<a, b>>
  BY DEF Id
<1> HIDE DEF a, b
<1>3. Id(p) \in Seq(Byte) /\ Len(Id(p)) = 2 /\ Id(p)[1] = a /\ Id(p)[2] = b
  BY <1>1, <1>2, SMT
<1> QED BY <1>1, <1>3 DEF a, b

LEMMA AnswerFrame ==
  ASSUME NEW p, Answerable(p)
  PROVE  /\ FirstByte(p) \in Byte /\ AnswerBody(p) \in Seq(Byte)
         /\ Len(AnswerBody(p)) \in Nat /\ Len(AnswerBody(p)) <= MaxLength
         /\ Standard(p) = Frame(FirstByte(p), AnswerBody(p))
<1> DEFINE f == FirstByte(p)
           b == AnswerBody(p)
<1>0. /\ p.type \in {CONNACK, PUBLISH, SUBACK, UNSUBACK, PINGRESP}
      /\ p.id \in Nat /\ p.id < 65536 /\ Text(p.payload)
      /\ p.type = PUBLISH => Text(p.strings[1]) /\ Len(p.strings[1]) < 65536
      /\ Len(Standard(p)) <= BufSize
  BY DEF Answerable
<1>r. p.retained \in 0 .. 1
  BY DEF Answerable
<1>1. f \in Byte
  <2>1. /\ 32 \in Byte /\ 48 + p.retained \in Byte /\ 144 \in Byte /\ 176 \in Byte
        /\ 208 \in Byte
    BY <1>r, SMT DEF Byte
  <2> QED BY <1>0, <2>1, TypeNumbers DEF FirstByte
<1>2. b \in Seq(Byte)
  <2>1. p.payload \in Seq(Byte) /\ Id(p) \in Seq(Byte)
    BY <1>0, IdBytes DEF Text
  <2>2. <<0>> \in Seq(Byte) /\ << >> \in Seq(Byte)
    <3>1. 0 \in Byte
      BY SMT DEF Byte
    <3> QED BY <3>1, OneByte, EmptySeq
  <2>3. p.type = PUBLISH => String(p.strings[1]) \in Seq(Byte)
    BY <1>0, StringParts
  <2>4. /\ <<0>> \o p.payload \in Seq(Byte) /\ Id(p) \o p.payload \in Seq(Byte)
        /\ p.type = PUBLISH => String(p.strings[1]) \o p.payload \in Seq(Byte)
    BY <2>1, <2>2, <2>3, ConcatProperties
  <2> QED BY <1>0, <2>1, <2>2, <2>4, TypeNumbers DEF AnswerBody
<1>3. Standard(p) = Frame(f, b)
  <2>1. CASE p.type = CONNACK
    BY <2>1, TypeNumbers DEF Standard, FirstByte, AnswerBody
  <2>2. CASE p.type = PUBLISH
    BY <2>2, TypeNumbers DEF Standard, FirstByte, AnswerBody
  <2>3. CASE p.type = SUBACK
    BY <2>3, TypeNumbers DEF Standard, FirstByte, AnswerBody
  <2>4. CASE p.type = UNSUBACK
    BY <2>4, TypeNumbers DEF Standard, FirstByte, AnswerBody
  <2>5. CASE p.type = PINGRESP
    <3>1. Standard(p) = <<208, 0>> /\ f = 208 /\ b = << >>
      BY <2>5, TypeNumbers DEF Standard, FirstByte, AnswerBody
    <3> QED BY <1>1, <3>1, EmptyFrame
  <2> QED BY <1>0, <2>1, <2>2, <2>3, <2>4, <2>5
<1> HIDE DEF f, b
<1>4. Len(b) \in Nat /\ Len(b) <= MaxLength
  <2>1. /\ Len(b) \in Nat /\ Len(Frame(f, b)) \in Nat
        /\ Len(b) <= Len(Frame(f, b)) /\ Len(Frame(f, b)) <= BufSize
    BY <1>0, <1>1, <1>2, <1>3, BodyShorter, LenProperties
  <2> QED BY <2>1, SizeAssumption, SMT DEF MaxLength
<1> QED BY <1>1, <1>2, <1>3, <1>4 DEF f, b

(* A packet by what stands where in it.                                    *)
Joined(b, x, y) ==
  /\ b \in Seq(Byte) /\ Len(b) = Len(x) + Len(y)
  /\ \A i \in 1 .. Len(x) : b[i] = x[i]
  /\ \A i \in 1 .. Len(y) : b[Len(x) + i] = y[i]
StringOf(u, t) ==
  /\ u \in Seq(Byte) /\ Len(u) = 2 + Len(t) /\ readInt(u, 1) = Len(t)
  /\ \A i \in 1 .. Len(t) : u[2 + i] = t[i]
Framed(s, f, b) ==
  /\ s \in Seq(Byte) /\ s[1] = f
  /\ Start(s) \in Nat /\ Start(s) >= 3
  /\ End(s) = Start(s) + Len(b) - 1 /\ Len(s) = End(s)
  /\ \A i \in 1 .. Len(b) : s[Start(s) - 1 + i] = b[i]

LEMMA JoinedBytes == \A x, y \in Seq(Byte) : Joined(x \o y, x, y)
BY ConcatParts DEF Joined

LEMMA FramedBytes ==
  ASSUME NEW f \in Byte, NEW b \in Seq(Byte), Len(b) <= MaxLength
  PROVE  Framed(Frame(f, b), f, b)
<1>1. Len(b) \in Nat
  BY LenProperties
<1> QED BY <1>1, FrameRead DEF Framed

LEMMA PublishRead ==
  ASSUME NEW r \in 0 .. 1, NEW t \in Seq(Byte), NEW y \in Seq(Byte),
         NEW u, StringOf(u, t), NEW b, Joined(b, u, y), NEW s, Framed(s, 48 + r, b)
  PROVE  Deserialize(s) = [type |-> PUBLISH, id |-> 0, strings |-> <<t>>, payload |-> y,
                           retained |-> r]
<1> DEFINE from == Start(s)
           m == Len(t)
           k == Len(y)
           n == Len(b)
           to == from + 1 + m
<1>1. m \in Nat /\ k \in Nat
  BY LenProperties
<1>2. /\ u \in Seq(Byte) /\ Len(u) = 2 + m
      /\ readInt(u, 1) = m
      /\ \A i \in 1 .. m : u[2 + i] = t[i]
  BY DEF StringOf
<1>3. /\ b \in Seq(Byte) /\ n = Len(u) + k
      /\ \A i \in 1 .. Len(u) : b[i] = u[i]
      /\ \A i \in 1 .. k : b[Len(u) + i] = y[i]
  BY DEF Joined
<1>5. /\ s \in Seq(Byte) /\ s[1] = 48 + r
      /\ from \in Nat /\ from >= 3
      /\ End(s) = from + n - 1 /\ Len(s) = End(s)
      /\ \A i \in 1 .. n : s[from - 1 + i] = b[i]
  BY DEF Framed
<1> HIDE DEF m, k, n, from
<1>4. /\ n = (2 + m) + k
      /\ \A i \in 1 .. 2 + m : b[i] = u[i]
      /\ \A i \in 1 .. k : b[(2 + m) + i] = y[i]
  BY <1>2, <1>3
<1>6. s[from] = u[1] /\ s[from + 1] = u[2]
  <2>1. /\ 1 \in 1 .. n /\ 2 \in 1 .. n /\ 1 \in 1 .. 2 + m /\ 2 \in 1 .. 2 + m
        /\ from - 1 + 1 = from /\ from - 1 + 2 = from + 1
    BY <1>1, <1>4, <1>5, SMT
  <2> QED BY <1>4, <1>5, <2>1
<1>7. readInt(s, from) = m
  BY <1>2, <1>6, 1 + 1 = 2 DEF readInt
<1>8. /\ End(s) - from + 1 > 1 /\ to <= End(s) /\ End(s) = to + k
      /\ (from + 1) + m <= Len(s) /\ to + k <= Len(s)
      /\ to \in Nat /\ from + 1 \in Nat /\ from + 2 = (from + 1) + 1 /\ to = (from + 1) + m
  BY <1>1, <1>4, <1>5, SMT
<1>9. ASSUME NEW i \in 1 .. m PROVE s[(from + 1) + i] = t[i]
  <2>1. 2 + i \in 1 .. 2 + m /\ 2 + i \in 1 .. n /\ from - 1 + (2 + i) = (from + 1) + i
    BY <1>1, <1>4, <1>5, SMT
  <2> QED BY <1>2, <1>4, <1>5, <2>1
<1>10. ASSUME NEW i \in 1 .. k PROVE s[to + i] = y[i]
  <2>1. (2 + m) + i \in 1 .. n /\ from - 1 + ((2 + m) + i) = to + i
    BY <1>1, <1>4, <1>5, SMT
  <2> QED BY <1>4, <1>5, <2>1
<1>11. Type(s) = 3 /\ s[1] % 2 = r
  BY <1>5, SMT DEF Type
<1> HIDE DEF to
<1>13. SubSeq(s, from + 2, to) = t
  BY <1>1, <1>5, <1>8, <1>9, SubSeqIs DEF m
<1>14. SubSeq(s, to + 1, End(s)) = y
  <2> DEFINE a == to + 1
             z == End(s)
  <2>1. a = to + 1 /\ z = to + k /\ to + k <= Len(s) /\ Len(y) = k
    BY <1>8 DEF k
  <2>2. to \in Nat /\ s \in Seq(Byte)
    BY <1>5, <1>8
  <2> HIDE DEF a, z
  <2>3. SubSeq(s, a, z) = y
    BY <1>1, <1>10, <2>1, <2>2, SubSeqIs
  <2> QED BY <2>3 DEF a, z
<1>12. MQTTDeserialize_publish(s) =
         IF End(s) - from + 1 > 1 /\ to <= End(s)
           THEN [type |-> PUBLISH, id |-> 0, strings |-> <<SubSeq(s, from + 2, to)>>,
                 payload |-> SubSeq(s, to + 1, End(s)), retained |-> s[1] % 2]
           ELSE TooFew(s)
  BY <1>7, Zenon DEF MQTTDeserialize_publish, from, to
<1>15. Deserialize(s) = MQTTDeserialize_publish(s)
  BY <1>11, TypeNumbers DEF Deserialize
<1>16. End(s) - from + 1 > 1 /\ to <= End(s) /\ s[1] % 2 = r
  BY <1>8, <1>11
<1> QED BY <1>12, <1>13, <1>14, <1>15, <1>16, Zenon

(* A SUBACK or an UNSUBACK: an id of two bytes, and what there is behind.  *)
LEMMA AckRead ==
  ASSUME NEW type \in {SUBACK, UNSUBACK}, NEW id, NEW u \in Seq(Byte), Len(u) = 2,
         readInt(u, 1) = id, NEW y \in Seq(Byte),
         NEW b, Joined(b, u, y), NEW s, Framed(s, 16 * type, b)
  PROVE  Deserialize(s) = [type |-> type, id |-> id, strings |-> << >>, payload |-> y,
                           retained |-> 0]
<1> DEFINE from == Start(s)
           k == Len(y)
           n == Len(b)
<1>1. k \in Nat
  BY LenProperties
<1>2. (16 * type) \div 16 = type
  BY TypeNumbers, SMT
<1>3. /\ b \in Seq(Byte) /\ n = Len(u) + k
      /\ \A i \in 1 .. Len(u) : b[i] = u[i]
      /\ \A i \in 1 .. k : b[Len(u) + i] = y[i]
  BY DEF Joined
<1>6. /\ s \in Seq(Byte) /\ s[1] = 16 * type
      /\ from \in Nat /\ from >= 3
      /\ End(s) = from + n - 1 /\ Len(s) = End(s)
      /\ \A i \in 1 .. n : s[from - 1 + i] = b[i]
  BY DEF Framed
<1> HIDE DEF from, k, n
<1>5. /\ n = 2 + k
      /\ \A i \in 1 .. 2 : b[i] = u[i]
      /\ \A i \in 1 .. k : b[2 + i] = y[i]
  BY <1>3
<1>7. s[from] = u[1] /\ s[from + 1] = u[2]
  <2>1. /\ 1 \in 1 .. n /\ 2 \in 1 .. n /\ 1 \in 1 .. 2 /\ 2 \in 1 .. 2
        /\ from - 1 + 1 = from /\ from - 1 + 2 = from + 1
    BY <1>1, <1>5, <1>6, SMT
  <2> QED BY <1>5, <1>6, <2>1
<1>8. readInt(s, from) = id
  BY <1>7, 1 + 1 = 2 DEF readInt
<1>9. /\ ~(End(s) - from + 1 < 2) /\ End(s) = (from + 1) + k
      /\ (from + 1) + k <= Len(s) /\ from + 1 \in Nat /\ from + 2 = (from + 1) + 1
  BY <1>1, <1>5, <1>6, SMT
<1>10. ASSUME NEW i \in 1 .. k PROVE s[(from + 1) + i] = y[i]
  <2>1. 2 + i \in 1 .. n /\ from - 1 + (2 + i) = (from + 1) + i
    BY <1>1, <1>5, <1>6, SMT
  <2> QED BY <1>5, <1>6, <2>1
<1>11. SubSeq(s, from + 2, End(s)) = y
  <2> DEFINE a == from + 2
             z == End(s)
             q == from + 1
  <2>1. a = q + 1 /\ z = q + k /\ q + k <= Len(s) /\ Len(y) = k
    BY <1>9 DEF k
  <2>2. q \in Nat /\ s \in Seq(Byte) /\ \A i \in 1 .. k : s[q + i] = y[i]
    BY <1>6, <1>9, <1>10
  <2> HIDE DEF a, z, q
  <2>3. SubSeq(s, a, z) = y
    BY <1>1, <2>1, <2>2, SubSeqIs
  <2> QED BY <2>3 DEF a, z
<1>12. Type(s) = type
  BY <1>2, <1>6, Zenon DEF Type
<1>13. MQTTDeserialize_ack(s) = [type |-> type, id |-> id, strings |-> << >>, payload |-> y,
                                 retained |-> 0]
  <2>1. ~(End(s) - from + 1 < 2)
    BY <1>9
  <2> QED BY <1>8, <2>1, <1>11, <1>12, Zenon DEF MQTTDeserialize_ack, from
<1>14. Deserialize(s) = MQTTDeserialize_ack(s)
  BY <1>12, TypeNumbers DEF Deserialize
<1> QED BY <1>13, <1>14

LEMMA ConnackRead ==
  ASSUME NEW b, Len(b) = 2, NEW s, Framed(s, 32, b)
  PROVE  Deserialize(s) = [type |-> CONNACK, id |-> 0, strings |-> << >>,
                           payload |-> <<b[2]>>, retained |-> 0]
<1> DEFINE from == Start(s)
<1>2. /\ s[1] = 32 /\ from \in Nat
      /\ End(s) = from + 2 - 1 /\ \A i \in 1 .. 2 : s[from - 1 + i] = b[i]
  BY DEF Framed
<1> HIDE DEF from
<1>3. ~(End(s) - from + 1 < 2) /\ from - 1 + 2 = from + 1 /\ 2 \in 1 .. 2
  BY <1>2, SMT
<1>4. s[from + 1] = b[2]
  BY <1>2, <1>3
<1>5. Type(s) = 2
  BY <1>2, SMT DEF Type
<1>6. Deserialize(s) = MQTTDeserialize_connack(s)
  BY <1>5, TypeNumbers DEF Deserialize
<1> QED BY <1>3, <1>4, <1>6, Zenon DEF MQTTDeserialize_connack, from

LEMMA PingrespRead ==
  ASSUME NEW s, NEW b, Framed(s, 208, b)
  PROVE  Deserialize(s) = [type |-> PINGRESP, id |-> 0, strings |-> << >>,
                           payload |-> << >>, retained |-> 0]
<1>2. s[1] = 208
  BY DEF Framed
<1>3. Type(s) = 13
  BY <1>2, SMT DEF Type
<1>4. Deserialize(s) = [Failure EXCEPT !.type = PINGRESP]
  BY <1>3, TypeNumbers DEF Deserialize
<1> QED BY <1>4 DEF Failure

(* What the client makes of a packet of the broker is the packet, for      *)
(* every text, id and length that fits its buffer                          *)
(* (MQTTDeserializePublish.c, MQTTSubscribeClient.c,                       *)
(* MQTTUnsubscribeClient.c, MQTTConnectClient.c, MQTTPacket.c:50-81).      *)
THEOREM DeserializedAsSent ==
  ASSUME NEW p, Answerable(p)
  PROVE  Deserialize(Standard(p)) = p
<1> DEFINE fields == [type |-> p.type, id |-> p.id, strings |-> p.strings,
                      payload |-> p.payload, retained |-> p.retained]
<1>a. p = fields
  BY DEF Answerable
<1> HIDE DEF fields
<1>0. /\ p.type \in {CONNACK, PUBLISH, SUBACK, UNSUBACK, PINGRESP}
      /\ p.id \in Nat /\ p.id < 65536 /\ p.payload \in Seq(Byte)
      /\ p.type \in {CONNACK, PUBLISH, PINGRESP} => p.id = 0
      /\ p.type = PUBLISH => p.strings = <<p.strings[1]>>
      /\ p.type = PUBLISH => p.strings[1] \in Seq(Byte) /\ Len(p.strings[1]) < 65536
      /\ p.type # PUBLISH => p.strings = << >> /\ p.retained = 0
      /\ p.type \in {CONNACK, SUBACK} => Len(p.payload) = 1
      /\ p.type \in {UNSUBACK, PINGRESP} => p.payload = << >>
  BY TypeNumbers DEF Answerable, Text
<1>1. p.retained \in 0 .. 1
  BY DEF Answerable
<1>2. Framed(Standard(p), FirstByte(p), AnswerBody(p))
  BY AnswerFrame, FramedBytes
<1>3. CASE p.type = PUBLISH
  <2> DEFINE t == p.strings[1]
  <2>1. FirstByte(p) = 48 + p.retained /\ AnswerBody(p) = String(t) \o p.payload
    <3>1. FirstByte(p) = 48 + p.retained
      BY <1>3, TypeNumbers, SMT DEF FirstByte
    <3> DEFINE u == String(p.strings[1])
    <3>2. AnswerBody(p) = u \o p.payload
      <4>1. p.type # CONNACK /\ p.type # SUBACK /\ p.type # UNSUBACK /\ p.type # PINGRESP
        BY <1>3, TypeNumbers
      <4>2. AnswerBody(p) =
              CASE p.type = CONNACK -> <<0>> \o p.payload
                [] p.type = PUBLISH -> u \o p.payload
                [] p.type = SUBACK -> Id(p) \o p.payload
                [] p.type = UNSUBACK -> Id(p)
                [] p.type = PINGRESP -> << >>
        BY DEF AnswerBody
      <4> HIDE DEF u
      <4> QED BY <1>3, <4>1, <4>2
    <3> QED BY <3>1, <3>2
  <2>2. StringOf(String(t), t) /\ t \in Seq(Byte)
    BY <1>0, <1>3, StringParts DEF StringOf, Text
  <2>3. Joined(AnswerBody(p), String(t), p.payload)
    BY <1>0, <2>1, <2>2, JoinedBytes DEF StringOf
  <2>4. Framed(Standard(p), 48 + p.retained, AnswerBody(p))
    BY <1>2, <2>1
  <2> HIDE DEF t
  <2>5. Deserialize(Standard(p)) =
          [type |-> PUBLISH, id |-> 0, strings |-> <<t>>, payload |-> p.payload,
           retained |-> p.retained]
    BY <1>0, <1>1, <2>2, <2>3, <2>4, PublishRead
  <2>6. p.strings = <<t>> /\ p.id = 0
    BY <1>0, <1>3 DEF t
  <2>7. fields = [type |-> PUBLISH, id |-> 0, strings |-> <<t>>, payload |-> p.payload,
                  retained |-> p.retained]
    BY <1>3, <2>6 DEF fields
  <2> QED BY <1>a, <2>5, <2>7
<1>4. CASE p.type \in {SUBACK, UNSUBACK}
  <2>1. FirstByte(p) = 16 * p.type
    BY <1>4, TypeNumbers, SMT DEF FirstByte
  <2>2. /\ Id(p) \in Seq(Byte) /\ Len(Id(p)) = 2 /\ readInt(Id(p), 1) = p.id
    BY <1>0, IdBytes, 1 + 1 = 2 DEF readInt
  <2>3. AnswerBody(p) = Id(p) \o p.payload
    <3>1. CASE p.type = SUBACK
      BY <3>1, TypeNumbers DEF AnswerBody
    <3>2. CASE p.type = UNSUBACK
      <4>1. AnswerBody(p) = Id(p) /\ p.payload = << >>
        BY <1>0, <3>2, TypeNumbers DEF AnswerBody
      <4> QED BY <2>2, <4>1, ConcatEmptySeq
    <3> QED BY <1>4, <3>1, <3>2
  <2>4. Joined(AnswerBody(p), Id(p), p.payload)
    BY <1>0, <2>2, <2>3, JoinedBytes
  <2>5. Framed(Standard(p), 16 * p.type, AnswerBody(p))
    BY <1>2, <2>1
  <2>6. Deserialize(Standard(p)) =
          [type |-> p.type, id |-> p.id, strings |-> << >>, payload |-> p.payload,
           retained |-> 0]
    BY <1>0, <1>4, <2>2, <2>4, <2>5, AckRead
  <2>7. p.strings = << >> /\ p.retained = 0
    BY <1>0, <1>4, TypeNumbers
  <2>8. fields = [type |-> p.type, id |-> p.id, strings |-> << >>, payload |-> p.payload,
                  retained |-> 0]
    BY <2>7 DEF fields
  <2> QED BY <1>a, <2>6, <2>8
<1>5. CASE p.type = CONNACK
  <2>1. FirstByte(p) = 32 /\ AnswerBody(p) = <<0>> \o p.payload
    <3>1. FirstByte(p) = 32
      BY <1>5, TypeNumbers, SMT DEF FirstByte
    <3>2. AnswerBody(p) = <<0>> \o p.payload
      BY <1>5, TypeNumbers DEF AnswerBody
    <3> QED BY <3>1, <3>2
  <2>2. Len(p.payload) = 1 /\ p.strings = << >> /\ p.retained = 0 /\ p.id = 0
    BY <1>0, <1>5, TypeNumbers
  <2> DEFINE c == p.payload[1]
  <2>3. c \in Byte
    BY <1>0, <2>2, ElementOfSeq, 1 \in 1 .. 1
  <2>4. p.payload = <<c>>
    <3>1. <<c>> \in Seq(Byte) /\ Len(<<c>>) = 1 /\ \A i \in 1 .. 1 : p.payload[i] = <<c>>[i]
      BY <2>3, SMT
    <3> QED BY <1>0, <2>2, <3>1, SeqEqual
  <2> HIDE DEF c
  <2>5. AnswerBody(p) = <<0, c>>
    <3>1. 0 \in Byte
      BY SMT DEF Byte
    <3>2. <<0>> \o <<c>> = <<0, c>>
      BY <2>3, <3>1, PairConcat
    <3> QED BY <2>1, <2>4, <3>2, Zenon
  <2>6. Framed(Standard(p), 32, <<0, c>>) /\ Len(<<0, c>>) = 2 /\ <<0, c>>[2] = c
    BY <1>2, <2>1, <2>5
  <2>7. Deserialize(Standard(p)) =
          [type |-> CONNACK, id |-> 0, strings |-> << >>, payload |-> <<c>>, retained |-> 0]
    BY <2>6, ConnackRead
  <2>8. fields = [type |-> CONNACK, id |-> 0, strings |-> << >>, payload |-> <<c>>,
                  retained |-> 0]
    BY <1>5, <2>2, <2>4 DEF fields
  <2> QED BY <1>a, <2>7, <2>8
<1>6. CASE p.type = PINGRESP
  <2>1. FirstByte(p) = 208
    BY <1>6, TypeNumbers, SMT DEF FirstByte
  <2>2. p.payload = << >> /\ p.strings = << >> /\ p.retained = 0 /\ p.id = 0
    BY <1>0, <1>6, TypeNumbers
  <2>3. Deserialize(Standard(p)) =
          [type |-> PINGRESP, id |-> 0, strings |-> << >>, payload |-> << >>, retained |-> 0]
    BY <1>2, <2>1, PingrespRead
  <2>4. fields = [type |-> PINGRESP, id |-> 0, strings |-> << >>, payload |-> << >>,
                  retained |-> 0]
    BY <1>6, <2>2 DEF fields
  <2> QED BY <1>a, <2>3, <2>4
<1> QED BY <1>0, <1>3, <1>4, <1>5, <1>6

-----------------------------------------------------------------------------
(* A stream holds the packets of a queue from the (k+1)-th on, without the *)
(* first c bytes of that one: packet i lies behind the byte cut[i].        *)
Piece(from, to, s, x) ==
  /\ to = from + Len(x) /\ to <= Len(s)
  /\ \A j \in 1 .. Len(x) : from + j >= 1 => s[from + j] = x[j]

Cuts(cut, s, q, k, c) ==
  /\ s \in Seq(Byte) /\ k \in 0 .. Len(q) /\ c \in Nat
  /\ cut \in [Nat -> Int]
  /\ cut[k + 1] + c = 0 /\ cut[Len(q) + 1] = Len(s)
  /\ \A i \in k + 1 .. Len(q) : Piece(cut[i], cut[i + 1], s, Standard(q[i]))

Stream(s, q, k, c) == \E cut : Cuts(cut, s, q, k, c)

LEMMA PieceStays ==
  ASSUME NEW from \in Int, NEW to \in Int, NEW s \in Seq(Byte), NEW x \in Seq(Byte),
         Piece(from, to, s, x), NEW y \in Seq(Byte)
  PROVE  Piece(from, to, s \o y, x)
<1> DEFINE r == s \o y
<1>1. Len(s) \in Nat /\ Len(x) \in Nat /\ Len(y) \in Nat
  BY LenProperties
<1>2. Len(r) = Len(s) + Len(y) /\ \A i \in 1 .. Len(s) : r[i] = s[i]
  BY ConcatParts
<1>3. /\ to = from + Len(x) /\ to <= Len(s)
      /\ \A j \in 1 .. Len(x) : from + j >= 1 => s[from + j] = x[j]
  BY DEF Piece
<1> HIDE DEF r
<1>4. ASSUME NEW j \in 1 .. Len(x), from + j >= 1 PROVE r[from + j] = x[j]
  <2>1. from + j \in 1 .. Len(s)
    BY <1>1, <1>3, <1>4, SMT
  <2> QED BY <1>2, <1>3, <1>4, <2>1
<1>5. to <= Len(r)
  BY <1>1, <1>2, <1>3, SMT
<1>6. Piece(from, to, r, x)
  BY <1>3, <1>4, <1>5 DEF Piece
<1> QED BY <1>6 DEF r

LEMMA PieceAdded ==
  ASSUME NEW s \in Seq(Byte), NEW x \in Seq(Byte)
  PROVE  Piece(Len(s), Len(s) + Len(x), s \o x, x)
<1>1. Len(s) \in Nat /\ Len(x) \in Nat
  BY LenProperties
<1>2. Len(s \o x) = Len(s) + Len(x) /\ \A i \in 1 .. Len(x) : (s \o x)[Len(s) + i] = x[i]
  BY ConcatParts
<1>3. Len(s) + Len(x) <= Len(s) + Len(x)
  BY <1>1, SMT
<1> QED BY <1>2, <1>3 DEF Piece

(* A stream without its first bytes.                                       *)
LEMMA Dropped ==
  ASSUME NEW s \in Seq(Byte), NEW d \in 0 .. Len(s)
  PROVE  /\ SubSeq(s, d + 1, Len(s)) \in Seq(Byte)
         /\ Len(SubSeq(s, d + 1, Len(s))) = Len(s) - d
         /\ \A i \in 1 .. Len(s) - d : SubSeq(s, d + 1, Len(s))[i] = s[i + d]
<1> DEFINE n == Len(s)
           r == SubSeq(s, d + 1, n)
<1>1. n \in Nat
  BY LenProperties
<1>2. d + 1 \in 1 .. n + 1 /\ n \in (d + 1) - 1 .. n /\ n - (d + 1) + 1 = n - d
  BY <1>1, SMT
<1>3. /\ r \in Seq(Byte) /\ Len(r) = n - d
      /\ \A i \in 1 .. n - d : r[i] = s[(d + 1) + i - 1]
  <2> DEFINE m == d + 1
  <2>1. m \in 1 .. n + 1 /\ n \in m - 1 .. n /\ n - m + 1 = n - d
    BY <1>2
  <2> HIDE DEF m
  <2>2. /\ SubSeq(s, m, n) \in Seq(Byte) /\ Len(SubSeq(s, m, n)) = n - d
        /\ \A i \in 1 .. n - d : SubSeq(s, m, n)[i] = s[m + i - 1]
    BY <2>1, SubSeqProperties, SMT
  <2> QED BY <2>2 DEF m
<1>4. \A i \in 1 .. n - d : (d + 1) + i - 1 = i + d
  BY <1>1, SMT
<1> QED BY <1>3, <1>4

LEMMA TailDropped ==
  ASSUME NEW s \in Seq(Byte), s # << >>
  PROVE  /\ Tail(s) = SubSeq(s, 1 + 1, Len(s)) /\ Head(s) = s[1]
         /\ 1 \in 0 .. Len(s)
<1>1. Len(s) \in Nat \ {0}
  BY EmptySeq
<1>2. 1 \in 0 .. Len(s)
  BY <1>1, SMT
<1>3. Tail(s) = SubSeq(s, 2, Len(s)) /\ 1 + 1 = 2
  BY TailIsSubSeq
<1>4. Head(s) = s[1]
  OBVIOUS
<1> QED BY <1>2, <1>3, <1>4

LEMMA PieceDropped ==
  ASSUME NEW from \in Int, NEW to \in Int, NEW s \in Seq(Byte), NEW x \in Seq(Byte),
         Piece(from, to, s, x), NEW d \in 0 .. Len(s),
         NEW r, r = SubSeq(s, d + 1, Len(s))
  PROVE  Piece(from - d, to - d, r, x)
<1>1. Len(s) \in Nat /\ Len(x) \in Nat
  BY LenProperties
<1>2. /\ Len(r) = Len(s) - d
      /\ \A i \in 1 .. Len(s) - d : r[i] = s[i + d]
  BY Dropped
<1>3. /\ to = from + Len(x) /\ to <= Len(s)
      /\ \A j \in 1 .. Len(x) : from + j >= 1 => s[from + j] = x[j]
  BY DEF Piece
<1>4. ASSUME NEW j \in 1 .. Len(x), (from - d) + j >= 1 PROVE r[(from - d) + j] = x[j]
  <2>1. (from - d) + j \in 1 .. Len(s) - d /\ ((from - d) + j) + d = from + j /\ from + j >= 1
    BY <1>1, <1>3, <1>4, SMT
  <2> QED BY <1>2, <1>3, <1>4, <2>1
<1>5. to - d = (from - d) + Len(x) /\ to - d <= Len(r)
  BY <1>1, <1>2, <1>3, SMT
<1> QED BY <1>4, <1>5 DEF Piece

(* What is in the queue are packets.                                       *)
Packet(x) == x \in Seq(Byte) /\ Len(x) \in Nat \ {0}
Packets(q) == Len(q) \in Nat /\ \A i \in 1 .. Len(q) : Packet(Standard(q[i]))

LEMMA StreamInit == Stream(<< >>, << >>, 0, 0)
<1> DEFINE cut == [i \in Nat |-> 0]
<1>1. cut \in [Nat -> Int] /\ cut[1] = 0
  BY SMT
<1>2. << >> \in Seq(Byte) /\ Len(<< >>) = 0
  BY EmptySeq
<1>3. 0 \in 0 .. 0 /\ 0 \in Nat /\ 0 + 0 = 0 /\ 0 + 1 = 1 /\ 1 .. 0 = {}
  BY SMT
<1> HIDE DEF cut
<1>4. Cuts(cut, << >>, << >>, 0, 0)
  BY <1>1, <1>2, <1>3 DEF Cuts
<1> QED BY <1>4 DEF Stream

LEMMA StreamTake ==
  ASSUME NEW s, NEW q, NEW k, NEW c, Stream(s, q, k, c), Packets(q),
         NEW d \in 0 .. Len(s), NEW r, r = SubSeq(s, d + 1, Len(s))
  PROVE  Stream(r, q, k, c + d)
<1>1. PICK cut : Cuts(cut, s, q, k, c)
  BY DEF Stream
<1>2. /\ s \in Seq(Byte) /\ k \in 0 .. Len(q) /\ c \in Nat
      /\ cut \in [Nat -> Int]
      /\ cut[k + 1] + c = 0 /\ cut[Len(q) + 1] = Len(s)
      /\ \A i \in k + 1 .. Len(q) : Piece(cut[i], cut[i + 1], s, Standard(q[i]))
  BY <1>1 DEF Cuts
<1>3. Len(s) \in Nat /\ Len(q) \in Nat /\ c + d \in Nat /\ d \in Nat
  BY <1>2, LenProperties, SMT DEF Packets
<1>4. r \in Seq(Byte) /\ Len(r) = Len(s) - d
  BY <1>2, Dropped
<1> DEFINE new == [i \in Nat |-> cut[i] - d]
<1>5. new \in [Nat -> Int] /\ \A i \in Nat : new[i] = cut[i] - d
  BY <1>2, <1>3, SMT
<1> HIDE DEF new
<1>6. new[k + 1] + (c + d) = 0 /\ new[Len(q) + 1] = Len(r)
  <2>1. k + 1 \in Nat /\ Len(q) + 1 \in Nat
    BY <1>2, <1>3, SMT
  <2>2. new[k + 1] = cut[k + 1] - d /\ new[Len(q) + 1] = cut[Len(q) + 1] - d
        /\ cut[k + 1] \in Int
    BY <1>2, <1>5, <2>1
  <2>3. (cut[k + 1] - d) + (c + d) = cut[k + 1] + c
    BY <1>2, <1>3, <2>2, SMT
  <2> QED BY <1>2, <1>4, <2>2, <2>3
<1>7. ASSUME NEW i \in k + 1 .. Len(q) PROVE Piece(new[i], new[i + 1], r, Standard(q[i]))
  <2>1. i \in Nat /\ i + 1 \in Nat /\ i \in 1 .. Len(q)
    BY <1>2, <1>3, SMT
  <2>2. cut[i] \in Int /\ cut[i + 1] \in Int /\ Standard(q[i]) \in Seq(Byte)
    BY <1>2, <2>1 DEF Packets, Packet
  <2>3. Piece(cut[i], cut[i + 1], s, Standard(q[i]))
    BY <1>2, <1>7
  <2>4. Piece(cut[i] - d, cut[i + 1] - d, r, Standard(q[i]))
    BY <1>2, <2>2, <2>3, PieceDropped
  <2> QED BY <1>5, <2>1, <2>4
<1>8. Cuts(new, r, q, k, c + d)
  BY <1>2, <1>3, <1>4, <1>5, <1>6, <1>7 DEF Cuts
<1> QED BY <1>8 DEF Stream

(* Behind the last byte of a packet the next one begins.                   *)
LEMMA StreamNext ==
  ASSUME NEW s, NEW q, NEW k, NEW c, Stream(s, q, k, c), Packets(q),
         k < Len(q), c = Len(Standard(q[k + 1]))
  PROVE  Stream(s, q, k + 1, 0)
<1>1. PICK cut : Cuts(cut, s, q, k, c)
  BY DEF Stream
<1>2. /\ s \in Seq(Byte) /\ k \in 0 .. Len(q) /\ c \in Nat
      /\ cut \in [Nat -> Int]
      /\ cut[k + 1] + c = 0 /\ cut[Len(q) + 1] = Len(s)
      /\ \A i \in k + 1 .. Len(q) : Piece(cut[i], cut[i + 1], s, Standard(q[i]))
  BY <1>1 DEF Cuts
<1>3. Len(q) \in Nat
  BY DEF Packets
<1>4. k + 1 \in k + 1 .. Len(q) /\ k + 1 \in 0 .. Len(q) /\ 0 \in Nat /\ (k + 1) + 1 \in Nat
      /\ \A i \in (k + 1) + 1 .. Len(q) : i \in k + 1 .. Len(q)
  BY <1>2, <1>3, SMT
<1>5. cut[(k + 1) + 1] = cut[k + 1] + c
  BY <1>2, <1>4 DEF Piece
<1>6. 0 + 0 = 0
  BY SMT
<1>7. cut[(k + 1) + 1] + 0 = 0
  BY <1>2, <1>5, <1>6
<1>8. Cuts(cut, s, q, k + 1, 0)
  BY <1>2, <1>4, <1>7 DEF Cuts
<1> QED BY <1>8 DEF Stream

(* What a stream begins with.                                              *)
LEMMA StreamHead ==
  ASSUME NEW s, NEW q, NEW k, NEW c, Stream(s, q, k, c), Packets(q), s # << >>
  PROVE  k < Len(q)
<1>1. PICK cut : Cuts(cut, s, q, k, c)
  BY DEF Stream
<1>2. /\ s \in Seq(Byte) /\ k \in 0 .. Len(q) /\ c \in Nat
      /\ cut[k + 1] + c = 0 /\ cut[Len(q) + 1] = Len(s)
  BY <1>1 DEF Cuts
<1>3. Len(s) \in Nat \ {0} /\ Len(q) \in Nat
  BY <1>2, EmptySeq DEF Packets
<1>4. k # Len(q)
  <2>1. Len(s) + c # 0
    BY <1>2, <1>3, SMT
  <2> QED BY <1>2, <2>1
<1> QED BY <1>2, <1>3, <1>4, SMT

LEMMA StreamBytes ==
  ASSUME NEW s, NEW q, NEW k, NEW c, Stream(s, q, k, c), Packets(q), k < Len(q),
         NEW x, x = Standard(q[k + 1])
  PROVE  /\ s \in Seq(Byte) /\ k \in Nat /\ c \in Nat
         /\ Len(x) <= c + Len(s)
         /\ \A i \in Nat : i > c /\ i <= Len(x) => s[i - c] = x[i]
<1>1. PICK cut : Cuts(cut, s, q, k, c)
  BY DEF Stream
<1>2. /\ s \in Seq(Byte) /\ k \in 0 .. Len(q) /\ c \in Nat
      /\ cut[k + 1] + c = 0 /\ cut \in [Nat -> Int]
      /\ \A i \in k + 1 .. Len(q) : Piece(cut[i], cut[i + 1], s, Standard(q[i]))
  BY <1>1 DEF Cuts
<1>3. Len(q) \in Nat
  BY DEF Packets
<1>4. k \in Nat /\ k + 1 \in Nat /\ k + 1 \in k + 1 .. Len(q) /\ k + 1 \in 1 .. Len(q)
  BY <1>2, <1>3, SMT
<1>5. Len(x) \in Nat /\ Len(s) \in Nat
  BY <1>2, <1>4, LenProperties DEF Packets, Packet
<1>z. cut[k + 1] = -c
  <2>1. cut[k + 1] \in Int
    BY <1>2, <1>4
  <2> QED BY <1>2, <2>1, SMT
<1>6. Piece(-c, cut[(k + 1) + 1], s, x)
  BY <1>2, <1>4, <1>z
<1>7. /\ cut[(k + 1) + 1] = -c + Len(x) /\ cut[(k + 1) + 1] <= Len(s)
      /\ \A j \in 1 .. Len(x) : -c + j >= 1 => s[-c + j] = x[j]
  BY <1>6 DEF Piece
<1>8. Len(x) <= c + Len(s)
  BY <1>2, <1>5, <1>7, SMT
<1>9. ASSUME NEW i \in Nat, i > c, i <= Len(x) PROVE s[i - c] = x[i]
  <2>1. i \in 1 .. Len(x) /\ -c + i >= 1 /\ -c + i = i - c
    BY <1>2, <1>5, <1>9, SMT
  <2> QED BY <1>7, <2>1
<1> QED BY <1>2, <1>4, <1>8, <1>9

LEMMA StreamEmpty ==
  ASSUME NEW q, NEW k, Stream(<< >>, q, k, 0), Packets(q)
  PROVE  k = Len(q)
<1>1. PICK cut : Cuts(cut, << >>, q, k, 0)
  BY DEF Stream
<1>2. k \in 0 .. Len(q) /\ Len(q) \in Nat
  BY <1>1 DEF Cuts, Packets
<1>3. ASSUME k < Len(q) PROVE FALSE
  <2>1. Len(Standard(q[k + 1])) <= 0 + Len(<< >>)
    BY <1>3, StreamBytes
  <2>2. k + 1 \in 1 .. Len(q)
    BY <1>2, <1>3, SMT
  <2>3. Len(Standard(q[k + 1])) \in Nat \ {0}
    BY <2>2 DEF Packets, Packet
  <2>4. Len(<< >>) = 0
    BY EmptySeq
  <2> QED BY <2>1, <2>3, <2>4, SMT
<1> QED BY <1>2, <1>3, SMT

(* A packet is put behind the others.                                      *)
LEMMA StreamAdd ==
  ASSUME NEW S, NEW q \in Seq(S), NEW p \in S, NEW s, NEW k, NEW c, Stream(s, q, k, c),
         Packets(q), Packet(Standard(p))
  PROVE  Stream(s \o Standard(p), Append(q, p), k, c) /\ Packets(Append(q, p))
<1> DEFINE x == Standard(p)
           t == s \o x
           a == Append(q, p)
           n == Len(q)
<1>1. PICK cut : Cuts(cut, s, q, k, c)
  BY DEF Stream
<1>2. /\ s \in Seq(Byte) /\ k \in 0 .. n /\ c \in Nat
      /\ cut \in [Nat -> Int]
      /\ cut[k + 1] + c = 0 /\ cut[n + 1] = Len(s)
      /\ \A i \in k + 1 .. n : Piece(cut[i], cut[i + 1], s, Standard(q[i]))
  BY <1>1 DEF Cuts
<1>3. /\ n \in Nat /\ Len(s) \in Nat /\ x \in Seq(Byte) /\ Len(x) \in Nat
  BY <1>2, LenProperties DEF Packet
<1>4. Len(a) = n + 1 /\ a[n + 1] = p /\ \A i \in 1 .. n : a[i] = q[i]
  BY AppendProperties
<1>5. t \in Seq(Byte) /\ Len(t) = Len(s) + Len(x)
  BY <1>2, <1>3, ConcatParts
<1>6. Piece(Len(s), Len(s) + Len(x), t, x)
  BY <1>2, <1>3, PieceAdded
<1>7. ASSUME NEW i \in k + 1 .. n PROVE Piece(cut[i], cut[i + 1], t, Standard(q[i]))
  <2>1. i \in Nat /\ i + 1 \in Nat /\ i \in 1 .. n
    BY <1>2, <1>3, SMT
  <2>2. cut[i] \in Int /\ cut[i + 1] \in Int /\ Standard(q[i]) \in Seq(Byte)
    BY <1>2, <2>1 DEF Packets, Packet
  <2> QED BY <1>2, <1>3, <1>7, <2>2, PieceStays
<1>8. Packets(a)
  <2>1. ASSUME NEW i \in 1 .. n + 1 PROVE Packet(Standard(a[i]))
    <3>1. i = n + 1 \/ i \in 1 .. n
      BY <1>3, SMT
    <3> HIDE DEF a
    <3>2. Packet(Standard(p)) /\ \A h \in 1 .. n : Packet(Standard(q[h]))
      BY DEF Packets
    <3> QED BY <1>4, <3>1, <3>2
  <2>2. n + 1 \in Nat
    BY <1>3, SMT
  <2> HIDE DEF a
  <2> QED BY <1>4, <2>1, <2>2 DEF Packets
<1> DEFINE new == [cut EXCEPT ![n + 2] = Len(t)]
<1>9. /\ new \in [Nat -> Int] /\ new[n + 2] = Len(t)
      /\ \A i \in 1 .. n + 1 : new[i] = cut[i]
  <2>1. n + 2 \in Nat /\ Len(t) \in Int /\ \A i \in 1 .. n + 1 : i \in Nat /\ i # n + 2
    BY <1>3, <1>5, SMT
  <2> HIDE DEF t, n
  <2> QED BY <1>2, <2>1
<1> HIDE DEF new, t, a, x
<1>10. /\ k \in 0 .. Len(a) /\ new[k + 1] + c = 0 /\ new[Len(a) + 1] = Len(t)
  <2>1. k + 1 \in 1 .. n + 1 /\ k \in 0 .. n + 1 /\ (n + 1) + 1 = n + 2
    BY <1>2, <1>3, SMT
  <2> QED BY <1>2, <1>4, <1>9, <2>1
<1>11. ASSUME NEW i \in k + 1 .. Len(a) PROVE Piece(new[i], new[i + 1], t, Standard(a[i]))
  <2>1. CASE i = n + 1
    <3>1. n + 1 \in 1 .. n + 1 /\ (n + 1) + 1 = n + 2
      BY <1>3, SMT
    <3>2. new[i] = Len(s) /\ new[i + 1] = Len(s) + Len(x) /\ Standard(a[i]) = x
      BY <1>2, <1>4, <1>5, <1>9, <2>1, <3>1 DEF x
    <3> QED BY <1>6, <3>2
  <2>2. CASE i # n + 1
    <3>0. i \in k + 1 .. n + 1 /\ k \in 0 .. n
      BY <1>2, <1>4
    <3>1. i \in k + 1 .. n /\ i \in 1 .. n /\ i \in 1 .. n + 1 /\ i + 1 \in 1 .. n + 1
      BY <1>3, <2>2, <3>0, SMT
    <3>2. new[i] = cut[i] /\ new[i + 1] = cut[i + 1] /\ a[i] = q[i]
      BY <1>4, <1>9, <3>1
    <3> QED BY <1>7, <3>1, <3>2
  <2> QED BY <2>1, <2>2
<1>12. Cuts(new, t, a, k, c)
  BY <1>2, <1>5, <1>9, <1>10, <1>11 DEF Cuts
<1>13. Stream(t, a, k, c)
  BY <1>12 DEF Stream
<1> QED BY <1>8, <1>13 DEF t, a, x

-----------------------------------------------------------------------------
(* Understood.  What is on its way to the broker is the stream of the      *)
(* requests that it has not read yet.                                      *)
LEMMA FramePacket ==
  ASSUME NEW f \in Byte, NEW b \in Seq(Byte), Len(b) <= MaxLength
  PROVE  Packet(Frame(f, b))
<1> DEFINE n == Len(b)
<1>1. n \in Nat
  BY LenProperties
<1>2. /\ Frame(f, b) \in Seq(Byte) /\ EncodedBytes(n) \in 1 .. 4
      /\ Len(Frame(f, b)) = 1 + EncodedBytes(n) + n
  BY <1>1, FrameShape
<1>3. Len(Frame(f, b)) \in Nat \ {0}
  BY <1>1, <1>2, SMT
<1> QED BY <1>2, <1>3 DEF Packet

LEMMA AskedFrame ==
  ASSUME NEW p \in Request, ~TooShort(p, BufSize)
  PROVE  /\ Serialize(p) = Standard(p) /\ Packet(Standard(p))
         /\ Len(Serialize(p)) <= BufSize
         /\ \E f \in Byte : \E b \in Seq(Byte) :
              Len(b) <= MaxLength /\ Standard(p) = Frame(f, b)
<1> DEFINE n == RemainingLength(p)
           f == MQTTHeader(p.type, Qos(p), p.retained)
           b == Fields(p)
<1>1. Askable(p) /\ Representable(p)
  BY RequestAssumption
<1>2. n \in Nat /\ b \in Seq(Byte) /\ Len(b) = n
  BY <1>1, SerializedInParts DEF Run
<1>3. n <= MaxLength
  BY <1>2, SizeFits, SizeAssumption
<1>4. Serialize(p) = Standard(p)
  BY <1>1, <1>3, SerializedAsStandard
<1>5. f \in Byte /\ Standard(p) = Frame(f, b)
  BY <1>1, StandardRequest
<1> HIDE DEF f, b, n
<1>6. Packet(Standard(p))
  BY <1>2, <1>3, <1>5, FramePacket
<1>7. Len(Serialize(p)) <= BufSize
  BY <1>1, SerializerStaysInBuffer, SizeAssumption
<1> QED BY <1>2, <1>3, <1>4, <1>5, <1>6, <1>7

(* A request that is refused leaves no byte of the buffer to spare.        *)
LEMMA RefusedLarge ==
  ASSUME NEW p \in Request, TooShort(p, BufSize)
  PROVE  Size(p) >= BufSize
<1> DEFINE n == RemainingLength(p)
           l == Len(LengthBytes(n))
<1>1. n \in Nat
  BY RequestAssumption, SerializedInParts
<1>2. MQTTPacket_len(n) > BufSize
  BY Zenon DEF TooShort
<1>3. Size(p) = 1 + l + n
  BY Zenon DEF Size
<1> HIDE DEF n
<1>4. CASE n <= MaxLength
  <2>1. LengthBytes(n) = MQTTPacket_encode(n)
    BY <1>1, <1>4, EncodedAsStandard
  <2>2. l = EncodedBytes(n) /\ EncodedBytes(n) \in 1 .. 4
    BY <1>1, <1>4, <2>1, EncodeShape
  <2>3. MQTTPacket_len(n) \in {1 + EncodedBytes(n) + n, 2 + EncodedBytes(n) + n}
    BY <1>1, <1>4, LengthSuffices
  <2> HIDE DEF l
  <2> QED BY <1>1, <1>2, <1>3, <2>2, <2>3, SizeAssumption, SMT
<1>5. CASE ~(n <= MaxLength)
  <2>1. LengthBytes(n) = <<128 + (n % 128), 128 + ((n \div 128) % 128),
                           128 + ((n \div 16384) % 128), n \div 2097152>>
    BY <1>1, <1>5, SMT DEF LengthBytes, MaxLength
  <2>2. l = 4
    BY <2>1
  <2> HIDE DEF l
  <2> QED BY <1>1, <1>3, <1>5, <2>2, SizeAssumption, SMT DEF MaxLength
<1> QED BY <1>4, <1>5

UpInv ==
  /\ asked \in Seq(Request)
  /\ \A i \in 1 .. Len(asked) : ~TooShort(asked[i], BufSize)
  /\ understood \in Seq(Seq(Byte))
  /\ \A i \in 1 .. Len(understood) : understood[i] = Standard(asked[i])
  /\ Stream(up, asked, Len(understood), 0)
  /\ \A p \in refused : p \in Request /\ Size(p) >= BufSize

LEMMA StreamType ==
  ASSUME NEW s, NEW q, NEW k, NEW c, Stream(s, q, k, c)
  PROVE  s \in Seq(Byte) /\ k \in 0 .. Len(q) /\ c \in Nat
BY DEF Stream, Cuts

LEMMA AskedPackets == UpInv => Packets(asked)
<1> SUFFICES ASSUME UpInv PROVE Packets(asked)
  OBVIOUS
<1>1. asked \in Seq(Request) /\ Len(asked) \in Nat
  BY LenProperties DEF UpInv
<1>2. ASSUME NEW i \in 1 .. Len(asked) PROVE Packet(Standard(asked[i]))
  <2>1. asked[i] \in Request
    BY <1>1, ElementOfSeq
  <2>2. ~TooShort(asked[i], BufSize)
    BY DEF UpInv
  <2> QED BY <2>1, <2>2, AskedFrame
<1> QED BY <1>1, <1>2 DEF Packets

LEMMA UpInit == Init => UpInv
<1> SUFFICES ASSUME Init PROVE UpInv
  OBVIOUS
<1>1. asked = << >> /\ refused = {} /\ up = << >> /\ understood = << >>
  BY DEF Init
<1>2. Stream(up, asked, Len(understood), 0)
  BY <1>1, StreamInit, EmptySeq
<1>3. asked \in Seq(Request) /\ understood \in Seq(Seq(Byte)) /\ Len(asked) = 0 /\ Len(understood) = 0
  BY <1>1, EmptySeq
<1>4. 1 .. 0 = {}
  BY SMT
<1> QED BY <1>1, <1>2, <1>3, <1>4 DEF UpInv

LEMMA UpSend ==
  ASSUME UpInv, NEW p \in Request, Post(p)
  PROVE  UpInv'
<1>1. CASE TooShort(p, BufSize)
  <2>1. /\ refused' = refused \cup {p} /\ asked' = asked /\ up' = up
        /\ understood' = understood
    BY <1>1 DEF Post
  <2>2. Size(p) >= BufSize
    BY <1>1, RefusedLarge
  <2> QED BY <2>1, <2>2 DEF UpInv
<1>2. CASE ~TooShort(p, BufSize)
  <2>1. /\ refused' = refused /\ asked' = Append(asked, p) /\ up' = up \o Serialize(p)
        /\ understood' = understood
    BY <1>2 DEF Post
  <2>2. Serialize(p) = Standard(p) /\ Packet(Standard(p))
    BY <1>2, AskedFrame
  <2>3. asked \in Seq(Request) /\ Len(asked) \in Nat /\ Stream(up, asked, Len(understood), 0)
    BY LenProperties DEF UpInv
  <2>4. Stream(up', asked', Len(understood), 0)
    BY <2>1, <2>2, <2>3, AskedPackets, StreamAdd
  <2>5. /\ asked' \in Seq(Request) /\ Len(asked') = Len(asked) + 1
        /\ asked'[Len(asked) + 1] = p
        /\ \A i \in 1 .. Len(asked) : asked'[i] = asked[i]
    BY <2>1, <2>3, AppendProperties
  <2>6. ASSUME NEW i \in 1 .. Len(asked') PROVE ~TooShort(asked'[i], BufSize)
    <3>1. i = Len(asked) + 1 \/ i \in 1 .. Len(asked)
      BY <2>3, <2>5, SMT
    <3>2. \A j \in 1 .. Len(asked) : ~TooShort(asked[j], BufSize)
      BY DEF UpInv
    <3> QED BY <1>2, <2>5, <3>1, <3>2
  <2>7. ASSUME NEW i \in 1 .. Len(understood') PROVE understood'[i] = Standard(asked'[i])
    <3>1. Len(understood) \in 0 .. Len(asked)
      BY <2>3, StreamType
    <3>2. i \in 1 .. Len(understood) /\ i \in 1 .. Len(asked)
      BY <2>1, <2>3, <2>7, <3>1, SMT
    <3> QED BY <2>1, <2>5, <3>2 DEF UpInv
  <2>8. /\ \A r \in refused : r \in Request /\ Size(r) >= BufSize
        /\ understood \in Seq(Seq(Byte))
    BY DEF UpInv
  <2> QED BY <2>1, <2>4, <2>5, <2>6, <2>7, <2>8 DEF UpInv
<1> QED BY <1>1, <1>2

(* The broker takes the first packet of the stream, and all of it.         *)
LEMMA UpReads ==
  ASSUME UpInv, BrokerReads
  PROVE  UpInv'
<1> DEFINE k == Len(understood)
           x == Standard(asked[k + 1])
           packet == Frame(up[1], Body(up))
<1>1. /\ up # << >> /\ asked' = asked /\ refused' = refused
      /\ understood' = Append(understood, packet)
      /\ up' = SubSeq(up, Len(packet) + 1, Len(up))
  BY DEF BrokerReads
<1>2. /\ Stream(up, asked, k, 0) /\ Packets(asked) /\ asked \in Seq(Request)
      /\ understood \in Seq(Seq(Byte))
      /\ \A i \in 1 .. k : understood[i] = Standard(asked[i])
  BY AskedPackets DEF UpInv
<1>3. k \in Nat /\ Len(asked) \in Nat
  BY <1>2, LenProperties
<1>4. k < Len(asked)
  BY <1>1, <1>2, StreamHead
<1> HIDE DEF k
<1>5. k + 1 \in 1 .. Len(asked)
  BY <1>3, <1>4, SMT
<1>6. asked[k + 1] \in Request /\ ~TooShort(asked[k + 1], BufSize)
  BY <1>2, <1>5, ElementOfSeq DEF UpInv
<1>7. PICK f \in Byte, b \in Seq(Byte) : Len(b) <= MaxLength /\ x = Frame(f, b)
  BY <1>6, AskedFrame
<1>8. x \in Seq(Byte) /\ Len(x) \in Nat \ {0}
  BY <1>2, <1>5 DEF Packets, Packet
<1> HIDE DEF x, packet
<1>9. /\ up \in Seq(Byte) /\ Len(x) <= 0 + Len(up)
      /\ \A i \in Nat : i > 0 /\ i <= Len(x) => up[i - 0] = x[i]
  BY <1>2, <1>4, StreamBytes DEF x
<1>10. Len(up) \in Nat
  BY <1>9, LenProperties
<1>11. Len(x) <= Len(up) /\ Len(x) \in 0 .. Len(up) /\ 0 + Len(x) = Len(x)
  BY <1>8, <1>9, <1>10, SMT
<1>12. ASSUME NEW i \in 1 .. Len(x) PROVE up[i] = x[i]
  <2>1. i \in Nat /\ i > 0 /\ i <= Len(x) /\ i - 0 = i
    BY <1>8, SMT
  <2> QED BY <1>9, <2>1
<1>13. packet = x
  BY <1>7, <1>9, <1>11, <1>12, BrokerTakes DEF packet
<1>14. Stream(up', asked, k, Len(x))
  <2>1. Stream(up', asked, k, 0 + Len(x))
    BY <1>1, <1>2, <1>11, <1>13, StreamTake
  <2> QED BY <1>11, <2>1
<1>15. Stream(up', asked, k + 1, 0)
  BY <1>2, <1>4, <1>14, StreamNext DEF x
<1>16. /\ understood' \in Seq(Seq(Byte)) /\ Len(understood') = k + 1
       /\ understood'[k + 1] = x
       /\ \A i \in 1 .. k : understood'[i] = understood[i]
  BY <1>1, <1>2, <1>8, <1>13, AppendProperties DEF k
<1>17. ASSUME NEW i \in 1 .. Len(understood') PROVE understood'[i] = Standard(asked'[i])
  <2>1. i = k + 1 \/ i \in 1 .. k
    BY <1>3, <1>16, SMT
  <2>2. CASE i = k + 1
    BY <1>1, <1>16, <2>2 DEF x
  <2>3. CASE i \in 1 .. k
    BY <1>1, <1>2, <1>16, <2>3
  <2> QED BY <2>1, <2>2, <2>3
<1>18. /\ \A i \in 1 .. Len(asked) : ~TooShort(asked[i], BufSize)
       /\ \A p \in refused : p \in Request /\ Size(p) >= BufSize
  BY DEF UpInv
<1> QED BY <1>1, <1>2, <1>15, <1>16, <1>17, <1>18 DEF UpInv

LEMMA UpNext == UpInv /\ [Next]_vars => UpInv'
<1> SUFFICES ASSUME UpInv, [Next]_vars PROVE UpInv'
  OBVIOUS
<1>1. ASSUME UNCHANGED upward PROVE UpInv'
  BY <1>1 DEF UpInv, upward
<1>2. ASSUME NEW p \in Request, Send(p) \/ Ping(p) PROVE UpInv'
  BY <1>2, UpSend DEF Send, Ping
<1>3. CASE BrokerReads
  BY <1>3, UpReads
<1>4. ASSUME Next, ~BrokerReads, \A p \in Request : ~Send(p) /\ ~Ping(p)
      PROVE  UNCHANGED upward
  BY <1>4 DEF Next, BrokerSends, MQTTYield, MQTTYieldEnds, Cycle, readPacket,
              readPacketNothing, readPacketHeader, decodePacket, readPacketRest, ComesShort,
              Deliver, NoPing, DISCONNECTED
<1>5. UNCHANGED vars => UNCHANGED upward
  BY DEF vars
<1> QED BY <1>1, <1>2, <1>3, <1>4, <1>5

LEMMA UpMeans == UpInv => Understood
<1> SUFFICES ASSUME UpInv PROVE Understood
  OBVIOUS
<1>1. /\ Stream(up, asked, Len(understood), 0) /\ Packets(asked) /\ asked \in Seq(Request)
      /\ understood \in Seq(Seq(Byte))
      /\ \A i \in 1 .. Len(understood) : understood[i] = Standard(asked[i])
      /\ \A i \in 1 .. Len(asked) : ~TooShort(asked[i], BufSize)
      /\ \A p \in refused : p \in Request /\ Size(p) >= BufSize
  BY AskedPackets DEF UpInv
<1>2. Len(understood) \in 0 .. Len(asked) /\ Len(asked) \in Nat
  BY <1>1, StreamType, LenProperties
<1>3. DOMAIN understood = 1 .. Len(understood) /\ DOMAIN asked = 1 .. Len(asked)
  BY <1>1, LenProperties
<1>4. Len(understood) <= Len(asked) /\ ~(Len(asked) < Len(asked))
  BY <1>2, SMT
<1>5. Len(understood) = Len(asked) => up = << >>
  BY <1>1, <1>4, StreamHead
<1>6. Fitted
  <2>1. ASSUME NEW i \in DOMAIN asked PROVE Len(Serialize(asked[i])) <= BufSize
    <3>1. i \in 1 .. Len(asked)
      BY <1>3
    <3>2. asked[i] \in Request
      BY <1>1, <3>1, ElementOfSeq
    <3> QED BY <1>1, <3>1, <3>2, AskedFrame
  <2> QED BY <2>1 DEF Fitted
<1> QED BY <1>1, <1>3, <1>4, <1>5, <1>6 DEF Understood

(* The broker understands every request as the client meant it and in      *)
(* order, from whatever it has read of the stream; the client writes a     *)
(* request only where it fits, and refuses it only when its buffer has no  *)
(* byte to spare (MQTTPacket.c:29-98, MQTTClient.c:342-535).               *)
THEOREM AlwaysUnderstood == Spec => []Understood
<1> QED BY UpInit, UpNext, UpMeans, PTL DEF Spec

(* So the client never writes beyond mqtt_buf (MQTTConnectClient.c,        *)
(* MQTTSerializePublish.c, MQTTSubscribeClient.c,                          *)
(* MQTTUnsubscribeClient.c).                                               *)
THEOREM AlwaysFitted == Spec => []Fitted
<1>1. Understood => Fitted
  BY DEF Understood
<1> QED BY <1>1, AlwaysUnderstood, PTL

-----------------------------------------------------------------------------
(* The timers.                                                             *)
LEMMA LeftAtStart ==
  ASSUME NEW start \in Tick, NEW ms \in 0 .. Half - 1
  PROVE  /\ countdown(start, ms) \in Tick
         /\ left(countdown(start, ms), start) = ms
BY HalfAssumption, SMT DEF Tick, Modulus, Plus, countdown, left

(* A timer of less than half the range has expired d ticks after its start *)
(* exactly when d is more than its timeout, wherever in the range of the   *)
(* counter it was started (MQTTESP8266.c:33-59).                           *)
THEOREM TimerExact ==
  ASSUME NEW start \in Tick, NEW ms \in 0 .. Half - 1, NEW d \in 0 .. Half
  PROVE  expired(countdown(start, ms), Plus(start, d)) <=> d > ms
BY HalfAssumption, SMT DEF Tick, Modulus, Plus, countdown, left, expired

-----------------------------------------------------------------------------
(* YieldOnTime.  While MQTTYield runs, what its timer has left and what it *)
(* has lasted add up to its time; a length may stretch it, by the timeout  *)
(* that decodePacket got for each of its bytes.                            *)
Running == pc \in {"loop", "header", "length", "rest", "read", "keepalive"}

TimeInv ==
  /\ now \in Tick /\ end_time \in Tick /\ elapsed \in Nat
  /\ timeout \in Nat /\ timeout <= YieldTime
  /\ digits \in 0 .. 4
  /\ Running => left(end_time, now) = YieldTime - elapsed
  /\ pc = "header" => elapsed <= YieldTime
  /\ pc = "length" => digits <= 3 /\ elapsed <= (YieldTime - timeout) + digits * timeout
  /\ pc \in {"rest", "read"} => elapsed <= Stretch
  /\ pc = "keepalive" => elapsed <= Stretch + 1
  /\ pc \in {"loop", "idle", "closed"} => elapsed <= Stretch + 1 + PingTime + 1
  /\ pc = "idle" => elapsed > YieldTime

LEMMA Times ==
  ASSUME NEW d \in 0 .. 4, NEW t \in Nat, NEW y \in Nat, t <= y
  PROVE  /\ d * t \in Nat /\ d * y \in Nat /\ (d + 1) * t = d * t + t
         /\ d >= 1 => (y - t) + d * t <= d * y
         /\ d * y <= 4 * y /\ (d >= 1 => y <= d * y)
<1>1. d = 0 \/ d = 1 \/ d = 2 \/ d = 3 \/ d = 4
  BY SMT
<1>2. CASE d = 0
  BY <1>2, SMT
<1>3. CASE d = 1
  BY <1>3, SMT
<1>4. CASE d = 2
  BY <1>4, SMT
<1>5. CASE d = 3
  BY <1>5, SMT
<1>6. CASE d = 4
  BY <1>6, SMT
<1> QED BY <1>1, <1>2, <1>3, <1>4, <1>5, <1>6

LEMMA StretchType ==
  ASSUME digits \in 0 .. 4
  PROVE  /\ Stretch \in Nat /\ YieldTime <= Stretch /\ Stretch <= 4 * YieldTime
         /\ digits >= 1 => Stretch = digits * YieldTime
<1>1. YieldTime \in Nat /\ 1 \in 0 .. 4
  BY YieldAssumption
<1>2. /\ digits * YieldTime \in Nat /\ digits * YieldTime <= 4 * YieldTime
      /\ digits >= 1 => YieldTime <= digits * YieldTime
  BY <1>1, Times
<1>3. Stretch = IF digits > 1 THEN digits * YieldTime ELSE YieldTime
  BY <1>1, SMT DEF Stretch
<1>4. digits = 1 => digits * YieldTime = YieldTime
  BY <1>1, SMT
<1> QED BY <1>1, <1>2, <1>3, <1>4, SMT

LEMMA TimeInit == Init => TimeInv
<1> SUFFICES ASSUME Init PROVE TimeInv
  OBVIOUS
<1>1. /\ now \in Tick /\ end_time = 0 /\ timeout = 0 /\ elapsed = YieldTime + 1
      /\ digits = 0 /\ pc = "idle"
  BY DEF Init
<1>2. 0 \in Tick /\ YieldTime + 1 \in Nat /\ 0 <= YieldTime /\ YieldTime + 1 > YieldTime
  BY YieldAssumption, HalfAssumption, SMT DEF Tick, Modulus
<1>3. Stretch \in Nat /\ YieldTime <= Stretch
  BY <1>1, StretchType
<1>4. YieldTime + 1 <= Stretch + 1 + PingTime + 1
  BY <1>3, YieldAssumption, SMT
<1> QED BY <1>1, <1>2, <1>4, SMT DEF TimeInv, Running

(* k ticks later.                                                          *)
LEMMA TicksLater ==
  ASSUME NEW end \in Tick, NEW t \in Tick, NEW x \in Nat, NEW k \in Nat,
         left(end, t) = YieldTime - x, x + k <= 4 * YieldTime + PingTime + 2
  PROVE  Plus(t, k) \in Tick /\ left(end, Plus(t, k)) = YieldTime - (x + k)
BY HalfAssumption, YieldAssumption, SMT DEF Tick, Modulus, Plus, left

LEMMA PassStep ==
  ASSUME TimeInv, Running, NEW d \in Nat, Pass(d),
         elapsed + d <= 4 * YieldTime + PingTime + 2
  PROVE  /\ now' \in Tick /\ end_time' \in Tick /\ elapsed' \in Nat
         /\ elapsed <= elapsed' /\ elapsed' <= elapsed + d
         /\ left(end_time', now') = YieldTime - elapsed'
<1>1. /\ now \in Tick /\ end_time \in Tick /\ elapsed \in Nat
      /\ left(end_time, now) = YieldTime - elapsed
  BY DEF TimeInv
<1>2. PICK k \in 0 .. d : now' = Plus(now, k) /\ elapsed' = elapsed + k
  BY DEF Pass
<1>3. end_time' = end_time
  BY DEF Pass
<1>4. k \in Nat /\ k <= d /\ elapsed + k <= 4 * YieldTime + PingTime + 2
      /\ elapsed + k \in Nat /\ elapsed <= elapsed + k /\ elapsed + k <= elapsed + d
  BY <1>1, YieldAssumption, SMT
<1>5. Plus(now, k) \in Tick /\ left(end_time, Plus(now, k)) = YieldTime - (elapsed + k)
  BY <1>1, <1>4, TicksLater
<1> QED BY <1>1, <1>2, <1>3, <1>4, <1>5

LEMMA LeftMs ==
  ASSUME TimeInv, Running
  PROVE  /\ left_ms(end_time, now) \in Nat
         /\ elapsed <= YieldTime => left_ms(end_time, now) = YieldTime - elapsed
         /\ elapsed > YieldTime => left_ms(end_time, now) = 0
BY YieldAssumption, SMT DEF TimeInv, left_ms, expired

LEMMA LeftMsIs ==
  ASSUME NEW y \in Nat, NEW e \in Nat, e <= y, NEW f, NEW n, left(f, n) = y - e
  PROVE  left_ms(f, n) = y - e
<1>1. ~(y - e < 0)
  BY SMT
<1>2. ~expired(f, n)
  BY <1>1 DEF expired
<1> QED BY <1>2 DEF left_ms

(* The steps of a yield that leave the time alone, and those that do not.  *)
LEMMA HeaderTime ==
  ASSUME TimeInv, readPacketNothing \/ readPacketHeader
  PROVE  TimeInv'
<1>1. /\ pc = "header" /\ elapsed \in Nat /\ elapsed <= YieldTime /\ digits \in 0 .. 4
      /\ timeout \in Nat /\ timeout <= YieldTime
  BY DEF TimeInv, readPacketNothing, readPacketHeader
<1>2. Running
  BY <1>1 DEF Running
<1>3. PICK l \in Nat : l = left_ms(end_time, now) /\ l = YieldTime - elapsed
  BY <1>1, <1>2, LeftMs
<1>4. /\ elapsed + l = YieldTime /\ elapsed + (l + 1) = YieldTime + 1 /\ l + 1 \in Nat
      /\ YieldTime <= 4 * YieldTime + PingTime + 2
      /\ YieldTime + 1 <= 4 * YieldTime + PingTime + 2
  BY <1>1, <1>3, YieldAssumption, SMT
<1>5. CASE readPacketNothing
  <2>1. Pass(l + 1) /\ pc' = "keepalive" /\ digits' = digits /\ timeout' = timeout
    BY <1>3, <1>5 DEF readPacketNothing, Late, reading
  <2>2. /\ now' \in Tick /\ end_time' \in Tick /\ elapsed' \in Nat
        /\ elapsed' <= YieldTime + 1 /\ left(end_time', now') = YieldTime - elapsed'
    BY <1>2, <1>4, <2>1, PassStep
  <2>3. Stretch' = Stretch /\ Stretch \in Nat /\ YieldTime <= Stretch
    BY <1>1, <2>1, StretchType DEF Stretch
  <2>4. elapsed' <= Stretch' + 1
    BY <2>2, <2>3, YieldAssumption, SMT
  <2> QED BY <1>1, <2>1, <2>2, <2>4 DEF TimeInv, Running
<1>6. CASE readPacketHeader
  <2>1. /\ Pass(l) /\ pc' = "length" /\ digits' = 0 /\ timeout' = left_ms(end_time, now')
    BY <1>3, <1>6 DEF readPacketHeader, Came
  <2>2. /\ now' \in Tick /\ end_time' \in Tick /\ elapsed' \in Nat
        /\ elapsed' <= YieldTime /\ left(end_time', now') = YieldTime - elapsed'
    BY <1>2, <1>4, <2>1, PassStep
  <2>3. end_time' = end_time
    BY <2>1 DEF Pass
  <2>4. PICK e \in Nat, f \in Tick, n \in Tick :
          /\ e = elapsed' /\ f = end_time /\ n = now' /\ e <= YieldTime
          /\ left(f, n) = YieldTime - e
    BY <2>2, <2>3
  <2>5. left_ms(f, n) = YieldTime - e
    BY <2>4, YieldAssumption, LeftMsIs
  <2>6. PICK t \in Nat : t = YieldTime - e /\ t <= YieldTime /\ e <= (YieldTime - t) + 0 * t
    <3>1. PICK y \in Nat : y = YieldTime /\ e <= y
      BY <2>4, YieldAssumption
    <3>2. PICK t \in Nat : t = y - e
      BY <3>1, SMT
    <3>3. t <= y /\ 0 * t = 0
      BY <3>1, <3>2, SMT
    <3>4. e <= (y - t) + 0
      BY <3>1, <3>2, SMT
    <3> QED BY <3>1, <3>2, <3>3, <3>4
  <2>7. timeout' = t
    BY <2>1, <2>4, <2>5, <2>6
  <2>8. 0 \in 0 .. 4 /\ 0 <= 3
    BY SMT
  <2> QED BY <2>1, <2>2, <2>4, <2>6, <2>7, <2>8 DEF TimeInv, Running
<1> QED BY <1>5, <1>6

LEMMA LengthTime ==
  ASSUME TimeInv, decodePacket
  PROVE  TimeInv'
<1>1. PICK d \in 0 .. 3, t \in Nat, x \in Nat :
        /\ d = digits /\ t = timeout /\ x = elapsed /\ t <= YieldTime
        /\ x <= (YieldTime - t) + d * t
  <2>1. /\ pc = "length" /\ digits \in 0 .. 4 /\ digits <= 3 /\ timeout \in Nat
        /\ elapsed \in Nat /\ timeout <= YieldTime
        /\ elapsed <= (YieldTime - timeout) + digits * timeout
    BY DEF TimeInv, decodePacket
  <2>2. digits \in 0 .. 3
    BY <2>1, SMT
  <2> QED BY <2>1, <2>2
<1>2. /\ pc = "length" /\ Pass(t) /\ digits' = d + 1
      /\ \/ d + 1 < 4 /\ pc' = "length" /\ timeout' = t
         \/ pc' \in {"rest", "read"} /\ timeout' = 0
  BY <1>1 DEF decodePacket, Came
<1>3. Running /\ YieldTime \in Nat /\ d \in 0 .. 4 /\ d + 1 \in 0 .. 4 /\ d + 1 >= 1
  BY <1>2, YieldAssumption, SMT DEF Running
<1>4. PICK u \in Nat, v \in Nat, w \in Nat :
        /\ u = d * t /\ v = (d + 1) * t /\ w = (d + 1) * YieldTime
        /\ v = u + t /\ (YieldTime - t) + v <= w /\ w <= 4 * YieldTime
  BY <1>1, <1>3, Times
<1>5. x + t <= (YieldTime - t) + v /\ x + t <= w /\ x + t <= 4 * YieldTime + PingTime + 2
  BY <1>1, <1>3, <1>4, YieldAssumption, SMT
<1>6. /\ now' \in Tick /\ end_time' \in Tick /\ elapsed' \in Nat
      /\ elapsed' <= x + t /\ left(end_time', now') = YieldTime - elapsed'
  BY <1>1, <1>2, <1>3, <1>5, PassStep
<1>7. elapsed' <= (YieldTime - t) + v /\ elapsed' <= w
  BY <1>1, <1>3, <1>4, <1>5, <1>6, SMT
<1>8. Stretch' = w
  <2>1. CASE d + 1 > 1
    BY <1>2, <1>4, <2>1 DEF Stretch
  <2>2. CASE ~(d + 1 > 1)
    <3>1. d + 1 = 1
      BY <1>1, <2>2, SMT
    <3> QED BY <1>2, <1>3, <1>4, <2>2, <3>1 DEF Stretch
  <2> QED BY <2>1, <2>2
<1>9. CASE d + 1 < 4 /\ pc' = "length" /\ timeout' = t
  <2>1. digits' <= 3 /\ digits' * timeout' = v
    BY <1>1, <1>2, <1>4, <1>9, SMT
  <2> QED BY <1>1, <1>2, <1>3, <1>6, <1>7, <1>9, <2>1 DEF TimeInv, Running
<1>10. CASE pc' \in {"rest", "read"} /\ timeout' = 0
  <2>1. 0 \in Nat /\ 0 <= YieldTime
    BY <1>3, SMT
  <2> QED BY <1>2, <1>3, <1>6, <1>7, <1>8, <1>10, <2>1 DEF TimeInv, Running
<1> QED BY <1>2, <1>9, <1>10

LEMMA RestTime ==
  ASSUME TimeInv, readPacketRest
  PROVE  TimeInv'
<1>1. /\ pc = "rest" /\ elapsed \in Nat /\ elapsed <= Stretch /\ digits \in 0 .. 4
      /\ timeout \in Nat /\ timeout <= YieldTime
  BY DEF TimeInv, readPacketRest
<1>2. Running
  BY <1>1 DEF Running
<1>3. PICK l \in Nat : l = left_ms(end_time, now)
  BY <1>2, LeftMs
<1>4. PICK s \in Nat : s = Stretch /\ YieldTime <= s /\ s <= 4 * YieldTime
  BY <1>1, StretchType
<1>5. elapsed + l <= s
  <2>1. CASE elapsed <= YieldTime
    BY <1>1, <1>2, <1>3, <1>4, <2>1, LeftMs, YieldAssumption, SMT
  <2>2. CASE elapsed > YieldTime
    BY <1>1, <1>2, <1>3, <1>4, <2>2, LeftMs, YieldAssumption, SMT
  <2> QED BY <1>1, <2>1, <2>2, YieldAssumption, SMT
<1>6. elapsed + l <= 4 * YieldTime + PingTime + 2
  BY <1>1, <1>4, <1>5, YieldAssumption, SMT
<1>7. Pass(l) /\ pc' = "read" /\ digits' = digits /\ timeout' = timeout
  BY <1>3 DEF readPacketRest, Came
<1>8. /\ now' \in Tick /\ end_time' \in Tick /\ elapsed' \in Nat
      /\ elapsed' <= elapsed + l /\ left(end_time', now') = YieldTime - elapsed'
  BY <1>2, <1>6, <1>7, PassStep
<1>9. Stretch' = s
  BY <1>4, <1>7 DEF Stretch
<1>10. elapsed' <= s
  BY <1>1, <1>4, <1>5, <1>8, SMT
<1> QED BY <1>1, <1>7, <1>8, <1>9, <1>10 DEF TimeInv, Running

(* A recv that comes short loses the place, and the bound with it.         *)
LEMMA ShortTime ==
  ASSUME TimeInv, ComesShort
  PROVE  TimeInv'
<1>1. /\ now \in Tick /\ end_time \in Tick /\ elapsed \in Nat /\ digits \in 0 .. 4
      /\ timeout \in Nat /\ timeout <= YieldTime /\ pc \in {"length", "rest"}
  BY DEF TimeInv, ComesShort
<1>2. PICK m \in Nat : m <= YieldTime /\ Pass(m + 1)
  <2>1. left_ms(end_time, now) \in Nat /\ left_ms(end_time, now) <= YieldTime
    BY <1>1, LeftMs, YieldAssumption, SMT DEF Running
  <2> QED BY <1>1, <2>1 DEF ComesShort, Late
<1>3. /\ end_time' = end_time /\ digits' = digits /\ timeout' = timeout /\ pc' = "lost"
  BY <1>2 DEF Pass, ComesShort, reading
<1>4. PICK k \in 0 .. m + 1 : now' = Plus(now, k) /\ elapsed' = elapsed + k
  BY <1>2 DEF Pass
<1>5. k \in Nat /\ k <= YieldTime + 1 /\ elapsed + k \in Nat
  BY <1>1, <1>2, YieldAssumption, SMT
<1>6. Plus(now, k) \in Tick
  BY <1>1, <1>5, YieldAssumption, HalfAssumption, SMT DEF Tick, Modulus, Plus
<1>7. now' \in Tick /\ elapsed' \in Nat
  BY <1>4, <1>5, <1>6
<1> QED BY <1>1, <1>3, <1>7 DEF TimeInv, Running

LEMMA KeepaliveTime ==
  ASSUME TimeInv, (\E p \in Request : Ping(p)) \/ NoPing
  PROVE  TimeInv'
<1>1. /\ pc = "keepalive" /\ elapsed \in Nat /\ elapsed <= Stretch + 1 /\ digits \in 0 .. 4
      /\ timeout \in Nat /\ timeout <= YieldTime
  BY DEF TimeInv, Ping, NoPing
<1>2. Running
  BY <1>1 DEF Running
<1>3. PICK s \in Nat : s = Stretch /\ YieldTime <= s /\ s <= 4 * YieldTime
  BY <1>1, StretchType
<1>4. PICK m \in Nat : m <= PingTime + 1 /\ Pass(m)
  <2>1. PingTime \in Nat /\ PingTime + 1 \in Nat /\ PingTime <= PingTime + 1
    BY YieldAssumption, SMT
  <2> QED BY <2>1 DEF Ping, NoPing, Came, Late
<1>5. pc' = "loop" /\ digits' = digits /\ timeout' = timeout
  BY DEF Ping, NoPing, reading
<1>6. elapsed + m <= s + 1 + PingTime + 1 /\ elapsed + m <= 4 * YieldTime + PingTime + 2
  BY <1>1, <1>3, <1>4, YieldAssumption, SMT
<1>7. /\ now' \in Tick /\ end_time' \in Tick /\ elapsed' \in Nat
      /\ elapsed' <= elapsed + m /\ left(end_time', now') = YieldTime - elapsed'
  BY <1>2, <1>4, <1>6, PassStep
<1>8. Stretch' = s
  BY <1>3, <1>5 DEF Stretch
<1>9. elapsed' <= s + 1 + PingTime + 1
  BY <1>1, <1>3, <1>4, <1>6, <1>7, YieldAssumption, SMT
<1> QED BY <1>1, <1>5, <1>7, <1>8, <1>9 DEF TimeInv, Running

LEMMA TimeNext == TimeInv /\ [Next]_vars => TimeInv'
<1> SUFFICES ASSUME TimeInv, [Next]_vars PROVE TimeInv'
  OBVIOUS
<1>1. ASSUME UNCHANGED <<pc, digits, time>> PROVE TimeInv'
  BY <1>1 DEF TimeInv, time, Running, Stretch
<1>2. ASSUME NEW p \in Request, Send(p) PROVE TimeInv'
  BY <1>1, <1>2 DEF Send, reading
<1>3. CASE BrokerReads
  BY <1>1, <1>3 DEF BrokerReads, reading
<1>4. ASSUME NEW p \in Reply, BrokerSends(p) PROVE TimeInv'
  BY <1>1, <1>4 DEF BrokerSends, reading
<1>5. CASE MQTTYield
  <2>1. /\ end_time' = countdown(now, YieldTime) /\ now' = now /\ elapsed' = 0 /\ pc' = "loop"
        /\ digits' = digits /\ timeout' = timeout
    BY <1>5 DEF MQTTYield, reading
  <2>2. YieldTime \in 0 .. Half - 1
    BY YieldAssumption, HalfAssumption, SMT
  <2>3. end_time' \in Tick /\ left(end_time', now') = YieldTime /\ now \in Tick
    BY <2>1, <2>2, LeftAtStart DEF TimeInv
  <2>4. Stretch' = Stretch /\ Stretch \in Nat
    BY <2>1, StretchType DEF TimeInv, Stretch
  <2>5. 0 <= Stretch + 1 + PingTime + 1 /\ YieldTime = YieldTime - 0 /\ 0 \in Nat
    BY <2>4, YieldAssumption, SMT
  <2> QED BY <2>1, <2>3, <2>4, <2>5 DEF TimeInv, Running
<1>6. CASE MQTTYieldEnds
  <2>1. /\ pc = "loop" /\ left(end_time, now) < 0 /\ pc' = "idle" /\ end_time' = 0
        /\ UNCHANGED <<now, timeout, elapsed, digits>>
    BY <1>6 DEF MQTTYieldEnds, expired, reading
  <2>2. /\ now \in Tick /\ elapsed \in Nat /\ timeout \in Nat /\ timeout <= YieldTime
        /\ digits \in 0 .. 4 /\ elapsed <= Stretch + 1 + PingTime + 1
        /\ left(end_time, now) = YieldTime - elapsed
    BY <2>1 DEF TimeInv, Running
  <2>3. elapsed > YieldTime /\ 0 \in Tick
    BY <2>1, <2>2, YieldAssumption, HalfAssumption, SMT DEF Tick, Modulus
  <2>4. Stretch' = Stretch
    BY <2>1 DEF Stretch
  <2> QED BY <2>1, <2>2, <2>3, <2>4 DEF TimeInv, Running
<1>7. CASE Cycle
  <2>1. pc = "loop" /\ ~(left(end_time, now) < 0) /\ pc' = "header" /\ UNCHANGED <<time, digits>>
    BY <1>7 DEF Cycle, expired, reading
  <2>2. elapsed <= YieldTime
    BY <2>1, YieldAssumption, SMT DEF TimeInv, Running
  <2> QED BY <2>1, <2>2 DEF TimeInv, time, Running
<1>8. CASE Deliver
  <2>1. pc = "read" /\ pc' = "keepalive" /\ UNCHANGED <<time, digits>>
    BY <1>8 DEF Deliver
  <2>2. Stretch' = Stretch /\ Stretch \in Nat /\ elapsed \in Nat /\ elapsed <= Stretch
    BY <2>1, StretchType DEF TimeInv, Stretch
  <2>3. elapsed <= Stretch + 1
    BY <2>2, SMT
  <2> QED BY <2>1, <2>2, <2>3 DEF TimeInv, time, Running
<1>9. CASE DISCONNECTED
  <2>1. pc = "keepalive" /\ pc' = "closed" /\ UNCHANGED <<time, digits>>
    BY <1>9 DEF DISCONNECTED, reading
  <2>2. Stretch' = Stretch /\ Stretch \in Nat /\ elapsed \in Nat /\ elapsed <= Stretch + 1
    BY <2>1, StretchType DEF TimeInv, Stretch
  <2>3. elapsed <= Stretch + 1 + PingTime + 1
    BY <2>2, YieldAssumption, SMT
  <2> QED BY <2>1, <2>2, <2>3 DEF TimeInv, time, Running
<1>10. CASE UNCHANGED vars
  BY <1>1, <1>10 DEF vars, reading
<1> QED
  BY <1>2, <1>3, <1>4, <1>5, <1>6, <1>7, <1>8, <1>9, <1>10, HeaderTime, LengthTime, RestTime,
     ShortTime, KeepaliveTime
     DEF Next, readPacket

(* However long the time of a yield (a quarter of half the range of the    *)
(* counter) and wherever the counter wraps, MQTTYield lasts its time,      *)
(* unless keepalive raises the alarm, and no longer than a last ping and   *)
(* the bytes of a length make it                                           *)
(* (MQTTClient.c:53-107, 177-215, 307-324, MQTTESP8266.c:33-59).           *)
THEOREM YieldAlwaysOnTime == Spec => []YieldOnTime
<1>1. TimeInv => YieldOnTime
  BY DEF TimeInv, YieldOnTime
<1> QED BY <1>1, TimeInit, TimeNext, PTL DEF Spec

-----------------------------------------------------------------------------
(* ReadAsSent.  Between packets the client has taken whole packets out of  *)
(* the stream; inside a packet it has the part of it that pc says.         *)
Partial(n, d) ==
  (IF d >= 1 THEN Digit(n, 1) ELSE 0) + (IF d >= 2 THEN 128 * Digit(n, 2) ELSE 0)
    + (IF d >= 3 THEN 16384 * Digit(n, 3) ELSE 0)
    + (IF d >= 4 THEN 2097152 * Digit(n, 4) ELSE 0)

LEMMA PartialSum ==
  ASSUME NEW n \in Nat, n <= MaxLength
  PROVE  /\ Partial(n, 0) = 0 /\ Partial(n, EncodedBytes(n)) = n
         /\ \A d \in 0 .. 4 : Partial(n, d) \in 0 .. n
         /\ \A d \in 0 .. 3 : Partial(n, d + 1) = Partial(n, d) + Digit(n, d + 1) * Weight[d + 1]
<1> DEFINE a == Digit(n, 1)
           b == Digit(n, 2)
           c == Digit(n, 3)
           e == Digit(n, 4)
<1>1. a \in 0 .. 127 /\ b \in 0 .. 127 /\ c \in 0 .. 127 /\ e \in 0 .. 127
  BY DigitType, SMT
<1>2. /\ n = a + 128 * b + 16384 * c + 2097152 * e
      /\ n < 128 => b = 0
      /\ n < 16384 => c = 0
      /\ n < 2097152 => e = 0
  BY DigitsSum
<1>3. \A d : Partial(n, d) =
         (IF d >= 1 THEN a ELSE 0) + (IF d >= 2 THEN 128 * b ELSE 0)
           + (IF d >= 3 THEN 16384 * c ELSE 0) + (IF d >= 4 THEN 2097152 * e ELSE 0)
  BY SMT DEF Partial
<1>4. \A d \in 0 .. 3 : Digit(n, d + 1) * Weight[d + 1] =
         IF d = 0 THEN a ELSE IF d = 1 THEN 128 * b ELSE IF d = 2 THEN 16384 * c ELSE 2097152 * e
  <2>1. /\ Weight[1] = 1 /\ Weight[2] = 128 /\ Weight[3] = 16384 /\ Weight[4] = 2097152
    BY WeightOf
  <2>2. SUFFICES ASSUME NEW d \in 0 .. 3
                 PROVE Digit(n, d + 1) * Weight[d + 1] =
         IF d = 0 THEN a ELSE IF d = 1 THEN 128 * b ELSE IF d = 2 THEN 16384 * c ELSE 2097152 * e
    BY SMT
  <2>3. d = 0 \/ d = 1 \/ d = 2 \/ d = 3
    BY SMT
  <2>4. 0 + 1 = 1 /\ 1 + 1 = 2 /\ 2 + 1 = 3 /\ 3 + 1 = 4
    BY SMT
  <2>5. a * 1 = a /\ b * 128 = 128 * b /\ c * 16384 = 16384 * c /\ e * 2097152 = 2097152 * e
    <3> HIDE DEF a, b, c, e
    <3> QED BY <1>1, SMT
  <2>6. CASE d = 0
    BY <2>1, <2>4, <2>5, <2>6, SMT
  <2>7. CASE d = 1
    BY <2>1, <2>4, <2>5, <2>7, SMT
  <2>8. CASE d = 2
    BY <2>1, <2>4, <2>5, <2>8, SMT
  <2>9. CASE d = 3
    BY <2>1, <2>4, <2>5, <2>9, SMT
  <2> QED BY <2>3, <2>6, <2>7, <2>8, <2>9, SMT
<1> HIDE DEF a, b, c, e
<1>5. Partial(n, 0) = 0
  BY <1>1, <1>3, SMT
<1>6. Partial(n, EncodedBytes(n)) = n
  BY <1>1, <1>2, <1>3, SMT DEF EncodedBytes
<1>7. ASSUME NEW d \in 0 .. 4 PROVE Partial(n, d) \in 0 .. n
  BY <1>1, <1>2, <1>3, SMT
<1>8. ASSUME NEW d \in 0 .. 3
      PROVE  Partial(n, d + 1) = Partial(n, d) + Digit(n, d + 1) * Weight[d + 1]
  BY <1>1, <1>3, <1>4, SMT
<1> QED BY <1>5, <1>6, <1>7, <1>8, SMT

(* The packet of the broker that is read next.                             *)
Current == Standard(replied[Len(delivered) + 1])

AtPacket(f, b, n) ==
  /\ Len(delivered) < Len(replied)
  /\ f \in Byte /\ b \in Seq(Byte) /\ n \in Nat /\ Len(b) = n /\ n <= MaxLength
  /\ Current = Frame(f, b)

Rest(c) == Stream(down, replied, Len(delivered), c)

Between == Rest(0)

InLength(f, b, n) ==
  /\ AtPacket(f, b, n)
  /\ digits \in Nat /\ digits < EncodedBytes(n)
  /\ readbuf = <<f>> /\ rem_len = Partial(n, digits)
  /\ Rest(1 + digits)

InRest(f, b, n) ==
  /\ AtPacket(f, b, n)
  /\ readbuf = <<f>> \o MQTTPacket_encode(n) /\ rem_len = n
  /\ Rest(1 + EncodedBytes(n))

HasRead == Len(delivered) < Len(replied) /\ readbuf = Current /\ Rest(Len(Current))

Kept == Text(readbuf) /\ Len(readbuf) <= BufSize /\ rem_len \in 0 .. BufSize /\ digits \in 0 .. 4

Delivered ==
  /\ replied \in Seq(Reply) /\ delivered \in Seq(Reply) /\ down \in Seq(Byte)
  /\ Len(delivered) <= Len(replied)
  /\ \A i \in 1 .. Len(delivered) : delivered[i] = replied[i]

OutOfPacket == {"idle", "loop", "header", "keepalive", "closed"}

Place ==
  /\ pc \in {"idle", "loop", "header", "length", "rest", "read", "keepalive", "lost", "closed"}
  /\ pc \in OutOfPacket => Between
  /\ pc = "length" => \E f, b, n : InLength(f, b, n)
  /\ pc = "rest" => \E f, b, n : InRest(f, b, n)
  /\ pc = "read" => HasRead

DownInv == Kept /\ Delivered /\ Place

LEMMA AnswerPacket ==
  ASSUME NEW p \in Reply
  PROVE  /\ Packet(Standard(p)) /\ Len(Standard(p)) <= BufSize
         /\ Deserialize(Standard(p)) = p
         /\ \E f \in Byte : \E b \in Seq(Byte) :
              Len(b) <= MaxLength /\ Standard(p) = Frame(f, b)
<1>1. Answerable(p)
  BY ReplyAssumption
<1>2. /\ FirstByte(p) \in Byte /\ AnswerBody(p) \in Seq(Byte)
      /\ Len(AnswerBody(p)) <= MaxLength
      /\ Standard(p) = Frame(FirstByte(p), AnswerBody(p))
  BY <1>1, AnswerFrame
<1>3. Packet(Standard(p))
  BY <1>2, FramePacket
<1>4. Len(Standard(p)) <= BufSize
  BY <1>1 DEF Answerable
<1>5. Deserialize(Standard(p)) = p
  BY <1>1, DeserializedAsSent
<1> QED BY <1>2, <1>3, <1>4, <1>5

LEMMA RepliedPackets ==
  ASSUME Delivered
  PROVE  Packets(replied)
<1>1. replied \in Seq(Reply) /\ Len(replied) \in Nat
  BY LenProperties DEF Delivered
<1>2. \A i \in 1 .. Len(replied) : replied[i] \in Reply
  BY <1>1, ElementOfSeq
<1> QED BY <1>1, <1>2, AnswerPacket DEF Packets

LEMMA NextReply ==
  ASSUME Delivered, Len(delivered) < Len(replied)
  PROVE  /\ Len(delivered) + 1 \in 1 .. Len(replied)
         /\ replied[Len(delivered) + 1] \in Reply
         /\ Packet(Current) /\ Len(Current) <= BufSize
<1>1. /\ replied \in Seq(Reply) /\ Len(replied) \in Nat /\ Len(delivered) \in Nat
  BY LenProperties DEF Delivered
<1>2. Len(delivered) + 1 \in 1 .. Len(replied)
  BY <1>1, SMT
<1>3. replied[Len(delivered) + 1] \in Reply
  BY <1>1, <1>2, ElementOfSeq
<1> QED BY <1>2, <1>3, AnswerPacket DEF Current

(* What stands where in the packet that is read.                           *)
LEMMA PacketShape ==
  ASSUME Delivered, NEW f, NEW b, NEW n, AtPacket(f, b, n)
  PROVE  /\ EncodedBytes(n) \in 1 .. 4 /\ Len(Current) = 1 + EncodedBytes(n) + n
         /\ 1 + EncodedBytes(n) + n <= BufSize
         /\ Current[1] = f
         /\ \A i \in 1 .. EncodedBytes(n) : Current[1 + i] = MQTTPacket_encode(n)[i]
         /\ \A i \in 1 .. n : Current[1 + EncodedBytes(n) + i] = b[i]
<1>1. /\ f \in Byte /\ b \in Seq(Byte) /\ n \in Nat /\ Len(b) = n /\ n <= MaxLength
      /\ Current = Frame(f, b) /\ Len(delivered) < Len(replied)
  BY DEF AtPacket
<1>2. /\ EncodedBytes(n) \in 1 .. 4
      /\ Len(Frame(f, b)) = 1 + EncodedBytes(n) + n
      /\ Frame(f, b)[1] = f
      /\ \A i \in 1 .. EncodedBytes(n) : Frame(f, b)[1 + i] = MQTTPacket_encode(n)[i]
      /\ \A i \in 1 .. n : Frame(f, b)[1 + EncodedBytes(n) + i] = b[i]
  BY <1>1, FrameShape
<1>3. Len(Current) <= BufSize
  BY <1>1, NextReply
<1> QED BY <1>1, <1>2, <1>3

(* A byte that the client takes is the next one of the packet.             *)
LEMMA NextByte ==
  ASSUME Delivered, Len(delivered) < Len(replied), NEW c, Rest(c), NEW i \in Nat,
         i > c, i <= Len(Current)
  PROVE  c \in Nat /\ down[i - c] = Current[i]
BY RepliedPackets, StreamBytes DEF Rest, Current

LEMMA RestTaken ==
  ASSUME Delivered, NEW c, Rest(c), NEW d \in 0 .. Len(down),
         down' = SubSeq(down, d + 1, Len(down)), UNCHANGED <<replied, delivered>>
  PROVE  Rest(c + d)'
<1>1. Stream(down', replied, Len(delivered), c + d)
  BY RepliedPackets, StreamTake DEF Rest
<1> QED BY <1>1 DEF Rest

LEMMA DownInit == Init => DownInv
<1> SUFFICES ASSUME Init PROVE DownInv
  OBVIOUS
<1>1. /\ replied = << >> /\ down = << >> /\ pc = "idle" /\ readbuf = << >>
      /\ rem_len = 0 /\ digits = 0 /\ delivered = << >>
  BY DEF Init
<1>2. Rest(0)
  BY <1>1, StreamInit, EmptySeq DEF Rest
<1>3. /\ replied \in Seq(Reply) /\ delivered \in Seq(Reply) /\ down \in Seq(Byte)
      /\ Len(replied) = 0 /\ Len(delivered) = 0 /\ readbuf \in Seq(Byte) /\ Len(readbuf) = 0
  BY <1>1, EmptySeq
<1>4. 0 <= 0 /\ 0 <= BufSize /\ 0 \in 0 .. BufSize /\ 0 \in 0 .. 4 /\ 1 .. 0 = {}
  BY SizeAssumption, SMT
<1>5. Kept
  BY <1>1, <1>3, <1>4 DEF Kept, Text
<1>6. Delivered
  BY <1>3, <1>4 DEF Delivered
<1>7. Place
  BY <1>1, <1>2 DEF Place, OutOfPacket, Between
<1> QED BY <1>5, <1>6, <1>7 DEF DownInv

(* A step that leaves the stream and the packet alone.                     *)
LEMMA DownSame ==
  ASSUME DownInv, UNCHANGED <<downward, reading>>,
         \/ pc' = pc
         \/ pc' = "lost"
         \/ pc \in OutOfPacket /\ pc' \in OutOfPacket
  PROVE  DownInv'
<1>1. /\ replied' = replied /\ down' = down /\ readbuf' = readbuf /\ rem_len' = rem_len
      /\ digits' = digits /\ delivered' = delivered
  BY DEF downward, reading
<1>2. Kept'
  BY <1>1 DEF DownInv, Kept
<1>3. Delivered'
  BY <1>1 DEF DownInv, Delivered
<1>4. \A c : Rest(c) => Rest(c)'
  BY <1>1 DEF Rest
<1>5. \A f, b, n : AtPacket(f, b, n) => AtPacket(f, b, n)'
  BY <1>1 DEF AtPacket, Current
<1>6. \A f, b, n : InLength(f, b, n) => InLength(f, b, n)'
  BY <1>1, <1>4, <1>5 DEF InLength
<1>7. \A f, b, n : InRest(f, b, n) => InRest(f, b, n)'
  BY <1>1, <1>4, <1>5 DEF InRest
<1>8. HasRead => HasRead'
  BY <1>1, <1>4 DEF HasRead, Current
<1>9. Between => Between'
  BY <1>4 DEF Between
<1>10. Place'
  <2>1. Place
    BY DEF DownInv
  <2> QED BY <1>6, <1>7, <1>8, <1>9, <2>1 DEF Place, OutOfPacket
<1> QED BY <1>2, <1>3, <1>10 DEF DownInv

LEMMA DownAdd ==
  ASSUME DownInv, NEW p \in Reply, BrokerSends(p)
  PROVE  DownInv'
<1>0. Kept /\ Delivered /\ Place
  BY DEF DownInv
<1>1. /\ replied' = Append(replied, p) /\ down' = down \o Standard(p)
      /\ readbuf' = readbuf /\ rem_len' = rem_len
      /\ digits' = digits /\ delivered' = delivered /\ pc' = pc
  BY DEF BrokerSends, reading
<1>2. Packets(replied) /\ Packet(Standard(p)) /\ replied \in Seq(Reply)
  BY <1>0, RepliedPackets, AnswerPacket DEF Delivered
<1>3. /\ replied' \in Seq(Reply) /\ Len(replied') = Len(replied) + 1
      /\ \A i \in 1 .. Len(replied) : replied'[i] = replied[i]
  BY <1>1, <1>2, AppendProperties
<1>4. Kept'
  BY <1>0, <1>1 DEF Kept
<1>5. Len(delivered) \in Nat /\ Len(replied) \in Nat /\ Len(delivered) <= Len(replied)
  BY <1>0, LenProperties DEF Delivered
<1>6. Delivered'
  <2>1. down' \in Seq(Byte)
    BY <1>0, <1>1, <1>2, ConcatProperties DEF Delivered, Packet
  <2>2. /\ Len(delivered) <= Len(replied')
        /\ \A i \in 1 .. Len(delivered) : i \in 1 .. Len(replied)
    BY <1>3, <1>5, SMT
  <2>3. \A i \in 1 .. Len(delivered) : delivered[i] = replied'[i]
    BY <1>0, <1>3, <2>2 DEF Delivered
  <2> QED BY <1>0, <1>1, <1>3, <2>1, <2>2, <2>3 DEF Delivered
<1>7. \A c : Rest(c) => Rest(c)'
  <2> SUFFICES ASSUME NEW c, Rest(c) PROVE Rest(c)'
    OBVIOUS
  <2>1. Stream(down', replied', Len(delivered), c)
    BY <1>1, <1>2, StreamAdd DEF Rest
  <2> QED BY <1>1, <2>1 DEF Rest
<1>8. Len(delivered) < Len(replied) => Len(delivered') < Len(replied') /\ Current' = Current
  <2> SUFFICES ASSUME Len(delivered) < Len(replied)
               PROVE  Len(delivered') < Len(replied') /\ Current' = Current
    OBVIOUS
  <2>1. Len(delivered) + 1 \in 1 .. Len(replied) /\ Len(delivered) < Len(replied')
    BY <1>3, <1>5, SMT
  <2> QED BY <1>1, <1>3, <2>1 DEF Current
<1>9. \A f, b, n : AtPacket(f, b, n) => AtPacket(f, b, n)'
  BY <1>8 DEF AtPacket
<1>10. \A f, b, n : InLength(f, b, n) => InLength(f, b, n)'
  BY <1>1, <1>7, <1>9 DEF InLength
<1>11. \A f, b, n : InRest(f, b, n) => InRest(f, b, n)'
  BY <1>1, <1>7, <1>9 DEF InRest
<1>12. HasRead => HasRead'
  BY <1>1, <1>7, <1>8 DEF HasRead
<1>13. Between => Between'
  BY <1>7 DEF Between
<1>14. Place'
  BY <1>0, <1>1, <1>10, <1>11, <1>12, <1>13 DEF Place
<1> QED BY <1>4, <1>6, <1>14 DEF DownInv

LEMMA NextFrame ==
  ASSUME Delivered, Len(delivered) < Len(replied)
  PROVE  \E f, b, n : AtPacket(f, b, n)
<1>1. replied[Len(delivered) + 1] \in Reply
  BY NextReply
<1>2. PICK f \in Byte, b \in Seq(Byte) : Len(b) <= MaxLength /\ Current = Frame(f, b)
  BY <1>1, AnswerPacket DEF Current
<1>3. Len(b) \in Nat
  BY LenProperties
<1>4. AtPacket(f, b, Len(b))
  BY <1>2, <1>3 DEF AtPacket
<1> QED BY <1>4

LEMMA TakenType ==
  ASSUME Delivered, NEW d \in 0 .. Len(down), down' = SubSeq(down, d + 1, Len(down)),
         UNCHANGED <<replied, delivered>>
  PROVE  Delivered'
<1>1. down' \in Seq(Byte)
  BY Dropped DEF Delivered
<1> QED BY <1>1 DEF Delivered

(* The first byte of a packet.                                             *)
LEMMA DownHeader ==
  ASSUME DownInv, readPacketHeader
  PROVE  DownInv'
<1>0. Kept /\ Delivered /\ Place
  BY DEF DownInv
<1>1. /\ pc = "header" /\ down # << >> /\ readbuf' = <<Head(down)>> /\ down' = Tail(down)
      /\ rem_len' = 0 /\ digits' = 0 /\ pc' = "length"
      /\ replied' = replied /\ delivered' = delivered
  BY DEF readPacketHeader
<1>2. Rest(0) /\ down \in Seq(Byte)
  BY <1>0, <1>1 DEF Place, OutOfPacket, Between, Delivered
<1>3. Len(delivered) < Len(replied)
  BY <1>0, <1>1, <1>2, RepliedPackets, StreamHead DEF Rest
<1>4. PICK f, b, n : AtPacket(f, b, n)
  BY <1>0, <1>3, NextFrame
<1>5. /\ EncodedBytes(n) \in 1 .. 4 /\ Len(Current) = 1 + EncodedBytes(n) + n
      /\ 1 + EncodedBytes(n) + n <= BufSize /\ Current[1] = f
  BY <1>0, <1>4, PacketShape
<1>6. n \in Nat /\ n <= MaxLength /\ f \in Byte
  BY <1>4 DEF AtPacket
<1>7. /\ Head(down) = down[1] /\ down' = SubSeq(down, 1 + 1, Len(down)) /\ 1 \in 0 .. Len(down)
  BY <1>1, <1>2, TailDropped
<1>8. 1 \in Nat /\ 1 > 0 /\ 1 <= Len(Current) /\ 1 - 0 = 1 /\ 0 + 1 = 1
  BY <1>5, <1>6, SMT
<1>9. down[1] = f
  BY <1>0, <1>2, <1>3, <1>5, <1>8, NextByte
<1>10. Rest(1)'
  <2>1. Rest(0 + 1)'
    BY <1>0, <1>1, <1>2, <1>7, RestTaken
  <2>2. 0 + 1 = 1
    BY SMT
  <2> QED BY <2>1, <2>2
<1>11. Delivered'
  BY <1>0, <1>1, <1>7, TakenType
<1>12. AtPacket(f, b, n)'
  BY <1>1, <1>4 DEF AtPacket, Current
<1>13. 0 \in Nat /\ 0 < EncodedBytes(n) /\ 1 + 0 = 1
  BY <1>5, SMT
<1>14. InLength(f, b, n)'
  <2>1. rem_len' = Partial(n, digits')
    BY <1>1, <1>6, PartialSum
  <2>2. Rest(1 + digits)'
    BY <1>1, <1>10, <1>13
  <2> QED BY <1>1, <1>7, <1>9, <1>12, <1>13, <2>1, <2>2 DEF InLength
<1>15. Place'
  BY <1>1, <1>14 DEF Place, OutOfPacket
<1>16. Kept'
  <2>1. readbuf' \in Seq(Byte) /\ Len(readbuf') = 1
    BY <1>1, <1>6, <1>7, <1>9, OneByte
  <2>2. 1 <= BufSize /\ 0 \in 0 .. BufSize /\ 0 \in 0 .. 4
    BY SizeAssumption, SMT
  <2> QED BY <1>1, <2>1, <2>2 DEF Kept, Text
<1> QED BY <1>11, <1>15, <1>16 DEF DownInv

(* What is in front of the body.                                           *)
LEMMA HeadOfFrame ==
  ASSUME NEW f \in Byte, NEW n \in Nat, n <= MaxLength
  PROVE  /\ <<f>> \o MQTTPacket_encode(n) \in Seq(Byte)
         /\ Len(<<f>> \o MQTTPacket_encode(n)) = 1 + EncodedBytes(n)
BY OneByte, EncodeShape, ConcatProperties

(* A byte of the length: all but the last have their top bit set.          *)
LEMMA DownLength ==
  ASSUME DownInv, decodePacket
  PROVE  DownInv'
<1>0. Kept /\ Delivered /\ Place
  BY DEF DownInv
<1>1. /\ pc = "length" /\ down # << >> /\ digits' = digits + 1 /\ down' = Tail(down)
      /\ rem_len' = rem_len + DecodeByte(Head(down), digits + 1)
      /\ replied' = replied /\ delivered' = delivered
      /\ \/ /\ Head(down) >= 128 /\ digits + 1 < 4
            /\ pc' = pc /\ readbuf' = readbuf
         \/ /\ Head(down) < 128 \/ digits + 1 = 4
            /\ readbuf' = readbuf \o MQTTPacket_encode(rem_len')
            /\ pc' = IF rem_len' > 0 THEN "rest" ELSE "read"
  BY DEF decodePacket
<1>2. PICK f, b, n : InLength(f, b, n)
  BY <1>0, <1>1 DEF Place
<1>d. PICK d : d = digits
  OBVIOUS
<1> DEFINE i == d + 1
           E == EncodedBytes(n)
<1>3. /\ AtPacket(f, b, n) /\ d \in Nat /\ d < E
      /\ readbuf = <<f>> /\ rem_len = Partial(n, d) /\ Rest(1 + d)
  BY <1>2, <1>d DEF InLength
<1>4. /\ E \in 1 .. 4 /\ Len(Current) = 1 + E + n
      /\ 1 + E + n <= BufSize
      /\ \A j \in 1 .. E : Current[1 + j] = MQTTPacket_encode(n)[j]
  BY <1>0, <1>3, PacketShape
<1>5. /\ n \in Nat /\ n <= MaxLength /\ f \in Byte /\ b \in Seq(Byte) /\ Len(b) = n
      /\ Current = Frame(f, b) /\ Len(delivered) < Len(replied)
  BY <1>3 DEF AtPacket
<1>6. /\ Head(down) = down[1] /\ down' = SubSeq(down, 1 + 1, Len(down)) /\ 1 \in 0 .. Len(down)
  BY <1>0, <1>1, TailDropped DEF Delivered
<1> HIDE DEF E
<1>7. /\ i \in 1 .. E /\ i \in 1 .. 4 /\ d \in 0 .. 3 /\ i \in 0 .. 4
      /\ 1 + i \in Nat /\ 1 + i > 1 + d /\ 1 + i <= Len(Current)
      /\ (1 + i) - (1 + d) = 1 /\ (1 + d) + 1 = 1 + i
  BY <1>3, <1>4, <1>5, SMT
<1>e. digits' = i
  BY <1>1, <1>d
<1> HIDE DEF i
<1>8. down[1] = MQTTPacket_encode(n)[i]
  <2>1. down[(1 + i) - (1 + d)] = Current[1 + i]
    BY <1>0, <1>3, <1>5, <1>7, NextByte
  <2> QED BY <1>4, <1>7, <2>1
<1>9. /\ Digit(n, i) \in 0 .. 127
      /\ Head(down) = IF i < E THEN 128 + Digit(n, i) ELSE Digit(n, i)
  BY <1>5, <1>6, <1>7, <1>8, EncodeShape, DigitType DEF E
<1>10. Head(down) % 128 = Digit(n, i) /\ (Head(down) >= 128 <=> i < E)
                                      /\ (Head(down) < 128 <=> ~(i < E))
  <2> DEFINE g == Digit(n, i)
             x == Head(down)
  <2>1. g \in 0 .. 127 /\ x = IF i < E THEN 128 + g ELSE g
    BY <1>9
  <2> HIDE DEF g, x
  <2>2. x % 128 = g /\ (x >= 128 <=> i < E) /\ (x < 128 <=> ~(i < E))
    BY <2>1, SMT
  <2> QED BY <2>2 DEF g, x
<1>11. rem_len' = Partial(n, i) /\ rem_len' \in 0 .. n
  <2>1. DecodeByte(Head(down), i) = Digit(n, i) * Weight[i]
    BY <1>10 DEF DecodeByte
  <2>2. Partial(n, d + 1) = Partial(n, d) + Digit(n, d + 1) * Weight[d + 1]
    BY <1>5, <1>7, PartialSum
  <2>3. rem_len' = Partial(n, i)
    BY <1>1, <1>3, <1>d, <2>1, <2>2 DEF i
  <2>4. Partial(n, i) \in 0 .. n
    <3>1. i \in 0 .. 4
      BY <1>7, SMT
    <3> QED BY <1>5, <3>1, PartialSum
  <2> QED BY <2>3, <2>4
<1>12. Rest(1 + i)'
  <2>1. Rest((1 + d) + 1)'
    BY <1>0, <1>1, <1>3, <1>6, RestTaken
  <2> QED BY <1>7, <2>1
<1>13. Delivered'
  BY <1>0, <1>1, <1>6, TakenType
<1>14. AtPacket(f, b, n)' /\ Current' = Current
  BY <1>1, <1>3 DEF AtPacket, Current
<1>15. rem_len' \in 0 .. BufSize /\ digits' \in 0 .. 4
  BY <1>4, <1>5, <1>7, <1>11, <1>e, SizeAssumption, SMT
<1>16. CASE i < E
  <2>1. pc' = "length" /\ readbuf' = <<f>> /\ digits' = i
    <3>1. Head(down) >= 128 /\ ~(Head(down) < 128) /\ digits + 1 # 4
      BY <1>1, <1>e, <1>4, <1>7, <1>10, <1>16, SMT
    <3> QED BY <1>1, <1>3, <1>e, <3>1
  <2>2. i \in Nat
    BY <1>7, SMT
  <2>3. InLength(f, b, n)'
    BY <1>11, <1>12, <1>14, <1>16, <2>1, <2>2 DEF InLength, E
  <2>4. Place'
    BY <2>1, <2>3 DEF Place, OutOfPacket
  <2>5. Kept'
    BY <1>0, <1>3, <1>15, <2>1 DEF Kept
  <2> QED BY <1>13, <2>4, <2>5 DEF DownInv
<1>17. CASE ~(i < E)
  <2>1. i = E
    BY <1>4, <1>7, <1>17, SMT
  <2>2. rem_len' = n
    BY <1>5, <1>11, <2>1, PartialSum DEF E
  <2>3. ~(Head(down) >= 128)
    BY <1>9, <1>10, <1>17
  <2>4. /\ readbuf' = <<f>> \o MQTTPacket_encode(n)
        /\ pc' = IF n > 0 THEN "rest" ELSE "read"
    BY <1>1, <1>3, <2>2, <2>3
  <2>5. Rest(1 + EncodedBytes(n))'
    BY <1>12, <2>1 DEF E
  <2>6. Kept'
    <3>1. readbuf' \in Seq(Byte) /\ Len(readbuf') = 1 + E
      BY <1>5, <2>4, HeadOfFrame DEF E
    <3>2. 1 + E <= BufSize
      BY <1>4, <1>5, SizeAssumption, SMT
    <3> QED BY <1>15, <3>1, <3>2 DEF Kept, Text
  <2>7. CASE n > 0
    <3>1. InRest(f, b, n)'
      BY <1>14, <2>2, <2>4, <2>5 DEF InRest
    <3>2. pc' = "rest"
      BY <2>4, <2>7
    <3>3. Place'
      BY <3>1, <3>2 DEF Place, OutOfPacket
    <3> QED BY <1>13, <2>6, <3>3 DEF DownInv
  <2>8. CASE ~(n > 0)
    <3>1. n = 0
      BY <1>5, <2>8, SMT
    <3>2. b = << >>
      BY <1>5, <3>1, EmptySeq
    <3>3. Current = (<<f>> \o MQTTPacket_encode(Len(b))) \o b
      BY <1>5, FrameConcat
    <3>4. Current = <<f>> \o MQTTPacket_encode(n)
      <4>1. (<<f>> \o MQTTPacket_encode(n)) \o << >> = <<f>> \o MQTTPacket_encode(n)
        BY <1>5, HeadOfFrame, ConcatEmptySeq
      <4> QED BY <1>5, <3>2, <3>3, <4>1
    <3>5. Len(Current) = 1 + EncodedBytes(n)
      BY <1>5, <3>4, HeadOfFrame
    <3>6. HasRead'
      BY <1>1, <1>5, <1>14, <2>4, <2>5, <3>4, <3>5 DEF HasRead
    <3>7. pc' = "read"
      BY <2>4, <2>8
    <3>8. Place'
      BY <3>6, <3>7 DEF Place, OutOfPacket
    <3> QED BY <1>13, <2>6, <3>8 DEF DownInv
  <2> QED BY <2>7, <2>8
<1> QED BY <1>16, <1>17

(* The body.                                                               *)
LEMMA DownRest ==
  ASSUME DownInv, readPacketRest
  PROVE  DownInv'
<1>0. Kept /\ Delivered /\ Place
  BY DEF DownInv
<1>1. /\ pc = "rest" /\ Len(down) >= rem_len
      /\ readbuf' = readbuf \o SubSeq(down, 1, rem_len)
      /\ down' = SubSeq(down, rem_len + 1, Len(down))
      /\ pc' = "read" /\ rem_len' = rem_len /\ digits' = digits
      /\ replied' = replied /\ delivered' = delivered
  BY DEF readPacketRest
<1>2. PICK f, b, n : InRest(f, b, n)
  BY <1>0, <1>1 DEF Place
<1> DEFINE c == 1 + EncodedBytes(n)
<1>3. /\ AtPacket(f, b, n) /\ readbuf = <<f>> \o MQTTPacket_encode(n) /\ rem_len = n /\ Rest(c)
  BY <1>2 DEF InRest
<1>4. /\ EncodedBytes(n) \in 1 .. 4 /\ Len(Current) = c + n /\ c + n <= BufSize
      /\ \A i \in 1 .. n : Current[c + i] = b[i]
  BY <1>0, <1>3, PacketShape
<1>5. /\ n \in Nat /\ n <= MaxLength /\ f \in Byte /\ b \in Seq(Byte) /\ Len(b) = n
      /\ Current = Frame(f, b) /\ Len(delivered) < Len(replied)
  BY <1>3 DEF AtPacket
<1>6. c \in Nat /\ down \in Seq(Byte) /\ Len(down) \in Nat
  BY <1>0, <1>4, LenProperties, SMT DEF Delivered
<1> HIDE DEF c
<1>7. ASSUME NEW i \in 1 .. n PROVE down[0 + i] = b[i]
  <2>1. c + i \in Nat /\ c + i > c /\ c + i <= Len(Current) /\ (c + i) - c = 0 + i
    BY <1>4, <1>5, <1>6, SMT
  <2>2. down[(c + i) - c] = Current[c + i]
    BY <1>0, <1>3, <1>5, <2>1, NextByte
  <2> QED BY <1>4, <2>1, <2>2
<1>8. SubSeq(down, 1, n) = b
  <2>1. 0 + n <= Len(down) /\ 1 = 0 + 1 /\ n = 0 + n /\ 0 \in Nat
    BY <1>1, <1>3, <1>5, <1>6, SMT
  <2> QED BY <1>5, <1>6, <1>7, <2>1, SubSeqIs
<1>9. readbuf' = Current
  BY <1>1, <1>3, <1>5, <1>8, FrameConcat
<1>10. n \in 0 .. Len(down)
  BY <1>1, <1>3, <1>5, <1>6, SMT
<1>11. Rest(c + n)'
  BY <1>0, <1>1, <1>3, <1>10, RestTaken
<1>12. Current' = Current
  BY <1>1 DEF Current
<1>13. HasRead'
  BY <1>1, <1>4, <1>5, <1>9, <1>11, <1>12 DEF HasRead
<1>14. Delivered'
  BY <1>0, <1>1, <1>3, <1>10, TakenType
<1>15. Kept'
  <2>1. Packet(Current) /\ Len(Current) <= BufSize
    BY <1>0, <1>5, NextReply
  <2> QED BY <1>0, <1>1, <1>9, <2>1 DEF Kept, Packet, Text
<1>16. Place'
  BY <1>1, <1>13 DEF Place, OutOfPacket
<1> QED BY <1>14, <1>15, <1>16 DEF DownInv

LEMMA DownDeliver ==
  ASSUME DownInv, Deliver
  PROVE  DownInv'
<1> DEFINE k == Len(delivered)
           p == replied[k + 1]
<1>0. Kept /\ Delivered /\ Place
  BY DEF DownInv
<1>1. /\ pc = "read" /\ delivered' = Append(delivered, Deserialize(readbuf)) /\ pc' = "keepalive"
      /\ replied' = replied /\ down' = down
      /\ readbuf' = readbuf /\ rem_len' = rem_len /\ digits' = digits
  BY DEF Deliver, downward
<1>2. k < Len(replied) /\ readbuf = Current /\ Rest(Len(Current))
  BY <1>0, <1>1 DEF Place, HasRead
<1>3. k + 1 \in 1 .. Len(replied) /\ p \in Reply
  BY <1>0, <1>2, NextReply
<1>4. Deserialize(readbuf) = p
  BY <1>2, <1>3, AnswerPacket DEF Current
<1>5. /\ delivered \in Seq(Reply) /\ k \in Nat
  BY <1>0, LenProperties DEF Delivered
<1> HIDE DEF p
<1>6. /\ delivered' \in Seq(Reply) /\ Len(delivered') = k + 1 /\ delivered'[k + 1] = p
      /\ \A i \in 1 .. k : delivered'[i] = delivered[i]
  BY <1>1, <1>3, <1>4, <1>5, AppendProperties
<1>7. Stream(down, replied, k + 1, 0)
  BY <1>0, <1>2, RepliedPackets, StreamNext DEF Rest, Current
<1>8. Between'
  BY <1>1, <1>6, <1>7 DEF Between, Rest
<1>9. Place'
  BY <1>1, <1>8 DEF Place, OutOfPacket
<1>10. Kept'
  BY <1>0, <1>1 DEF Kept
<1> HIDE DEF k
<1>11. ASSUME NEW i \in 1 .. Len(delivered') PROVE delivered'[i] = replied'[i]
  <2>1. i = k + 1 \/ i \in 1 .. k
    BY <1>5, <1>6, SMT
  <2>2. \A j \in 1 .. k : delivered[j] = replied[j]
    BY <1>0 DEF Delivered, k
  <2>3. CASE i = k + 1
    BY <1>1, <1>6, <2>3 DEF p
  <2>4. CASE i \in 1 .. k
    BY <1>1, <1>6, <2>2, <2>4
  <2> QED BY <2>1, <2>3, <2>4
<1>12. Delivered'
  <2>1. Len(replied) \in Nat
    BY <1>0, LenProperties DEF Delivered
  <2>2. k + 1 <= Len(replied)
    BY <1>3, <1>5, <2>1, SMT
  <2> QED BY <1>0, <1>1, <1>6, <1>11, <2>2 DEF Delivered
<1> QED BY <1>9, <1>10, <1>12 DEF DownInv

LEMMA DownNext == DownInv /\ [Next]_vars => DownInv'
<1> SUFFICES ASSUME DownInv, [Next]_vars PROVE DownInv'
  OBVIOUS
<1>1. ASSUME NEW p \in Request, Send(p) PROVE DownInv'
  BY <1>1, DownSame DEF Send
<1>p. ASSUME NEW p \in Request, Ping(p) PROVE DownInv'
  <2>1. pc \in OutOfPacket /\ pc' \in OutOfPacket /\ UNCHANGED <<downward, reading>>
    BY <1>p DEF Ping, OutOfPacket
  <2> QED BY <2>1, DownSame
<1>n. CASE NoPing \/ DISCONNECTED
  <2>1. pc \in OutOfPacket /\ pc' \in OutOfPacket /\ UNCHANGED <<downward, reading>>
    BY <1>n DEF NoPing, DISCONNECTED, OutOfPacket
  <2> QED BY <2>1, DownSame
<1>2. CASE BrokerReads
  BY <1>2, DownSame DEF BrokerReads
<1>3. ASSUME NEW p \in Reply, BrokerSends(p) PROVE DownInv'
  BY <1>3, DownAdd
<1>4. CASE MQTTYield
  BY <1>4, DownSame DEF MQTTYield, OutOfPacket
<1>5. CASE MQTTYieldEnds
  BY <1>5, DownSame DEF MQTTYieldEnds, OutOfPacket
<1>6. CASE Cycle
  BY <1>6, DownSame DEF Cycle, OutOfPacket
<1>7. CASE readPacketNothing
  BY <1>7, DownSame DEF readPacketNothing, OutOfPacket
<1>8. CASE readPacketHeader
  BY <1>8, DownHeader
<1>9. CASE decodePacket
  BY <1>9, DownLength
<1>10. CASE readPacketRest
  BY <1>10, DownRest
<1>11. CASE ComesShort
  BY <1>11, DownSame DEF ComesShort
<1>12. CASE Deliver
  BY <1>12, DownDeliver
<1>13. CASE UNCHANGED vars
  BY <1>13, DownSame DEF vars
<1> QED
  BY <1>1, <1>p, <1>n, <1>2, <1>3, <1>4, <1>5, <1>6, <1>7, <1>8, <1>9, <1>10, <1>11, <1>12,
     <1>13
     DEF Next, readPacket

LEMMA DownMeans == DownInv => ReadAsSent
<1> SUFFICES ASSUME DownInv PROVE ReadAsSent
  OBVIOUS
<1>1. Delivered /\ Place
  BY DEF DownInv
<1>2. DOMAIN delivered = 1 .. Len(delivered)
  BY <1>1, LenProperties DEF Delivered
<1>3. pc \in OutOfPacket /\ down = << >> => Len(delivered) = Len(replied)
  BY <1>1, RepliedPackets, StreamEmpty DEF Place, Between, Rest
<1> QED BY <1>1, <1>2, <1>3 DEF ReadAsSent, Delivered, OutOfPacket

(* As long as no recv inside a packet comes short, the client has read     *)
(* exactly the packets of the broker, in order and unchanged, and between  *)
(* packets it is never in the middle of one                                *)
(* (MQTTClient.c:53-107, 218-240, MQTTPacket.c:101-117).                   *)
THEOREM AlwaysReadAsSent == Spec => []ReadAsSent
<1> QED BY DownInit, DownNext, DownMeans, PTL DEF Spec

(* What readPacket holds fits in mqtt_readbuf, whatever length a packet    *)
(* announces (MQTTClient.c:81-107).                                        *)
THEOREM TypeCorrect == Spec => []TypeOK
<1>1. UpInv /\ DownInv /\ TimeInv => TypeOK
  <2> SUFFICES ASSUME UpInv, DownInv, TimeInv PROVE TypeOK
    OBVIOUS
  <2>1. Text(up)
    BY StreamType DEF UpInv, Text
  <2>2. Kept /\ Text(down) /\ replied \in Seq(Reply)
    BY DEF DownInv, Delivered, Text
  <2>3. pc \in {"idle", "loop", "header", "length", "rest", "read", "keepalive", "lost",
                 "closed"}
    BY DEF DownInv, Place
  <2>4. now \in Tick /\ end_time \in Tick /\ elapsed \in Nat
    BY DEF TimeInv
  <2>5. timeout \in 0 .. YieldTime
    BY YieldAssumption, SMT DEF TimeInv
  <2>6. asked \in Seq(Request) /\ refused \subseteq Request
    BY DEF UpInv
  <2> QED BY <2>1, <2>2, <2>3, <2>4, <2>5, <2>6 DEF TypeOK, Kept
<1> QED BY <1>1, UpInit, UpNext, DownInit, DownNext, TimeInit, TimeNext, PTL DEF Spec
=============================================================================
