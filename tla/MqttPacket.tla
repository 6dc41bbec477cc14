----------------------------- MODULE MqttPacket -----------------------------
(***************************************************************************)
(* The packets of MQTT as the client writes and reads them: MQTTPacket.c,  *)
(* MQTTConnectClient.c, MQTTSerializePublish.c, MQTTDeserializePublish.c,  *)
(* MQTTSubscribeClient.c and MQTTUnsubscribeClient.c under                 *)
(* Microgear/MQTTClient.  A buffer is a sequence of bytes; the pointer     *)
(* that runs through it is an offset.  The loops over the bytes of a       *)
(* length are written by what they compute for up to four bytes.           *)
(*                                                                         *)
(* A packet is [type, id, strings, payload, retained]: a CONNECT has its   *)
(* keep-alive interval as id and client, user and password as strings, a   *)
(* SUBSCRIBE has the QoS it asks for as payload.                           *)
(***************************************************************************)
EXTENDS Integers, Sequences

Byte == 0 .. 255
Text(s) == s \in Seq(Byte)

CONNECT == 1
CONNACK == 2
PUBLISH == 3
SUBSCRIBE == 8
SUBACK == 9
UNSUBSCRIBE == 10
UNSUBACK == 11
PINGREQ == 12
PINGRESP == 13

-----------------------------------------------------------------------------
(* The remaining length: digits to the base 128, the smallest first, with  *)
(* the top bit set in each but the last.                                   *)
Weight == <<1, 128, 16384, 2097152>>
MaxLength == 268435455

EncodedBytes(length) ==
  IF length < 128 THEN 1 ELSE IF length < 16384 THEN 2 ELSE IF length < 2097152 THEN 3 ELSE 4

Digit(length, i) == (length \div Weight[i]) % 128

MQTTPacket_encode(length) ==
  [i \in 1 .. EncodedBytes(length) |->
     IF i < EncodedBytes(length) THEN 128 + Digit(length, i) ELSE Digit(length, i)]

(* The size of a packet with this remaining length, or one more.           *)
(* Mutant: the header byte is not counted.                                 *)
MQTTPacket_lenNoHeader(rem_len) == rem_len + EncodedBytes(rem_len)

MQTTPacket_len(rem_len) ==
  LET n == rem_len + 1 IN
  n + IF n < 128 THEN 1 ELSE IF n < 16384 THEN 2 ELSE IF n < 2097151 THEN 3 ELSE 4

(* One round of the loop of decodePacket and MQTTPacket_decode.            *)
(* Mutant: the top bit is taken for a digit.                               *)
DecodeByteUnmasked(c, k) == c * Weight[k]

DecodeByte(c, k) == (c % 128) * Weight[k]

(* MQTTPacket_decodeBuf at offset i: how many bytes, and the value.        *)
DecodedBytes(buf, i) ==
  IF buf[i] < 128 THEN 1 ELSE IF buf[i + 1] < 128 THEN 2 ELSE IF buf[i + 2] < 128 THEN 3 ELSE 4

DecodedValue(buf, i) ==
  LET digit(k) == IF k <= DecodedBytes(buf, i) THEN DecodeByte(buf[i + k - 1], k) ELSE 0
  IN  digit(1) + digit(2) + digit(3) + digit(4)

-----------------------------------------------------------------------------
(* The fields of a packet.                                                 *)
writeInt(n) == <<(n \div 256) % 256, n % 256>>

(* Mutant: the bytes are taken in the other order.                         *)
readIntSwapped(buf, i) == buf[i] + 256 * buf[i + 1]

readInt(buf, i) == 256 * buf[i] + buf[i + 1]

writeMQTTString(s) == writeInt(Len(s)) \o s

MQTTHeader(type, qos, retain) == 16 * type + 2 * qos + retain

(* The lengths that the serializers compute, compare with their buffer and *)
(* write, before they write the rest.                                      *)
RemainingLength(p) ==
  CASE p.type = CONNECT -> 12 + Len(p.strings[1]) + 2 + Len(p.strings[2]) + 2
                             + Len(p.strings[3]) + 2
    [] p.type = PUBLISH -> 2 + Len(p.strings[1]) + Len(p.payload)
    [] p.type = SUBSCRIBE -> 2 + 2 + Len(p.strings[1]) + 1
    [] p.type = UNSUBSCRIBE -> 2 + 2 + Len(p.strings[1])
    [] p.type = PINGREQ -> 0

(* MQTTPACKET_BUFFER_TOO_SHORT, the one failure of a serializer.           *)
TooShort(p, buflen) == MQTTPacket_len(RemainingLength(p)) > buflen

Begin(p, qos) ==
  <<MQTTHeader(p.type, qos, p.retained)>> \o MQTTPacket_encode(RemainingLength(p))

MQTTSerialize_publish(p) == Begin(p, 0) \o (writeMQTTString(p.strings[1]) \o p.payload)

MQTTSerialize_subscribe(p) ==
  Begin(p, 1) \o (writeInt(p.id) \o writeMQTTString(p.strings[1]) \o p.payload)

MQTTSerialize_unsubscribe(p) ==
  Begin(p, 1) \o (writeInt(p.id) \o writeMQTTString(p.strings[1]))

MQTTSerialize_zero(p) == Begin(p, 0)

(* Version 3 of the protocol, a clean session, a user and a password.      *)
MQIsdp == <<77, 81, 73, 115, 100, 112>>
MQTTConnectFlags == 128 + 64 + 2

MQTTSerialize_connect(p) ==
  Begin(p, 0)
    \o (writeMQTTString(MQIsdp) \o <<3, MQTTConnectFlags>> \o writeInt(p.id)
          \o writeMQTTString(p.strings[1]) \o writeMQTTString(p.strings[2])
          \o writeMQTTString(p.strings[3]))

Serialize(p) ==
  CASE p.type = CONNECT -> MQTTSerialize_connect(p)
    [] p.type = PUBLISH -> MQTTSerialize_publish(p)
    [] p.type = SUBSCRIBE -> MQTTSerialize_subscribe(p)
    [] p.type = UNSUBSCRIBE -> MQTTSerialize_unsubscribe(p)
    [] p.type = PINGREQ -> MQTTSerialize_zero(p)

-----------------------------------------------------------------------------
(* What is read from a packet in readbuf; a field that a type does not     *)
(* have is empty.                                                          *)
Type(buf) == buf[1] \div 16
Start(buf) == 2 + DecodedBytes(buf, 2)
End(buf) == Start(buf) + DecodedValue(buf, 2) - 1

Failure == [type |-> -1, id |-> 0, strings |-> << >>, payload |-> << >>, retained |-> 0]

(* The packet is too short for its fields.  The code returns the number of *)
(* bytes of its length: when that is 1, it means success to the caller,    *)
(* with outputs that nobody has set.                                       *)
Unset == [Failure EXCEPT !.type = -2]
TooFew(buf) == IF DecodedBytes(buf, 2) = 1 THEN Unset ELSE Failure

(* readMQTTLenString, then the payload is the rest (QoS 0).                *)
MQTTDeserialize_publish(buf) ==
  LET from == Start(buf)
      to == from + 1 + readInt(buf, from)
  IN  IF End(buf) - from + 1 > 1 /\ to <= End(buf)
        THEN [type |-> PUBLISH, id |-> 0, strings |-> <<SubSeq(buf, from + 2, to)>>,
              payload |-> SubSeq(buf, to + 1, End(buf)), retained |-> buf[1] % 2]
        ELSE TooFew(buf)

(* Acks begin with the packet id; a SUBACK goes on with the granted QoS.   *)
MQTTDeserialize_ack(buf) ==
  IF End(buf) - Start(buf) + 1 < 2
    THEN TooFew(buf)
    ELSE [type |-> Type(buf), id |-> readInt(buf, Start(buf)), strings |-> << >>,
          payload |-> SubSeq(buf, Start(buf) + 2, End(buf)), retained |-> 0]

(* The session present flag, which nobody uses, and the return code.       *)
MQTTDeserialize_connack(buf) ==
  IF End(buf) - Start(buf) + 1 < 2
    THEN TooFew(buf)
    ELSE [type |-> CONNACK, id |-> 0, strings |-> << >>,
          payload |-> <<buf[Start(buf) + 1]>>, retained |-> 0]

Deserialize(buf) ==
  CASE Type(buf) = PUBLISH -> MQTTDeserialize_publish(buf)
    [] Type(buf) \in {SUBACK, UNSUBACK} -> MQTTDeserialize_ack(buf)
    [] Type(buf) = CONNACK -> MQTTDeserialize_connack(buf)
    [] Type(buf) = PINGRESP -> [Failure EXCEPT !.type = PINGRESP]
=============================================================================
