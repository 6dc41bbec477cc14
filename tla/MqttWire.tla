------------------------------ MODULE MqttWire ------------------------------
(***************************************************************************)
(* The bytes between the client and the broker.  The client serializes a   *)
(* request into its buffer and sends it (MQTTPublish, MQTTSubscribe, ...   *)
(* of MQTTClient.c); the broker takes packets out of the stream by the     *)
(* rules of MQTT.  The other way, MQTTYield calls readPacket, which takes  *)
(* the header, the bytes of the length and the rest with one recv each,    *)
(* until its timer has expired.  recv returns what has arrived.            *)
(*                                                                         *)
(* When a recv comes short or late inside a packet, the client loses its   *)
(* place in the stream: MqttSession goes on from there, this module stops. *)
(* The client's buffers have one size, and the broker sends nothing that   *)
(* is longer.                                                              *)
(***************************************************************************)
EXTENDS MqttPacket, Ticks

CONSTANTS Request,   \* the packets the client may want to send
          Reply,     \* the packets the broker may send
          BufSize,   \* size of mqtt_buf and mqtt_readbuf (100)
          YieldTime, \* timeout of MQTTYield, in ticks
          PingTime,  \* timeout of the ping in keepalive
          MaxPacket  \* bound: how many packets in all

(* The texts of a request are sequences of bytes, as many as its type has. *)
Askable(p) ==
  /\ p.type \in {CONNECT, PUBLISH, SUBSCRIBE, UNSUBSCRIBE, PINGREQ}
  /\ p.id \in Nat /\ p.retained \in 0 .. 1
  /\ p.type = CONNECT => Text(p.strings[1]) /\ Text(p.strings[2]) /\ Text(p.strings[3])
  /\ p.type \in {PUBLISH, SUBSCRIBE, UNSUBSCRIBE} => Text(p.strings[1])
  /\ p.type = PUBLISH => Text(p.payload)
  /\ p.type = SUBSCRIBE => Text(p.payload) /\ Len(p.payload) = 1

(* Packet ids and the keep-alive interval are unsigned short, a text has a *)
(* length of two bytes, and only a PUBLISH is ever retained.               *)
Representable(p) ==
  /\ p.id < 65536
  /\ p.type # PINGREQ => Len(p.strings[1]) < 65536
  /\ p.type = CONNECT => Len(p.strings[2]) < 65536 /\ Len(p.strings[3]) < 65536
  /\ p.type # PUBLISH => p.retained = 0

ASSUME RequestAssumption == \A p \in Request : Askable(p) /\ Representable(p)
ASSUME SizeAssumption == BufSize \in Nat \ {0} /\ BufSize <= MaxLength
ASSUME YieldAssumption ==
  YieldTime \in Nat /\ PingTime \in Nat /\ 4 * YieldTime + PingTime + 2 < Half

VARIABLES
  asked,      \* the requests that were sent
  refused,    \* those that did not fit
  up,         \* the stream to the broker
  understood, \* what the broker took out of it
  replied,    \* the packets of the broker
  down,       \* the stream from the broker
  pc,         \* where the client is
  readbuf, rem_len, digits, \* of readPacket: digits is len of decodePacket
  delivered,  \* what it read
  now,        \* the tick counter
  end_time,   \* of the timer of MQTTYield, while it runs
  timeout,    \* of decodePacket, while it runs
  elapsed     \* history: ticks the last MQTTYield has lasted

upward == <<asked, refused, up, understood>>
downward == <<replied, down>>
reading == <<readbuf, rem_len, digits, delivered>>
time == <<now, end_time, timeout, elapsed>>
vars == <<upward, downward, pc, reading, time>>

Init ==
  /\ asked = << >> /\ refused = {} /\ up = << >> /\ understood = << >>
  /\ replied = << >> /\ down = << >>
  /\ pc = "idle"
  /\ readbuf = << >> /\ rem_len = 0 /\ digits = 0 /\ delivered = << >>
  /\ now \in Tick /\ end_time = 0 /\ timeout = 0 /\ elapsed = YieldTime + 1

More == Len(asked) + Len(replied) < MaxPacket

-----------------------------------------------------------------------------
(* The client serializes a request and sends it.                           *)
Post(p) ==
  /\ More
  /\ \/ /\ ~TooShort(p, BufSize)
        /\ asked' = Append(asked, p)
        /\ up' = up \o Serialize(p)
        /\ UNCHANGED refused
     \/ /\ TooShort(p, BufSize)
        /\ refused' = refused \cup {p}
        /\ UNCHANGED <<asked, up>>
  /\ UNCHANGED understood

(* A call of MQTTConnect, MQTTPublish, ...                                 *)
Send(p) ==
  /\ pc = "idle" /\ p.type # PINGREQ
  /\ Post(p)
  /\ UNCHANGED <<downward, pc, reading, time>>

(* The broker, by the rules of MQTT 3.1.  A length has one to four bytes,  *)
(* to the base 128, all but the last of them 128 or more.                  *)
LengthBytes(n) ==
  CASE n < 128 -> <<n>>
    [] n >= 128 /\ n < 16384 -> <<128 + (n % 128), n \div 128>>
    [] n >= 16384 /\ n < 2097152 ->
         <<128 + (n % 128), 128 + ((n \div 128) % 128), n \div 16384>>
    [] OTHER -> <<128 + (n % 128), 128 + ((n \div 128) % 128),
                  128 + ((n \div 16384) % 128), n \div 2097152>>
Length(s) ==
  CASE s[2] < 128 -> s[2]
    [] s[2] >= 128 /\ s[3] < 128 -> (s[2] - 128) + 128 * s[3]
    [] s[2] >= 128 /\ s[3] >= 128 /\ s[4] < 128 ->
         (s[2] - 128) + 128 * (s[3] - 128) + 16384 * s[4]
    [] OTHER -> (s[2] - 128) + 128 * (s[3] - 128) + 16384 * (s[4] - 128) + 2097152 * s[5]
Body(s) == LET from == 2 + Len(LengthBytes(Length(s)))
           IN  SubSeq(s, from, from + Length(s) - 1)
Frame(first, body) == <<first>> \o LengthBytes(Len(body)) \o body
Size(p) == 1 + Len(LengthBytes(RemainingLength(p))) + RemainingLength(p)

String(s) == <<Len(s) \div 256, Len(s) % 256>> \o s
Id(p) == <<p.id \div 256, p.id % 256>>
ConnectFields == <<0, 6, 77, 81, 73, 115, 100, 112, 3, 194>>

(* What each packet of the client is, as the broker's side knows it.       *)
Standard(p) ==
  CASE p.type = CONNECT -> Frame(16, ConnectFields \o Id(p) \o String(p.strings[1])
                                       \o String(p.strings[2]) \o String(p.strings[3]))
    [] p.type = PUBLISH -> Frame(48 + p.retained, String(p.strings[1]) \o p.payload)
    [] p.type = SUBSCRIBE -> Frame(130, Id(p) \o String(p.strings[1]) \o p.payload)
    [] p.type = UNSUBSCRIBE -> Frame(162, Id(p) \o String(p.strings[1]))
    [] p.type = PINGREQ -> <<192, 0>>
    [] p.type = CONNACK -> Frame(32, <<0>> \o p.payload)
    [] p.type = SUBACK -> Frame(144, Id(p) \o p.payload)
    [] p.type = UNSUBACK -> Frame(176, Id(p))
    [] p.type = PINGRESP -> <<208, 0>>

(* What the broker may send: the packets that a client of QoS 0 gets, none *)
(* of them longer than the client's buffer.                                *)
Answerable(p) ==
  /\ p = [type |-> p.type, id |-> p.id, strings |-> p.strings, payload |-> p.payload,
          retained |-> p.retained]
  /\ p.type \in {CONNACK, PUBLISH, SUBACK, UNSUBACK, PINGRESP}
  /\ p.id \in Nat /\ p.id < 65536 /\ Text(p.payload) /\ p.retained \in 0 .. 1
  /\ p.type \notin {SUBACK, UNSUBACK} => p.id = 0
  /\ IF p.type = PUBLISH
       THEN /\ p.strings = <<p.strings[1]>> /\ Text(p.strings[1])
            /\ Len(p.strings[1]) < 65536
       ELSE p.strings = << >> /\ p.retained = 0
  /\ p.type \in {CONNACK, SUBACK} => Len(p.payload) = 1
  /\ p.type \in {UNSUBACK, PINGRESP} => p.payload = << >>
  /\ Len(Standard(p)) <= BufSize

ASSUME ReplyAssumption == \A p \in Reply : Answerable(p)

BrokerReads ==
  /\ up # << >>
  /\ LET body == Body(up)
         packet == Frame(up[1], body)
     IN  /\ understood' = Append(understood, packet)
         /\ up' = SubSeq(up, Len(packet) + 1, Len(up))
  /\ UNCHANGED <<asked, refused, downward, pc, reading, time>>

BrokerSends(p) ==
  /\ More
  /\ replied' = Append(replied, p)
  /\ down' = down \o Standard(p)
  /\ UNCHANGED <<upward, pc, reading, time>>

-----------------------------------------------------------------------------
(* MQTTYield.                                                              *)
MQTTYield ==
  /\ pc = "idle"
  /\ end_time' = countdown(now, YieldTime)
  /\ elapsed' = 0
  /\ pc' = "loop"
  /\ UNCHANGED <<upward, downward, reading, now, timeout>>

MQTTYieldEnds ==
  /\ pc = "loop" /\ expired(end_time, now)
  /\ end_time' = 0
  /\ pc' = "idle"
  /\ UNCHANGED <<upward, downward, reading, now, timeout, elapsed>>

Cycle ==
  /\ pc = "loop" /\ ~expired(end_time, now)
  /\ pc' = "header"
  /\ UNCHANGED <<upward, downward, reading, time>>

(* Up to d ticks pass.                                                     *)
Pass(d) ==
  /\ \E k \in 0 .. d : now' = Plus(now, k) /\ elapsed' = elapsed + k
  /\ UNCHANGED end_time

(* A select gets its bytes within its timeout, or ends without, at most a  *)
(* tick later.                                                             *)
Came(limit) == Pass(limit)
Late(limit) == Pass(limit + 1)

readPacketNothing ==
  /\ pc = "header"
  /\ Late(left_ms(end_time, now))
  /\ pc' = "keepalive"
  /\ UNCHANGED <<upward, downward, reading, timeout>>

readPacketHeader ==
  /\ pc = "header" /\ down # << >>
  /\ Came(left_ms(end_time, now))
  /\ timeout' = left_ms(end_time, now')
  /\ readbuf' = <<Head(down)>>
  /\ down' = Tail(down)
  /\ rem_len' = 0 /\ digits' = 0
  /\ pc' = "length"
  /\ UNCHANGED <<upward, replied, delivered>>

(* Every byte of the length may take the timeout that decodePacket got.    *)
decodePacket ==
  /\ pc = "length" /\ down # << >>
  /\ Came(timeout)
  /\ digits' = digits + 1
  /\ rem_len' = rem_len + DecodeByte(Head(down), digits + 1)
  /\ down' = Tail(down)
  /\ \/ /\ Head(down) >= 128 /\ digits + 1 < 4
        /\ UNCHANGED <<pc, readbuf, timeout>>
     \/ /\ Head(down) < 128 \/ digits + 1 = 4
        /\ readbuf' = readbuf \o MQTTPacket_encode(rem_len')
        /\ pc' = IF rem_len' > 0 THEN "rest" ELSE "read"
        /\ timeout' = 0
  /\ UNCHANGED <<upward, replied, delivered>>

readPacketRest ==
  /\ pc = "rest" /\ Len(down) >= rem_len
  /\ Came(left_ms(end_time, now))
  /\ readbuf' = readbuf \o SubSeq(down, 1, rem_len)
  /\ down' = SubSeq(down, rem_len + 1, Len(down))
  /\ pc' = "read"
  /\ UNCHANGED <<upward, replied, rem_len, digits, delivered, timeout>>

(* A recv inside the packet found too little in time.                      *)
ComesShort ==
  /\ pc \in {"length", "rest"}
  /\ Late(IF pc = "length" THEN timeout ELSE left_ms(end_time, now))
  /\ pc' = "lost"
  /\ UNCHANGED <<upward, downward, reading, timeout>>

(* What cycle, or the call that waits for the answer, makes of it.         *)
Deliver ==
  /\ pc = "read"
  /\ delivered' = Append(delivered, Deserialize(readbuf))
  /\ pc' = "keepalive"
  /\ UNCHANGED <<upward, downward, readbuf, rem_len, digits, time>>

-----------------------------------------------------------------------------
(* keepalive, at the end of cycle: when it is due, a ping, sent or not     *)
(* within its time, or the alarm, upon which MQTTYield returns at once.    *)
Ping(p) ==
  /\ pc = "keepalive" /\ p.type = PINGREQ
  /\ Post(p)
  /\ Came(PingTime)
  /\ pc' = "loop"
  /\ UNCHANGED <<downward, reading, timeout>>

NoPing ==
  /\ pc = "keepalive"
  /\ Late(PingTime)
  /\ pc' = "loop"
  /\ UNCHANGED <<upward, downward, reading, timeout>>

DISCONNECTED ==
  /\ pc = "keepalive"
  /\ pc' = "closed"
  /\ UNCHANGED <<upward, downward, reading, time>>

readPacket ==
  readPacketNothing \/ readPacketHeader \/ decodePacket \/ readPacketRest \/ ComesShort

Next ==
  \/ \E p \in Request : Send(p) \/ Ping(p)
  \/ BrokerReads
  \/ \E p \in Reply : BrokerSends(p)
  \/ MQTTYield \/ MQTTYieldEnds \/ Cycle \/ readPacket \/ Deliver
  \/ NoPing \/ DISCONNECTED

Spec == Init /\ [][Next]_vars

-----------------------------------------------------------------------------
(* What readPacket holds fits in mqtt_readbuf, every byte is one, and      *)
(* pc, the lengths and the ticks keep their types.                         *)
TypeOK ==
  /\ Text(up) /\ Text(down) /\ Text(readbuf) /\ Len(readbuf) <= BufSize
  /\ asked \in Seq(Request) /\ refused \subseteq Request /\ replied \in Seq(Reply)
  /\ pc \in {"idle", "loop", "header", "length", "rest", "read", "keepalive", "lost",
            "closed"}
  /\ rem_len \in 0 .. BufSize /\ digits \in 0 .. 4
  /\ now \in Tick /\ end_time \in Tick /\ timeout \in 0 .. YieldTime
  /\ elapsed \in Nat

(* A request that was sent fitted in mqtt_buf.                             *)
Fitted == \A i \in DOMAIN asked : Len(Serialize(asked[i])) <= BufSize

(* The broker understands every request as it was asked, in order, and     *)
(* what it has not read yet is the rest of them; a request is written only *)
(* where it fits, and refused only when its buffer has no byte to spare.   *)
Understood ==
  /\ Len(understood) <= Len(asked)
  /\ \A i \in DOMAIN understood : understood[i] = Standard(asked[i])
  /\ Len(understood) = Len(asked) => up = << >>
  /\ Fitted
  /\ \A p \in refused : Size(p) >= BufSize

(* As long as no recv inside a packet comes short, the client reads the    *)
(* packets of the broker as they were sent, each once and in order,        *)
(* whatever their lengths and wherever a yield ends between them.          *)
ReadAsSent ==
  /\ Len(delivered) <= Len(replied)
  /\ \A i \in DOMAIN delivered : delivered[i] = replied[i]
  /\ pc \in {"idle", "loop", "keepalive", "closed"} /\ down = << >> => Len(delivered) = Len(replied)

(* MQTTYield lasts its time, unless keepalive raises the alarm, and it     *)
(* lasts longer only by a last ping and, for each byte of a length but the *)
(* first, once more its time, though the tick counter may wrap in between. *)
Stretch == (IF digits > 1 THEN digits ELSE 1) * YieldTime

YieldOnTime ==
  /\ pc = "idle" => elapsed > YieldTime
  /\ pc \in {"idle", "closed"} => elapsed <= Stretch + 1 + PingTime + 1
=============================================================================
