----------------------------- MODULE MqttSession -----------------------------
(***************************************************************************)
(* Microgear/MQTTClient/MQTTClient.c under the loop of mqtt_task: a client *)
(* that sends one request at a time and waits for its answer, reads what   *)
(* the broker sends, and declares the connection broken when pings stay    *)
(* unanswered.  The connection is TCP: ordered and reliable, but a read    *)
(* may get the first part of a packet only.                                *)
(*                                                                         *)
(* Timers are what is left of them in ticks; a timer expires below zero    *)
(* (MQTTESP8266.c:37).  A tick stands for the five seconds of the command  *)
(* timeout; the second that a ping may take to send is less than a tick.   *)
(***************************************************************************)
EXTENDS Integers, Sequences, FiniteSets

CONSTANTS
  MAX_FAIL_ALLOWED, \* unanswered keep-alive periods before the alarm (2)
  MAX_PACKET_ID,    \* packet ids wrap here (65535)
  KeepAlive,        \* keepAliveInterval, in ticks (15 s)
  CommandTimeout,   \* command_timeout_ms, in ticks (5 s)
  YieldTime,        \* the argument of MQTTYield, in ticks (1 s)
  Lag,              \* a live broker answers all it received within Lag ticks
  MaxRequest,       \* bound: requests in all
  MaxPublish,       \* bound: messages of the broker in all
  MaxPart,          \* bound: packets that arrive in parts
  MaxSession        \* bound: connections in all

ASSUME DefineAssumption == {MAX_FAIL_ALLOWED, MAX_PACKET_ID} \subseteq Nat \ {0}
(* A yield is no longer than the time a request may take (1 s and 5 s).   *)
ASSUME TimeAssumption ==
  {KeepAlive, CommandTimeout, YieldTime, Lag} \subseteq Nat /\ YieldTime <= CommandTimeout
(* A live broker answers within a keep-alive interval.                     *)
ASSUME LagAssumption == Lag <= KeepAlive
(* One failure is not yet the alarm (MQTTClient.h:25 says 2): with 1, a    *)
(* send that takes long is one, the answer to the ping read too late.      *)
ASSUME AllowedAssumption == MAX_FAIL_ALLOWED > 1

VARIABLES
  pc,       \* where mqtt_task is in the code below
  call,     \* the request it waits for, or "YIELD"
  timer,    \* the timer of this call
  c,        \* the fields of MQTTClient
  packet,   \* what readPacket returned and left in readbuf
  out, in,  \* the connection, to the broker and from it
  alive,    \* the broker answers
  waiting,  \* ticks since the broker has something to answer
  requests, published, sessions, parts, \* counted against the bounds
  silent,   \* history: ticks since the last packet of the broker
  tried,    \* history: requests and acks it tried to send since then
  late,     \* history: requests of this session that timed out
  pingLost, \* history: a ping of this session could not be tried
  garbled   \* history: a packet of this session arrived in parts

task == <<pc, call, timer, c, packet>>
network == <<out, in, alive, waiting>>
bounds == <<requests, published, sessions, parts>>
history == <<silent, tried, late, pingLost, garbled>>
vars == <<task, network, bounds, history>>

Request == {"SUBSCRIBE", "UNSUBSCRIBE"}
Call == Request \cup {"CONNECT", "YIELD"}
Answer == [SUBSCRIBE |-> "SUBACK", UNSUBSCRIBE |-> "UNSUBACK", CONNECT |-> "CONNACK"]
FromBroker == {"CONNACK", "SUBACK", "UNSUBACK", "PUBLISH", "PINGRESP"}
PacketId == 0 .. MAX_PACKET_ID

(* A packet; ok is the return code of a CONNACK, the granted QoS of a      *)
(* SUBACK.  "none" is readPacket's FAILURE, "garbage" what is left of a    *)
(* packet whose first part was taken for all of it.                        *)
Packet(type, id, ok) == [type |-> type, id |-> id, ok |-> ok]
None == Packet("none", 0, FALSE)
Garbage == Packet("garbage", 0, FALSE)

NewMQTTClient(id) ==
  [isconnected |-> FALSE, ping_outstanding |-> FALSE, fail_count |-> 0,
   next_packetid |-> id, ping_timer |-> KeepAlive]

Init ==
  /\ pc = "open" /\ call = "CONNECT" /\ timer = -1
  /\ c = NewMQTTClient(0) /\ packet = None
  /\ out = << >> /\ in = << >> /\ alive = FALSE /\ waiting = 0
  /\ requests = 0 /\ published = 0 /\ sessions = 0 /\ parts = 0
  /\ silent = 0 /\ tried = 0 /\ late = {} /\ pingLost = FALSE /\ garbled = FALSE

-----------------------------------------------------------------------------
Left(ticks, d) == IF ticks - d < -1 THEN -1 ELSE ticks - d

(* d ticks pass: not more than a live broker takes.                        *)
Elapse(d) ==
  /\ alive /\ out # << >> => waiting + d <= Lag
  /\ waiting' = IF alive /\ out # << >> THEN waiting + d ELSE 0
  /\ silent' = silent + d

Transmit(p) == out' = IF alive THEN Append(out, p) ELSE out

getNextPacketId == IF c.next_packetid = MAX_PACKET_ID THEN 1 ELSE c.next_packetid + 1

StartYield == pc' = "read" /\ call' = "YIELD" /\ timer' = YieldTime

-----------------------------------------------------------------------------
(* mqtt_task: a connection and MQTTConnect.  ping_timer is armed before    *)
(* the CONNECT is tried and again after.                                    *)
Open ==
  /\ pc = "open" /\ sessions < MaxSession
  /\ sessions' = sessions + 1
  /\ c' = NewMQTTClient(c.next_packetid)
  /\ packet' = None
  /\ alive' = TRUE
  /\ call' = "CONNECT" /\ timer' = CommandTimeout
  /\ \/ out' = <<Packet("CONNECT", 0, TRUE)>> /\ pc' = "read"
     \/ out' = << >> /\ pc' = "close"
  /\ UNCHANGED <<in, waiting, requests, published, parts, history>>

(* DisconnectNetwork; the next connection is another one.                  *)
DisconnectNetwork ==
  /\ pc = "close"
  /\ pc' = "open"
  /\ out' = << >> /\ in' = << >> /\ alive' = FALSE /\ waiting' = 0
  /\ silent' = 0 /\ tried' = 0 /\ late' = {} /\ pingLost' = FALSE /\ garbled' = FALSE
  /\ UNCHANGED <<call, timer, c, packet, bounds>>

(* MQTTPublish with QoS 0: nothing to wait for.                            *)
SendPublish ==
  /\ Transmit(Packet("PUBLISH", 0, TRUE))
  /\ c' = [c EXCEPT !.ping_timer = KeepAlive]
  /\ tried' = tried + 1
  /\ UNCHANGED <<pc, call, timer>>

(* MQTTSubscribe and MQTTUnsubscribe.  Sending takes d ticks of the timer. *)
SendRequest(type, d) ==
  /\ Transmit(Packet(type, getNextPacketId, TRUE))
  /\ c' = [c EXCEPT !.next_packetid = getNextPacketId, !.ping_timer = KeepAlive]
  /\ tried' = tried + 1
  /\ call' = type /\ timer' = CommandTimeout - d /\ pc' = "read"

(* sendPacket fails: mqtt_task stops reading its queue.                    *)
SendFails(type, d) ==
  /\ c' = [c EXCEPT
       !.next_packetid = IF type \in Request THEN getNextPacketId ELSE @,
       !.ping_timer = Left(@, d)]
  /\ tried' = tried + 1
  /\ StartYield
  /\ UNCHANGED out

TakeRequest ==
  /\ pc = "queue" /\ requests < MaxRequest
  /\ requests' = requests + 1
  /\ \E d \in 0 .. CommandTimeout, type \in Request \cup {"PUBLISH"} :
       /\ Elapse(d)
       /\ \/ type = "PUBLISH" /\ SendPublish
          \/ type \in Request /\ SendRequest(type, d)
          \/ SendFails(type, d)
  /\ UNCHANGED <<packet, in, alive, published, sessions, parts, late, pingLost, garbled>>

(* The queue is empty: MQTTYield.                                          *)
NoRequest ==
  /\ pc = "queue"
  /\ StartYield
  /\ UNCHANGED <<c, packet, network, bounds, history>>

-----------------------------------------------------------------------------
(* cycle: readPacket and the switch on its result.                         *)
Reading == pc = "read" /\ timer >= 0

(* Mutant: the ping stays outstanding.                                     *)
HandledKeepsPing(type) ==
  IF type = "PINGRESP" THEN [c EXCEPT !.fail_count = 0] ELSE c

Handled(type) ==
  IF type = "PINGRESP" THEN [c EXCEPT !.ping_outstanding = FALSE, !.fail_count = 0]
  ELSE c

Heard == silent' = 0 /\ tried' = 0

ReadPacket ==
  /\ Reading /\ in # << >> /\ Head(in) # Garbage
  /\ packet' = Head(in) /\ in' = Tail(in)
  /\ c' = Handled(Head(in).type)
  /\ pc' = "keepalive"
  /\ Heard
  /\ UNCHANGED <<call, timer, out, alive, waiting, bounds, late, pingLost, garbled>>

TakenFor(p) == packet' = p /\ c' = Handled(p.type) /\ pc' = "keepalive"
Leaves(next) == packet' = None /\ pc' = next /\ UNCHANGED c

(* Only the header byte has arrived: decodePacket fails, readPacket takes  *)
(* the packet for an empty one, with what an earlier one left in readbuf;  *)
(* for a PUBLISH, deliverMessage then reads a topic that was never set,    *)
(* and may crash.  Or the body is not complete: readPacket fails.  The     *)
(* rest follows.                                                           *)
ReadPart ==
  /\ Reading /\ in # << >> /\ Head(in) # Garbage
  /\ parts < MaxPart /\ parts' = parts + 1
  /\ garbled' = TRUE
  /\ in' = <<Garbage>> \o Tail(in)
  /\ \/ \E ok \in BOOLEAN : TakenFor(Packet(Head(in).type, 0, ok))
     \/ Head(in).type = "PUBLISH" /\ Leaves("crashed")
     \/ TakenFor(None)
  /\ Heard
  /\ UNCHANGED <<call, timer, out, alive, waiting, requests, published, sessions,
                 late, pingLost>>

(* The rest is read as a packet of any type, which may take the packets    *)
(* behind it, or parts of them, for its body.  Its id is never looked at.  *)
(* A PUBREC, or a PUBLISH of a QoS above 0, is acknowledged; one that      *)
(* cannot be, or a PUBLISH that cannot be decoded and has a length of more *)
(* than one byte, skips keepalive; with one byte, or with a length beyond  *)
(* readbuf, the task may crash.                                            *)
ReadGarbage ==
  /\ Reading /\ in # << >> /\ Head(in) = Garbage
  /\ \E n \in 2 .. Len(in) + 1 :
       \/ in' = SubSeq(in, n, Len(in))
       \/ n > 2 /\ in' = <<Garbage>> \o SubSeq(in, n, Len(in))
  /\ \/ \E type \in FromBroker \cup {"none"}, ok \in BOOLEAN : TakenFor(Packet(type, 0, ok))
     \/ \E next \in {"ack", "read", "crashed"} : Leaves(next)
  /\ Heard
  /\ UNCHANGED <<call, timer, out, alive, waiting, bounds, late, pingLost, garbled>>

(* The ack takes d ticks of the timer; when it fails, keepalive is skipped.*)
SendAck ==
  /\ pc = "ack"
  /\ \E d \in 0 .. timer :
       /\ Elapse(d) /\ timer' = timer - d
       /\ \/ /\ Transmit(Packet("ACK", 0, TRUE))
             /\ c' = [c EXCEPT !.ping_timer = KeepAlive]
             /\ pc' = "keepalive"
          \/ /\ c' = [c EXCEPT !.ping_timer = Left(@, d)]
             /\ pc' = "read"
             /\ UNCHANGED out
  /\ tried' = tried + 1
  /\ UNCHANGED <<call, packet, in, alive, bounds, late, pingLost, garbled>>

ReadNothing ==
  /\ Reading /\ in = << >>
  /\ Elapse(1)
  /\ timer' = Left(timer, 1)
  /\ c' = [c EXCEPT !.ping_timer = Left(@, 1)]
  /\ packet' = None
  /\ pc' = "keepalive"
  /\ UNCHANGED <<call, out, in, alive, bounds, tried, late, pingLost, garbled>>

readPacket == ReadPacket \/ ReadPart \/ ReadGarbage \/ SendAck \/ ReadNothing

-----------------------------------------------------------------------------
(* cycle: keepalive, if connected, and its result.                         *)
Due == c.isconnected /\ c.ping_timer < 0

(* Mutant: the alarm comes above MAX_FAIL_ALLOWED failures only.           *)
LastChanceAbove == c.fail_count + 1 > MAX_FAIL_ALLOWED

LastChance == c.fail_count + 1 >= MAX_FAIL_ALLOWED

(* Mutant: every request waits for a SUBACK.                               *)
AnsweredBySuback ==
  \/ call = "CONNECT" /\ packet.type = "CONNACK"
  \/ call \in Request /\ packet.type = "SUBACK"

Answered == call # "YIELD" /\ packet.type = Answer[call]

Proceed ==
  \/ Answered /\ pc' = "answer" /\ UNCHANGED packet
  \/ ~Answered /\ pc' = "read" /\ packet' = None

NotDue ==
  /\ pc = "keepalive" /\ ~Due
  /\ Proceed
  /\ UNCHANGED <<call, timer, c, network, bounds, history>>

Ping ==
  /\ pc = "keepalive" /\ Due /\ ~c.ping_outstanding
  /\ c' = [c EXCEPT !.ping_outstanding = TRUE, !.ping_timer = KeepAlive]
  /\ \/ Transmit(Packet("PINGREQ", 0, TRUE)) /\ UNCHANGED pingLost
     \/ pingLost' = TRUE /\ UNCHANGED out
  /\ Proceed
  /\ UNCHANGED <<call, timer, in, alive, waiting, bounds, silent, tried, late, garbled>>

(* Mutant: the failure is not counted.                                     *)
PingFailedForgotten ==
  /\ pc = "keepalive" /\ Due /\ c.ping_outstanding /\ ~LastChance
  /\ c' = [c EXCEPT !.ping_timer = KeepAlive]
  /\ Proceed
  /\ UNCHANGED <<call, timer, network, bounds, history>>

PingFailed ==
  /\ pc = "keepalive" /\ Due /\ c.ping_outstanding /\ ~LastChance
  /\ c' = [c EXCEPT !.fail_count = @ + 1, !.ping_timer = KeepAlive]
  /\ Proceed
  /\ UNCHANGED <<call, timer, network, bounds, history>>

(* DISCONNECTED: MQTTYield returns it, and mqtt_task closes the            *)
(* connection.  waitfor does not look at it, nor at the packet that was    *)
(* read; ping_timer stays expired.  From here fail_count only grows, which *)
(* LastChance does not tell apart.                                         *)
Disconnected ==
  /\ pc = "keepalive" /\ Due /\ c.ping_outstanding /\ LastChance
  /\ c' = [c EXCEPT !.fail_count = MAX_FAIL_ALLOWED - 1]
  /\ pc' = IF call = "YIELD" THEN "close" ELSE "read"
  /\ packet' = None
  /\ UNCHANGED <<call, timer, network, bounds, history>>

keepalive == NotDue \/ Ping \/ PingFailed \/ Disconnected

-----------------------------------------------------------------------------
(* waitfor and MQTTYield: the timer.                                       *)
(* Mutant: waitfor has no timeout.                                         *)
ExpiredYieldOnly ==
  /\ pc = "read" /\ timer < 0 /\ call = "YIELD"
  /\ pc' = "queue"
  /\ UNCHANGED <<call, timer, c, packet, network, bounds, history>>

Expired ==
  /\ pc = "read" /\ timer < 0
  /\ \/ call = "YIELD" /\ pc' = "queue" /\ UNCHANGED <<call, timer, late>>
     \/ call = "CONNECT" /\ pc' = "close" /\ UNCHANGED <<call, timer, late>>
     \/ call \in Request /\ StartYield /\ late' = late \cup {call}
  /\ UNCHANGED <<c, packet, network, bounds, silent, tried, pingLost, garbled>>

(* What MQTTConnect, MQTTSubscribe and MQTTUnsubscribe do with the answer; *)
(* mqtt_task stops reading its queue when a subscription is refused.       *)
Accept(ok) ==
  \/ /\ call = "CONNECT"
     /\ c' = [c EXCEPT !.isconnected = ok]
     /\ pc' = (IF ok THEN "queue" ELSE "close") /\ UNCHANGED <<call, timer>>
  \/ /\ call \in Request
     /\ IF ok \/ call = "UNSUBSCRIBE"
        THEN pc' = "queue" /\ UNCHANGED <<call, timer>>
        ELSE StartYield
     /\ UNCHANGED c

TakeAnswer ==
  /\ pc = "answer"
  /\ Accept(packet.ok)
  /\ packet' = None
  /\ UNCHANGED <<network, bounds, history>>

mqtt_task ==
  \/ Open \/ DisconnectNetwork \/ TakeRequest \/ NoRequest
  \/ readPacket \/ keepalive \/ Expired \/ TakeAnswer

-----------------------------------------------------------------------------
(* The broker.                                                             *)
Reply(p) ==
  CASE p.type = "CONNECT"     -> {<<Packet("CONNACK", 0, ok)>> : ok \in BOOLEAN}
    [] p.type = "SUBSCRIBE"   -> {<<Packet("SUBACK", p.id, ok)>> : ok \in BOOLEAN}
    [] p.type = "UNSUBSCRIBE" -> {<<Packet("UNSUBACK", p.id, TRUE)>>}
    [] p.type = "PINGREQ"     -> {<<Packet("PINGRESP", 0, TRUE)>>}
    [] OTHER                  -> {<< >>}

BrokerAnswers ==
  /\ alive /\ out # << >>
  /\ \E r \in Reply(Head(out)) : in' = in \o r
  /\ out' = Tail(out)
  /\ waiting' = IF out' = << >> THEN 0 ELSE waiting
  /\ UNCHANGED <<task, alive, bounds, history>>

BrokerPublishes ==
  /\ alive /\ c.isconnected /\ published < MaxPublish
  /\ published' = published + 1
  /\ in' = Append(in, Packet("PUBLISH", 0, TRUE))
  /\ UNCHANGED <<task, out, alive, waiting, requests, sessions, parts, history>>

BrokerDies ==
  /\ alive
  /\ alive' = FALSE /\ out' = << >> /\ waiting' = 0
  /\ UNCHANGED <<task, in, bounds, history>>

Next == mqtt_task \/ BrokerAnswers \/ BrokerPublishes \/ BrokerDies

Spec == Init /\ [][Next]_vars

(* mqtt_task has the highest priority, and every wait of it has a timeout. *)
FairSpec == Spec /\ WF_vars(mqtt_task) /\ WF_vars(BrokerAnswers)

-----------------------------------------------------------------------------
(* The call, its timer, the client and the packet last read keep their     *)
(* types: no timer grows past its start and fail_count stays under the     *)
(* limit at which the alarm is given.                                      *)
TypeOK ==
  /\ pc \in {"open", "close", "queue", "read", "ack", "keepalive", "answer", "crashed"}
  /\ call \in Call
  /\ timer \in -1 .. CommandTimeout + YieldTime
  /\ c \in [isconnected : BOOLEAN, ping_outstanding : BOOLEAN,
            fail_count : 0 .. MAX_FAIL_ALLOWED - 1, next_packetid : PacketId,
            ping_timer : -1 .. KeepAlive]
  /\ packet.type \in FromBroker \cup {"none"} /\ packet.id \in PacketId
  /\ late \subseteq Request /\ silent \in Nat /\ tried \in Nat
  /\ {alive, pingLost, garbled} \subseteq BOOLEAN

(* A broker that has gone silent is noticed: the first period ends in a    *)
(* ping, each further one in a failure, every request sent meanwhile       *)
(* re-arms the timer, and a wait swallows the alarm for one timeout.       *)
DeadBrokerNoticed ==
  silent <= (MAX_FAIL_ALLOWED + 1) * (KeepAlive + 1) + tried * (KeepAlive + 1 + CommandTimeout)
            + CommandTimeout + 1

(* No false alarm: the connection of a broker that answers in time is      *)
(* never declared broken, unless the ping itself could not be sent or a     *)
(* packet came in parts - however many requests and messages are in        *)
(* between (MQTTClient.c:187-211, 271-276).                                *)
NoFalseAlarm ==
  [][call = "YIELD" /\ pc = "keepalive" /\ pc' = "close" => ~alive \/ pingLost \/ garbled]_vars

(* The answer a request takes is its own, unless an earlier request of the *)
(* same kind timed out or a packet came in parts: only the type of the     *)
(* packet is compared (MQTTClient.c:407, 457 "should be the same as the    *)
(* packetid above").                                                       *)
AnswerIsOwn ==
  pc = "answer" /\ call \in Request =>
    packet.id = c.next_packetid \/ call \in late \/ garbled

(* A session that waits gets on, whatever the broker does, unless it takes *)
(* the rest of a packet for one that crashes it.                           *)
CallEnds ==
  pc \in {"read", "ack", "keepalive", "answer"} ~> pc \in {"queue", "close", "crashed"}
=============================================================================
