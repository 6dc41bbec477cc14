-------------------------- MODULE MqttSessionProofs --------------------------
(***************************************************************************)
(* The session of MqttSession for any keep-alive interval, timeouts and    *)
(* number of requests, messages and connections: its types, the answer     *)
(* that a request takes, the alarms that are not false and the silence     *)
(* that is noticed.                                                        *)
(***************************************************************************)
EXTENDS MqttSession, SequenceTheorems, TLAPS

-----------------------------------------------------------------------------
(* The packets on the connection have types of their own.                  *)
ToBroker == [type : Request \cup {"CONNECT", "PUBLISH", "PINGREQ", "ACK"}, id : PacketId, ok : BOOLEAN]
Received == [type : FromBroker, id : PacketId, ok : BOOLEAN]
Readable == [type : FromBroker \cup {"none"}, id : PacketId, ok : BOOLEAN]
Client ==
  [isconnected : BOOLEAN, ping_outstanding : BOOLEAN, fail_count : 0 .. MAX_FAIL_ALLOWED - 1,
   next_packetid : PacketId, ping_timer : -1 .. KeepAlive]

ConnectionOK == out \in Seq(ToBroker) /\ in \in Seq(Received \cup {Garbage})

StateOK ==
  /\ pc \in {"open", "close", "queue", "read", "ack", "keepalive", "answer", "crashed"}
  /\ call \in Call /\ timer \in Int /\ timer >= -1
  /\ c \in Client /\ packet \in Readable
  /\ ConnectionOK
  /\ alive \in BOOLEAN /\ waiting \in Nat
  /\ silent \in Nat /\ tried \in Nat
  /\ late \subseteq Request /\ pingLost \in BOOLEAN /\ garbled \in BOOLEAN

(* Where the task is goes with the call and with the client: a timer runs  *)
(* from the call's own timeout, a packet was read in this very moment.     *)
Between == pc \in {"read", "ack", "keepalive", "answer"}

PhaseOK ==
  /\ Between => (c.isconnected <=> call # "CONNECT")
  /\ pc = "queue" => c.isconnected
  /\ pc = "open" => in = << >> /\ silent = 0 /\ tried = 0 /\ ~alive
  /\ pc = "answer" => call # "YIELD" /\ packet.type = Answer[call]
  /\ pc = "ack" => packet = None /\ timer >= 0
  /\ pc \in {"keepalive", "answer"} /\ packet # None => silent = 0 /\ tried = 0
  /\ timer <= IF call = "YIELD" THEN YieldTime ELSE CommandTimeout
  /\ ~c.ping_outstanding => c.fail_count = 0

TypeInv == StateOK /\ PhaseOK

(* The actions of Next, for the proofs below.                              *)
LEMMA Steps ==
  ASSUME [Next]_vars
  PROVE  \/ Open \/ DisconnectNetwork \/ TakeRequest \/ NoRequest
         \/ ReadPacket \/ ReadPart \/ ReadGarbage \/ SendAck \/ ReadNothing
         \/ NotDue \/ Ping \/ PingFailed \/ Disconnected
         \/ Expired \/ TakeAnswer
         \/ BrokerAnswers \/ BrokerPublishes \/ BrokerDies
         \/ UNCHANGED vars
BY DEF Next, mqtt_task, readPacket, keepalive

(* getNextPacketId stays among the packet ids, and a timer in its range.   *)
LEMMA NextId == c \in Client => getNextPacketId \in PacketId
BY DefineAssumption DEF Client, getNextPacketId, PacketId

LEMMA LeftFacts ==
  ASSUME NEW t \in Int, NEW d \in Nat, t >= -1
  PROVE  /\ Left(t, d) \in Int /\ Left(t, d) >= -1
         /\ Left(t, d) <= t /\ Left(t, d) >= t - d
         /\ Left(t, d) # -1 => Left(t, d) = t - d
         /\ t >= 0 /\ d = 1 => Left(t, d) = t - 1
BY DEF Left

(* What is sent goes behind what was sent; what is read comes from the     *)
(* front.                                                                  *)
LEMMA TransmitOK ==
  ASSUME ConnectionOK, NEW p \in ToBroker, Transmit(p)
  PROVE  out' \in Seq(ToBroker)
BY DEF Transmit, ConnectionOK

LEMMA ReadOK ==
  ASSUME ConnectionOK, in # << >>
  PROVE  /\ Head(in) \in Received \cup {Garbage} /\ Head(in) = in[1] /\ 1 \in DOMAIN in
         /\ Tail(in) \in Seq(Received \cup {Garbage})
         /\ DOMAIN Tail(in) = 1 .. Len(in) - 1
         /\ \A i \in 1 .. Len(in) - 1 : Tail(in)[i] = in[i + 1] /\ i + 1 \in DOMAIN in
BY HeadTailProperties DEF ConnectionOK

LEMMA Answers ==
  Answer["SUBSCRIBE"] = "SUBACK" /\ Answer["UNSUBSCRIBE"] = "UNSUBACK" /\ Answer["CONNECT"] = "CONNACK"
BY DEF Answer

LEMMA AnswersOK ==
  ASSUME ConnectionOK, BrokerAnswers
  PROVE  /\ out # << >> /\ Head(out) = out[1] /\ Head(out) \in ToBroker /\ 1 \in DOMAIN out
         /\ out' = Tail(out) /\ out' \in Seq(ToBroker)
         /\ DOMAIN out' = 1 .. Len(out) - 1
         /\ \A i \in 1 .. Len(out) - 1 : out'[i] = out[i + 1] /\ i + 1 \in DOMAIN out
         /\ in' \in Seq(Received \cup {Garbage})
         /\ \/ Head(out).type \in {"PUBLISH", "ACK"} /\ in' = in
            \/ \E p \in Received :
                 /\ Head(out).type \notin {"PUBLISH", "ACK"} /\ in' = Append(in, p)
                 /\ p.type = (CASE Head(out).type = "CONNECT" -> "CONNACK"
                               [] Head(out).type = "PINGREQ" -> "PINGRESP"
                               [] OTHER -> Answer[Head(out).type])
                 /\ Head(out).type \in Request => p.id = Head(out).id
<1>1. /\ out # << >> /\ Head(out) = out[1] /\ Head(out) \in ToBroker /\ 1 \in DOMAIN out
      /\ out' = Tail(out) /\ out' \in Seq(ToBroker)
      /\ DOMAIN out' = 1 .. Len(out) - 1
      /\ \A i \in 1 .. Len(out) - 1 : out'[i] = out[i + 1] /\ i + 1 \in DOMAIN out
  BY HeadTailProperties DEF ConnectionOK, BrokerAnswers
<1>2. PICK r \in Reply(Head(out)) : in' = in \o r
  BY DEF BrokerAnswers
<1>3. CASE Head(out).type \in {"PUBLISH", "ACK"}
  BY <1>1, <1>2, <1>3, ConcatEmptySeq DEF Reply, ConnectionOK
<1>4. CASE Head(out).type \notin {"PUBLISH", "ACK"}
  <2>1. PICK p : /\ r = <<p>> /\ p \in Received
                 /\ p.type = (CASE Head(out).type = "CONNECT" -> "CONNACK"
                               [] Head(out).type = "PINGREQ" -> "PINGRESP"
                               [] OTHER -> Answer[Head(out).type])
                 /\ Head(out).type \in Request => p.id = Head(out).id
    <3>1. /\ 0 \in PacketId /\ Head(out).id \in PacketId
          /\ Head(out).type \in {"SUBSCRIBE", "UNSUBSCRIBE", "CONNECT", "PINGREQ"}
      BY <1>1, <1>4, DefineAssumption DEF ToBroker, PacketId, Request
    <3>2. CASE Head(out).type = "CONNECT"
      <4>1. PICK ok \in BOOLEAN : r = <<Packet("CONNACK", 0, ok)>>
        BY <3>2, <1>2 DEF Reply
      <4>2. Packet("CONNACK", 0, ok) \in Received
        BY <3>1 DEF Packet, Received, FromBroker
      <4> QED BY <3>2, <4>1, <4>2, Answers DEF Packet, Request
    <3>3. CASE Head(out).type = "SUBSCRIBE"
      <4>1. PICK ok \in BOOLEAN : r = <<Packet("SUBACK", Head(out).id, ok)>>
        BY <3>3, <1>2 DEF Reply
      <4>2. Packet("SUBACK", Head(out).id, ok) \in Received
        BY <3>1 DEF Packet, Received, FromBroker
      <4> QED BY <3>3, <4>1, <4>2, Answers DEF Packet, Request
    <3>4. CASE Head(out).type = "UNSUBSCRIBE"
      <4>1. r = <<Packet("UNSUBACK", Head(out).id, TRUE)>>
        BY <3>4, <1>2 DEF Reply
      <4>2. Packet("UNSUBACK", Head(out).id, TRUE) \in Received
        BY <3>1 DEF Packet, Received, FromBroker
      <4> QED BY <3>4, <4>1, <4>2, Answers DEF Packet, Request
    <3>5. CASE Head(out).type = "PINGREQ"
      <4>1. r = <<Packet("PINGRESP", 0, TRUE)>>
        BY <3>5, <1>2 DEF Reply
      <4>2. Packet("PINGRESP", 0, TRUE) \in Received
        BY <3>1 DEF Packet, Received, FromBroker
      <4> QED BY <3>5, <4>1, <4>2, Answers DEF Packet, Request
    <3> QED BY <3>1, <3>2, <3>3, <3>4, <3>5
  <2>2. in' = Append(in, p)
    BY <1>2, <2>1, AppendIsConcat DEF ConnectionOK
  <2>3. in' \in Seq(Received \cup {Garbage})
    BY <2>1, <2>2 DEF ConnectionOK
  <2> QED BY <1>1, <1>4, <2>1, <2>2, <2>3
<1> QED BY <1>3, <1>4

(* The fields of the client, and what the actions do to them.              *)
LEMMA ClientOK ==
  ASSUME c \in Client
  PROVE  /\ c.fail_count \in 0 .. MAX_FAIL_ALLOWED - 1 /\ c.ping_timer \in -1 .. KeepAlive
         /\ c.isconnected \in BOOLEAN /\ c.ping_outstanding \in BOOLEAN
         /\ c.next_packetid \in PacketId
BY DEF Client

LEMMA NoneOK ==
  /\ None \in Readable /\ 0 \in PacketId
  /\ << >> \in Seq(ToBroker) /\ << >> \in Seq(Received \cup {Garbage})
  /\ KeepAlive \in Nat /\ CommandTimeout \in Nat /\ YieldTime \in Nat /\ Lag \in Nat
  /\ MAX_FAIL_ALLOWED \in Nat \ {0} /\ MAX_PACKET_ID \in Nat \ {0}
<1>1. 0 \in PacketId /\ None \in Readable
  BY DefineAssumption DEF None, Packet, Readable, PacketId
<1> QED BY <1>1, EmptySeq, DefineAssumption, TimeAssumption

LEMMA OneOK == ASSUME NEW S, NEW e \in S PROVE <<e>> \in Seq(S)
OBVIOUS

LEMMA NewClientOK ==
  ASSUME NEW id \in PacketId
  PROVE  /\ NewMQTTClient(id) \in Client
         /\ ~NewMQTTClient(id).isconnected /\ ~NewMQTTClient(id).ping_outstanding
         /\ NewMQTTClient(id).fail_count = 0 /\ NewMQTTClient(id).ping_timer = KeepAlive
         /\ NewMQTTClient(id).next_packetid = id
BY DefineAssumption, TimeAssumption DEF NewMQTTClient, Client

LEMMA TimerSet ==
  ASSUME c \in Client, NEW t \in -1 .. KeepAlive, NEW n \in PacketId,
         c' = [c EXCEPT !.next_packetid = n, !.ping_timer = t]
  PROVE  /\ c' \in Client
         /\ c'.isconnected = c.isconnected /\ c'.ping_outstanding = c.ping_outstanding
         /\ c'.fail_count = c.fail_count /\ c'.next_packetid = n /\ c'.ping_timer = t
BY DEF Client

LEMMA ConnectedSet ==
  ASSUME c \in Client, NEW b \in BOOLEAN, c' = [c EXCEPT !.isconnected = b]
  PROVE  /\ c' \in Client
         /\ c'.isconnected = b /\ c'.ping_outstanding = c.ping_outstanding
         /\ c'.fail_count = c.fail_count /\ c'.next_packetid = c.next_packetid
         /\ c'.ping_timer = c.ping_timer
BY DEF Client

(* A PINGRESP settles the ping, and nothing else changes with a packet.    *)
LEMMA HandledOK ==
  ASSUME c \in Client, NEW type
  PROVE  /\ Handled(type) \in Client
         /\ Handled(type).isconnected = c.isconnected
         /\ Handled(type).next_packetid = c.next_packetid
         /\ Handled(type).ping_timer = c.ping_timer
         /\ \/ type = "PINGRESP" /\ ~Handled(type).ping_outstanding /\ Handled(type).fail_count = 0
            \/ type # "PINGRESP" /\ Handled(type) = c
<1>1. CASE type = "PINGRESP"
  <2>1. Handled(type) = [c EXCEPT !.ping_outstanding = FALSE, !.fail_count = 0]
    BY <1>1 DEF Handled
  <2>2. 0 \in 0 .. MAX_FAIL_ALLOWED - 1
    BY DefineAssumption
  <2> QED BY <1>1, <2>1, <2>2 DEF Client
<1>2. CASE type # "PINGRESP"
  BY <1>2 DEF Handled
<1> QED BY <1>1, <1>2

LEMMA TakenOK ==
  ASSUME c \in Client, ~c.ping_outstanding => c.fail_count = 0,
         (\E p \in Readable : TakenFor(p)) \/ (\E next \in {"ack", "read", "crashed"} : Leaves(next))
  PROVE  /\ packet' \in Readable /\ c' \in Client
         /\ c'.isconnected = c.isconnected /\ c'.ping_timer = c.ping_timer
         /\ c'.next_packetid = c.next_packetid
         /\ ~c'.ping_outstanding => c'.fail_count = 0
         /\ c'.ping_outstanding => c' = c
         /\ pc' = "keepalive" \/ (pc' \in {"ack", "read", "crashed"} /\ packet' = None /\ UNCHANGED c)
<1>1. ASSUME NEW p \in Readable, packet' = p, c' = Handled(p.type), pc' = "keepalive"
      PROVE  /\ packet' \in Readable /\ c' \in Client
             /\ c'.isconnected = c.isconnected /\ c'.ping_timer = c.ping_timer
             /\ c'.next_packetid = c.next_packetid
             /\ ~c'.ping_outstanding => c'.fail_count = 0
             /\ c'.ping_outstanding => c' = c
  BY <1>1, HandledOK
<1>2. CASE packet' = None /\ pc' \in {"ack", "read", "crashed"} /\ UNCHANGED c
  BY <1>2, NoneOK
<1> QED BY <1>1, <1>2 DEF TakenFor, Leaves

(* keepalive goes on to the answer or to the next read.                    *)
LEMMA ProceedOK ==
  ASSUME StateOK, Proceed
  PROVE  /\ packet' \in Readable
         /\ \/ pc' = "answer" /\ call # "YIELD" /\ packet.type = Answer[call] /\ packet' = packet
            \/ pc' = "read"
BY NoneOK DEF Proceed, Answered, StateOK

-----------------------------------------------------------------------------
LEMMA TypeInit == Init => TypeInv
<1> SUFFICES ASSUME Init PROVE TypeInv
  OBVIOUS
<1>1. NewMQTTClient(0) \in Client /\ None \in Readable /\ NewMQTTClient(0).fail_count = 0
  BY NoneOK, NewClientOK
<1>2. StateOK
  <2>1. pc = "open" /\ call \in Call
    BY DEF Init, Call
  <2>2. timer \in Int /\ timer >= -1
    BY DEF Init
  <2>3. c \in Client /\ packet \in Readable
    BY <1>1 DEF Init
  <2>4. ConnectionOK
    BY NoneOK DEF Init, ConnectionOK
  <2>5. alive \in BOOLEAN /\ waiting \in Nat /\ silent \in Nat /\ tried \in Nat
    BY DEF Init
  <2>6. late \subseteq Request /\ pingLost \in BOOLEAN /\ garbled \in BOOLEAN
    BY DEF Init
  <2> QED BY <2>1, <2>2, <2>3, <2>4, <2>5, <2>6 DEF StateOK
<1>3. PhaseOK
  BY <1>1, NoneOK DEF Init, PhaseOK, Between
<1> QED BY <1>2, <1>3 DEF TypeInv

LEMMA TypeNext ==
  ASSUME TypeInv, [Next]_vars
  PROVE  TypeInv'
<1>0. /\ None \in Readable /\ 0 \in PacketId
      /\ << >> \in Seq(ToBroker) /\ << >> \in Seq(Received \cup {Garbage})
      /\ KeepAlive \in Nat /\ CommandTimeout \in Nat /\ YieldTime \in Nat /\ Lag \in Nat
      /\ MAX_FAIL_ALLOWED \in Nat \ {0} /\ MAX_PACKET_ID \in Nat \ {0}
      /\ c.fail_count \in 0 .. MAX_FAIL_ALLOWED - 1 /\ c.ping_timer \in -1 .. KeepAlive
      /\ c.isconnected \in BOOLEAN /\ c.ping_outstanding \in BOOLEAN
      /\ c.next_packetid \in PacketId /\ getNextPacketId \in PacketId
  BY ClientOK, NoneOK, NextId DEF TypeInv, StateOK
<1> USE DEF TypeInv, StateOK, PhaseOK, Between, network, history
<1>1. CASE Open
  <2>1. Packet("CONNECT", 0, TRUE) \in ToBroker
    BY <1>0 DEF Packet, ToBroker
  <2>2. out' \in Seq(ToBroker)
    <3>1. <<Packet("CONNECT", 0, TRUE)>> \in Seq(ToBroker)
      BY <2>1, OneOK
    <3> QED BY <1>0, <1>1, <3>1 DEF Open
  <2>3. /\ c' \in Client /\ ~c'.isconnected /\ ~c'.ping_outstanding /\ c'.fail_count = 0
    BY <1>0, <1>1, NewClientOK DEF Open
  <2>4. StateOK'
    <3>1. /\ pc' \in {"read", "close"} /\ call' = "CONNECT" /\ call' \in Call
          /\ timer' = CommandTimeout /\ alive' = TRUE /\ packet' = None
      BY <1>1 DEF Open, Call
    <3>2. UNCHANGED <<in, waiting, silent, tried, late, pingLost, garbled>>
      BY <1>1 DEF Open
    <3> QED BY <1>0, <2>2, <2>3, <3>1, <3>2 DEF ConnectionOK
  <2>5. PhaseOK'
    <3>1. /\ pc' \in {"read", "close"} /\ call' = "CONNECT"
          /\ timer' = CommandTimeout
      BY <1>1 DEF Open
    <3> QED BY <1>0, <2>3, <3>1
  <2> QED BY <2>4, <2>5
<1>2. CASE DisconnectNetwork
  BY <1>0, <1>2 DEF DisconnectNetwork, ConnectionOK
<1>3. CASE TakeRequest
  <2>1. PICK d \in 0 .. CommandTimeout, type \in Request \cup {"PUBLISH"} :
          /\ Elapse(d)
          /\ \/ type = "PUBLISH" /\ SendPublish
             \/ type \in Request /\ SendRequest(type, d)
             \/ SendFails(type, d)
    BY <1>3 DEF TakeRequest
  <2>2. silent' \in Nat /\ waiting' \in Nat /\ tried' \in Nat
    <3>1. waiting' \in Nat /\ silent' \in Nat
      BY <2>1 DEF Elapse
    <3>2. tried' = tried + 1
      BY <2>1 DEF SendPublish, SendRequest, SendFails
    <3> QED BY <3>1, <3>2
  <2>3. CASE type = "PUBLISH" /\ SendPublish
    <3>1. Packet("PUBLISH", 0, TRUE) \in ToBroker
      BY <1>0 DEF Packet, ToBroker
    <3>2. out' \in Seq(ToBroker)
      BY <2>3, <3>1, TransmitOK DEF SendPublish
    <3>3. c' = [c EXCEPT !.next_packetid = c.next_packetid, !.ping_timer = KeepAlive]
      BY <2>3 DEF SendPublish, Client
    <3>4. /\ c' \in Client /\ c'.isconnected = c.isconnected
          /\ c'.ping_outstanding = c.ping_outstanding /\ c'.fail_count = c.fail_count
      <4>1. KeepAlive \in -1 .. KeepAlive
        BY <1>0
      <4> QED BY <1>0, <3>3, <4>1, TimerSet
    <3>5. StateOK'
      BY <1>3, <2>2, <2>3, <3>2, <3>4 DEF TakeRequest, SendPublish, ConnectionOK
    <3>6. PhaseOK'
      BY <1>3, <2>3, <3>4 DEF TakeRequest, SendPublish
    <3> QED BY <3>5, <3>6
  <2>4. CASE type \in Request /\ SendRequest(type, d)
    <3>1. Packet(type, getNextPacketId, TRUE) \in ToBroker
      BY <1>0, <2>4 DEF Packet, ToBroker
    <3>2. out' \in Seq(ToBroker)
      BY <2>4, <3>1, TransmitOK DEF SendRequest
    <3>3. c' = [c EXCEPT !.next_packetid = getNextPacketId, !.ping_timer = KeepAlive]
      BY <2>4 DEF SendRequest
    <3>4. /\ c' \in Client /\ c'.isconnected = c.isconnected
          /\ c'.ping_outstanding = c.ping_outstanding /\ c'.fail_count = c.fail_count
      <4>1. KeepAlive \in -1 .. KeepAlive
        BY <1>0
      <4> QED BY <1>0, <3>3, <4>1, TimerSet
    <3>5. call' \in Call /\ call' \notin {"YIELD", "CONNECT"}
      BY <2>4 DEF SendRequest, Call, Request
    <3>6. timer' \in Int /\ timer' >= -1 /\ timer' <= CommandTimeout
      BY <1>0, <2>4 DEF SendRequest
    <3>7. StateOK'
      BY <1>3, <2>2, <2>4, <3>2, <3>4, <3>5, <3>6 DEF TakeRequest, SendRequest, ConnectionOK
    <3>8. PhaseOK'
      BY <1>3, <2>4, <3>4, <3>5, <3>6 DEF TakeRequest, SendRequest
    <3> QED BY <3>7, <3>8
  <2>5. CASE SendFails(type, d)
    <3>1. PICK n \in PacketId : c' = [c EXCEPT !.next_packetid = n, !.ping_timer = Left(c.ping_timer, d)]
      BY <1>0, <2>5 DEF SendFails
    <3>2. Left(c.ping_timer, d) \in -1 .. KeepAlive
      BY <1>0 DEF Left
    <3>3. /\ c' \in Client /\ c'.isconnected = c.isconnected
          /\ c'.ping_outstanding = c.ping_outstanding /\ c'.fail_count = c.fail_count
      BY <1>0, <3>1, <3>2, TimerSet
    <3>4. pc' = "read" /\ call' = "YIELD" /\ timer' = YieldTime /\ call' \in Call
      BY <2>5 DEF SendFails, StartYield, Call
    <3>5. StateOK'
      BY <1>0, <1>3, <2>2, <2>5, <3>3, <3>4 DEF TakeRequest, SendFails, ConnectionOK
    <3>6. PhaseOK'
      BY <1>0, <1>3, <3>3, <3>4 DEF TakeRequest
    <3> QED BY <3>5, <3>6
  <2> QED BY <2>1, <2>3, <2>4, <2>5
<1>4. CASE NoRequest
  BY <1>0, <1>4 DEF NoRequest, StartYield, ConnectionOK, Call
<1>5. CASE ReadPacket
  <2>1. Head(in) \in Received /\ Head(in) \in Readable /\ Tail(in) \in Seq(Received \cup {Garbage})
    BY <1>5, ReadOK DEF ReadPacket, Received, Readable
  <2> QED BY <1>0, <1>5, <2>1, HandledOK DEF ReadPacket, Heard, Reading, ConnectionOK, bounds
<1>6. CASE ReadPart
  <2>1. (\E p \in Readable : TakenFor(p)) \/ (\E next \in {"ack", "read", "crashed"} : Leaves(next))
    <3>1. \A ok \in BOOLEAN : Packet(Head(in).type, 0, ok) \in Readable
      BY <1>0, <1>6, ReadOK DEF ReadPart, Packet, Received, Readable
    <3> QED BY <1>0, <1>6, <3>1 DEF ReadPart
  <2>2. in' \in Seq(Received \cup {Garbage})
    <3>1. <<Garbage>> \in Seq(Received \cup {Garbage})
      OBVIOUS
    <3> QED BY <1>6, <3>1, ReadOK, ConcatProperties DEF ReadPart
  <2> QED BY <1>0, <1>6, <2>1, <2>2, TakenOK DEF ReadPart, Heard, Reading, ConnectionOK
<1>7. CASE ReadGarbage
  <2>1. (\E p \in Readable : TakenFor(p)) \/ (\E next \in {"ack", "read", "crashed"} : Leaves(next))
    <3>1. \A ok \in BOOLEAN, type \in FromBroker \cup {"none"} : Packet(type, 0, ok) \in Readable
      BY <1>0 DEF Packet, Readable
    <3> QED BY <1>7, <3>1 DEF ReadGarbage
  <2>2. in' \in Seq(Received \cup {Garbage})
    <3>1. \A n \in 2 .. Len(in) + 1 : SubSeq(in, n, Len(in)) \in Seq(Received \cup {Garbage})
      BY SubSeqProperties DEF ConnectionOK
    <3>2. <<Garbage>> \in Seq(Received \cup {Garbage})
      OBVIOUS
    <3>3. \A n \in 2 .. Len(in) + 1 :
            <<Garbage>> \o SubSeq(in, n, Len(in)) \in Seq(Received \cup {Garbage})
      BY <3>1, <3>2, ConcatProperties
    <3> QED BY <1>7, <3>1, <3>3 DEF ReadGarbage
  <2> QED BY <1>0, <1>7, <2>1, <2>2, TakenOK DEF ReadGarbage, Heard, Reading, ConnectionOK, bounds
<1>19. CASE SendAck
  <2>1. PICK d \in 0 .. timer :
          /\ Elapse(d) /\ timer' = timer - d
          /\ \/ /\ Transmit(Packet("ACK", 0, TRUE))
                /\ c' = [c EXCEPT !.ping_timer = KeepAlive]
                /\ pc' = "keepalive"
             \/ /\ c' = [c EXCEPT !.ping_timer = Left(@, d)]
                /\ pc' = "read"
                /\ UNCHANGED out
    BY <1>19 DEF SendAck
  <2>2. /\ timer' \in Int /\ timer' >= -1 /\ timer' <= timer
        /\ silent' \in Nat /\ waiting' \in Nat /\ tried' \in Nat
    BY <1>19, <2>1 DEF SendAck, Elapse
  <2>3. out' \in Seq(ToBroker)
    <3>1. Packet("ACK", 0, TRUE) \in ToBroker
      BY <1>0 DEF Packet, ToBroker
    <3> QED BY <2>1, <3>1, TransmitOK DEF ConnectionOK
  <2>4. PICK t \in -1 .. KeepAlive : c' = [c EXCEPT !.next_packetid = c.next_packetid, !.ping_timer = t]
    <3>1. KeepAlive \in -1 .. KeepAlive /\ Left(c.ping_timer, d) \in -1 .. KeepAlive
      BY <1>0, <2>1 DEF Left
    <3> QED BY <2>1, <3>1 DEF Client
  <2>5. /\ c' \in Client /\ c'.isconnected = c.isconnected
        /\ c'.ping_outstanding = c.ping_outstanding /\ c'.fail_count = c.fail_count
    BY <1>0, <2>4, TimerSet
  <2>6. pc = "ack" /\ packet' = None /\ pc' \in {"read", "keepalive"}
    BY <1>19, <2>1 DEF SendAck
  <2>7. UNCHANGED <<call, in, alive, late, pingLost, garbled>>
    BY <1>19 DEF SendAck
  <2>8. StateOK'
    BY <1>0, <2>2, <2>3, <2>5, <2>6, <2>7 DEF ConnectionOK
  <2>9. PhaseOK'
    BY <1>0, <2>2, <2>5, <2>6, <2>7
  <2> QED BY <2>8, <2>9
<1>8. CASE ReadNothing
  <2>1. /\ Left(c.ping_timer, 1) \in -1 .. KeepAlive
        /\ Left(timer, 1) \in Int /\ Left(timer, 1) >= -1 /\ Left(timer, 1) <= timer
    BY <1>0 DEF Left
  <2>2. c' = [c EXCEPT !.next_packetid = c.next_packetid, !.ping_timer = Left(c.ping_timer, 1)]
    BY <1>8 DEF ReadNothing, Client
  <2>3. silent' \in Nat /\ waiting' \in Nat
    BY <1>8 DEF ReadNothing, Elapse
  <2>4. /\ c' \in Client /\ c'.isconnected = c.isconnected
        /\ c'.ping_outstanding = c.ping_outstanding /\ c'.fail_count = c.fail_count
    BY <1>0, <2>1, <2>2, TimerSet
  <2>5. StateOK'
    BY <1>0, <1>8, <2>1, <2>3, <2>4 DEF ReadNothing, Reading, ConnectionOK, bounds
  <2>6. PhaseOK'
    BY <1>0, <1>8, <2>1, <2>4 DEF ReadNothing, Reading
  <2> QED BY <2>5, <2>6
<1>9. CASE NotDue
  BY <1>0, <1>9, ProceedOK DEF NotDue, ConnectionOK
<1>10. CASE Ping
  <2>1. c' \in Client /\ c'.isconnected = c.isconnected /\ c'.ping_outstanding
    <3>1. KeepAlive \in -1 .. KeepAlive
      BY <1>0
    <3> QED BY <1>10, <3>1 DEF Ping, Client
  <2>2. out' \in Seq(ToBroker)
    <3>1. Packet("PINGREQ", 0, TRUE) \in ToBroker
      BY <1>0 DEF Packet, ToBroker
    <3> QED BY <1>10, <3>1, TransmitOK DEF Ping, ConnectionOK
  <2> QED BY <1>0, <1>10, <2>1, <2>2, ProceedOK DEF Ping, ConnectionOK, bounds
<1>11. CASE PingFailed
  <2>1. c' \in Client /\ c'.isconnected = c.isconnected /\ c'.ping_outstanding
    <3>1. c.fail_count + 1 \in 0 .. MAX_FAIL_ALLOWED - 1
      BY <1>0, <1>11 DEF PingFailed, LastChance
    <3>2. KeepAlive \in -1 .. KeepAlive
      BY <1>0
    <3> QED BY <1>11, <3>1, <3>2 DEF PingFailed, Client
  <2> QED BY <1>0, <1>11, <2>1, ProceedOK DEF PingFailed, ConnectionOK, bounds
<1>12. CASE Disconnected
  <2>1. c' \in Client /\ c'.isconnected = c.isconnected /\ c'.ping_outstanding
    <3>1. MAX_FAIL_ALLOWED - 1 \in 0 .. MAX_FAIL_ALLOWED - 1
      BY <1>0
    <3> QED BY <1>0, <1>12, <3>1 DEF Disconnected, Client
  <2> QED BY <1>0, <1>12, <2>1 DEF Disconnected, ConnectionOK, bounds
<1>13. CASE Expired
  <2>1. call' \in Call /\ late' \subseteq Request
    BY <1>13 DEF Expired, StartYield, Call
  <2>2. StateOK'
    BY <1>0, <1>13, <2>1 DEF Expired, StartYield, ConnectionOK, bounds
  <2>3. PhaseOK'
    BY <1>0, <1>13 DEF Expired, StartYield, Request
  <2> QED BY <2>2, <2>3
<1>14. CASE TakeAnswer
  <2>1. CASE call = "CONNECT"
    BY <1>0, <1>14, <2>1, ConnectedSet DEF TakeAnswer, Accept, ConnectionOK, Readable, Request, bounds
  <2>2. CASE call # "CONNECT"
    BY <1>0, <1>14, <2>2 DEF TakeAnswer, Accept, StartYield, ConnectionOK, Call, Request, bounds
  <2> QED BY <2>1, <2>2
<1>15. CASE BrokerAnswers
  <2>1. waiting' \in Nat
    BY <1>15 DEF BrokerAnswers
  <2> QED BY <1>0, <1>15, <2>1, AnswersOK DEF BrokerAnswers, ConnectionOK, task, bounds
<1>16. CASE BrokerPublishes
  <2>1. in' \in Seq(Received \cup {Garbage})
    BY <1>0, <1>16 DEF BrokerPublishes, ConnectionOK, Packet, Received, FromBroker
  <2> QED BY <1>0, <1>16, <2>1 DEF BrokerPublishes, ConnectionOK, task
<1>17. CASE BrokerDies
  BY <1>0, <1>17 DEF BrokerDies, ConnectionOK, task, bounds
<1>18. CASE UNCHANGED vars
  BY <1>18 DEF vars, task, ConnectionOK
<1> QED BY <1>1, <1>2, <1>3, <1>4, <1>5, <1>6, <1>7, <1>8, <1>9, <1>10, <1>11, <1>12, <1>13,
           <1>14, <1>15, <1>16, <1>17, <1>18, <1>19, Steps

(* What the runs check of the types.                                       *)
LEMMA TypeInvTypes == TypeInv => TypeOK
BY TimeAssumption DEF TypeInv, StateOK, PhaseOK, TypeOK, Client, Readable

(* Every variable keeps its type; fail_count stays below the limit, since  *)
(* the alarm comes before it is reached (MQTTClient.c:192-193).            *)
THEOREM TypeCorrect == Spec => []TypeOK
<1>1. Spec => []TypeInv
  BY TypeInit, TypeNext, PTL DEF Spec
<1> QED BY <1>1, TypeInvTypes, PTL

-----------------------------------------------------------------------------
(* Garbage is on the connection, and an ack is due, only when a packet     *)
(* came in parts.                                                          *)
GarbageKnown == (\A i \in DOMAIN in : in[i] = Garbage => garbled) /\ (pc = "ack" => garbled)

(* A request that did not time out, and its answer, are in one place only: *)
(* on the way to the broker, on the way back, or just read; and only while *)
(* the task waits for it.  That the id of what is read is the right one    *)
(* does not follow from where it is: it was right when it was sent.        *)
Sent(type) == {i \in DOMAIN out : out[i].type = type}
Back(type) == {i \in DOMAIN in : in[i].type = Answer[type]}
Held(type) == pc \in {"keepalive", "answer"} /\ packet.type = Answer[type]

Waits(type) == Between /\ call = type

OneAnswer(type) ==
  /\ ~Waits(type) => Sent(type) = {} /\ Back(type) = {} /\ ~Held(type)
  /\ \A i, j \in Sent(type) : i = j /\ out[i].id = c.next_packetid
  /\ \A i, j \in Back(type) : i = j /\ in[i].id = c.next_packetid
  /\ Sent(type) # {} => Back(type) = {} /\ ~Held(type)
  /\ Back(type) # {} => ~Held(type)
  /\ Held(type) => packet.id = c.next_packetid

OwnAnswers == \A type \in Request : type \in late \/ garbled \/ OneAnswer(type)

AnswerInv == GarbageKnown /\ OwnAnswers

LEMMA TransmitAt ==
  ASSUME ConnectionOK, NEW p \in ToBroker, Transmit(p)
  PROVE  \A i \in DOMAIN out' :
           (i \in DOMAIN out /\ out'[i] = out[i]) \/ (i = Len(out) + 1 /\ out'[i] = p)
BY AppendProperties DEF ConnectionOK, Transmit

LEMMA AppendAt ==
  ASSUME ConnectionOK, NEW p \in Received, in' = Append(in, p)
  PROVE  /\ \A i \in DOMAIN in' :
               (i \in DOMAIN in /\ in'[i] = in[i]) \/ (i = Len(in) + 1 /\ in'[i] = p)
         /\ Len(in) + 1 \in DOMAIN in' /\ in'[Len(in) + 1] = p
         /\ \A i \in DOMAIN in : i \in DOMAIN in' /\ in'[i] = in[i]
BY AppendProperties DEF ConnectionOK

LEMMA GarbageNext ==
  ASSUME TypeInv, GarbageKnown, [Next]_vars
  PROVE  GarbageKnown'
<1>0. ConnectionOK /\ \A p \in Received : p # Garbage
  BY DEF TypeInv, StateOK, Received, FromBroker, Garbage, Packet
<1> DEFINE Known == \A i \in DOMAIN in : in[i] = Garbage => garbled
<1>1. ASSUME UNCHANGED <<in, garbled>> PROVE Known'
  BY <1>1 DEF GarbageKnown
<1>2. ASSUME garbled' PROVE Known'
  BY <1>2
<1>3. ASSUME DisconnectNetwork PROVE Known'
  BY <1>3 DEF DisconnectNetwork
<1>4. ASSUME ReadPacket PROVE Known'
  BY <1>0, <1>4, ReadOK DEF ReadPacket, GarbageKnown
<1>5. ASSUME ReadGarbage PROVE Known'
  BY <1>0, <1>5, <1>2, ReadOK DEF ReadGarbage, GarbageKnown
<1>6. ASSUME \E p \in Received : in' = Append(in, p) /\ UNCHANGED garbled PROVE Known'
  BY <1>0, <1>6 DEF GarbageKnown, ConnectionOK
<1>7. ASSUME BrokerAnswers PROVE Known'
  BY <1>0, <1>1, <1>6, <1>7, AnswersOK DEF BrokerAnswers, history
<1>8. ASSUME BrokerPublishes PROVE Known'
  <2>1. Packet("PUBLISH", 0, TRUE) \in Received
    BY NoneOK DEF Packet, Received, FromBroker
  <2> QED BY <1>6, <1>8, <2>1 DEF BrokerPublishes, history
<1>9. ASSUME ReadPart PROVE Known'
  BY <1>2, <1>9 DEF ReadPart
<1>10. Known'
  BY <1>1, <1>3, <1>4, <1>5, <1>7, <1>8, <1>9, Steps
  DEF Open, TakeRequest, NoRequest, SendAck, ReadNothing, NotDue, Ping, PingFailed, Disconnected,
      Expired, TakeAnswer, BrokerDies, vars, network, history, bounds, task
<1>11. pc' = "ack" => ReadPart \/ ReadGarbage \/ (pc = "ack" /\ UNCHANGED garbled)
  BY Steps
  DEF Open, DisconnectNetwork, TakeRequest, SendPublish, SendRequest, SendFails, StartYield,
      NoRequest, ReadPacket, SendAck, ReadNothing, NotDue, Ping, PingFailed, Proceed,
      Disconnected, Expired, TakeAnswer, Accept, BrokerAnswers, BrokerPublishes, BrokerDies,
      vars, history, task
<1>12. pc' = "ack" => garbled'
  <2>1. ReadGarbage => garbled'
    BY <1>0, ReadOK DEF ReadGarbage, GarbageKnown
  <2> QED BY <1>11, <2>1 DEF ReadPart, GarbageKnown
<1> QED BY <1>10, <1>12 DEF GarbageKnown

(* Nothing new for the call: what is on its way now was so before, shifted *)
(* by what was read or answered in front of it.                            *)
LEMMA NothingNew ==
  ASSUME ConnectionOK, ConnectionOK', NEW type, OneAnswer(type), NEW k \in Nat, NEW l \in Nat,
         \A i \in Sent(type)' : i + k \in Sent(type) /\ out'[i] = out[i + k],
         \A i \in Back(type)' : i + l \in Back(type) /\ in'[i] = in[i + l],
         Held(type)' => Held(type) /\ packet' = packet,
         Waits(type) => Waits(type)' /\ c'.next_packetid = c.next_packetid
  PROVE  OneAnswer(type)'
<1>0. /\ \A i \in Sent(type)' : i \in Nat
      /\ \A i \in Back(type)' : i \in Nat
  BY DEF Sent, Back, ConnectionOK
<1>1. CASE Waits(type)
  BY <1>0, <1>1 DEF OneAnswer
<1>2. CASE ~Waits(type)
  BY <1>0, <1>2 DEF OneAnswer
<1> QED BY <1>1, <1>2

LEMMA AnswersDiffer ==
  ASSUME NEW type \in Request
  PROVE  /\ Answer[type] \notin {"none", "garbage", "PUBLISH", "CONNACK", "PINGRESP"}
         /\ \A t \in Request : Answer[t] = Answer[type] => t = type
BY Answers DEF Request

LEMMA OwnNext ==
  ASSUME TypeInv, TypeInv', AnswerInv, [Next]_vars
  PROVE  OwnAnswers'
<1> SUFFICES ASSUME NEW type \in Request, type \notin late', ~garbled'
             PROVE  OneAnswer(type)'
  BY DEF OwnAnswers
<1>0. /\ ConnectionOK /\ ConnectionOK' /\ c \in Client
      /\ DOMAIN out = 1 .. Len(out) /\ DOMAIN in = 1 .. Len(in)
      /\ Len(out) \in Nat /\ Len(in) \in Nat
  BY DEF TypeInv, StateOK, ConnectionOK
<1>a. /\ \A i \in Sent(type) : i + 0 \in Sent(type) /\ out[i] = out[i + 0]
      /\ \A i \in Back(type) : i + 0 \in Back(type) /\ in[i] = in[i + 0]
  BY <1>0 DEF Sent, Back
<1>b. /\ Answer[type] \notin {"none", "garbage", "PUBLISH", "CONNACK", "PINGRESP"}
      /\ \A t \in Request : Answer[t] = Answer[type] => t = type
      /\ type \notin {"CONNECT", "YIELD", "PUBLISH", "PINGREQ", "ACK"}
  BY AnswersDiffer DEF Request
<1>1. CASE Open
  <2>1. Sent(type)' = {} /\ Back(type)' = {} /\ ~Held(type)'
    BY <1>0, <1>1, <1>b DEF Open, Sent, Back, Held, None, Packet, TypeInv, PhaseOK
  <2> QED BY <2>1 DEF OneAnswer
<1>2. CASE DisconnectNetwork
  <2>1. Sent(type)' = {} /\ Back(type)' = {} /\ ~Held(type)'
    BY <1>2 DEF DisconnectNetwork, Sent, Back, Held
  <2> QED BY <2>1 DEF OneAnswer
<1>3. OneAnswer(type) \/ Open \/ DisconnectNetwork
  <2>1. late' = late \/ (\E t : late' = late \cup {t}) \/ Open \/ DisconnectNetwork
    BY Steps DEF TakeRequest, NoRequest, ReadPacket, ReadPart, ReadGarbage, SendAck, ReadNothing, NotDue,
         Ping, PingFailed, Disconnected, Expired, TakeAnswer, BrokerAnswers, BrokerPublishes,
         BrokerDies, vars, history
  <2>2. garbled' = garbled \/ garbled' \/ Open \/ DisconnectNetwork
    BY Steps DEF TakeRequest, NoRequest, ReadPacket, ReadPart, ReadGarbage, SendAck, ReadNothing, NotDue,
         Ping, PingFailed, Disconnected, Expired, TakeAnswer, BrokerAnswers, BrokerPublishes,
         BrokerDies, vars, history
  <2> QED BY <2>1, <2>2 DEF AnswerInv, OwnAnswers
<1>4. ASSUME OneAnswer(type), out' = out, in' = in, ~Held(type)' \/ (Held(type) /\ packet' = packet),
             Waits(type) => Waits(type)' /\ c'.next_packetid = c.next_packetid
      PROVE  OneAnswer(type)'
  <2>1. Sent(type)' = Sent(type) /\ Back(type)' = Back(type)
    BY <1>4 DEF Sent, Back
  <2> QED BY <1>0, <1>4, <1>a, <2>1, NothingNew
<1>5. ASSUME OneAnswer(type), UNCHANGED in, NEW p \in ToBroker, Transmit(p), p.type # type,
             ~Held(type)' \/ (Held(type) /\ packet' = packet),
             Waits(type) => Waits(type)' /\ c'.next_packetid = c.next_packetid
      PROVE  OneAnswer(type)'
  <2>1. \A i \in Sent(type)' : i + 0 \in Sent(type) /\ out'[i] = out[i + 0]
    BY <1>0, <1>5 DEF Transmit, Sent
  <2>2. Back(type)' = Back(type)
    BY <1>5 DEF Back
  <2> QED BY <1>0, <1>5, <1>a, <2>1, <2>2, NothingNew
<1>6. CASE TakeRequest
  <2>1. pc = "queue" /\ ~Waits(type) /\ UNCHANGED <<in, packet>>
    BY <1>6 DEF TakeRequest, Waits, Between
  <2>2. PICK d \in 0 .. CommandTimeout, t \in Request \cup {"PUBLISH"} :
          \/ t = "PUBLISH" /\ SendPublish
          \/ t \in Request /\ SendRequest(t, d)
          \/ SendFails(t, d)
    BY <1>6 DEF TakeRequest
  <2>3. OneAnswer(type)
    BY <1>3, <2>1, <1>6 DEF Open, DisconnectNetwork
  <2>4. CASE t = "PUBLISH" /\ SendPublish
    <3>1. Packet("PUBLISH", 0, TRUE) \in ToBroker /\ Packet("PUBLISH", 0, TRUE).type # type
      BY <1>b, NoneOK DEF Packet, ToBroker
    <3>2. ~Held(type)' /\ Transmit(Packet("PUBLISH", 0, TRUE))
      BY <2>1, <2>4 DEF SendPublish, Held
    <3> QED BY <1>5, <2>1, <2>3, <3>1, <3>2
  <2>5. CASE t \in Request /\ SendRequest(t, d)
    <3>1. Packet(t, getNextPacketId, TRUE) \in ToBroker
      BY <2>5, <1>0, NextId DEF Packet, ToBroker
    <3>2. ~Held(type)' /\ Transmit(Packet(t, getNextPacketId, TRUE))
      BY <2>1, <2>5 DEF SendRequest, Held
    <3>3. CASE t # type
      BY <1>5, <2>1, <2>3, <3>1, <3>2, <3>3 DEF Packet
    <3>4. CASE t = type
      <4>1. Back(type)' = {} /\ Sent(type) = {}
        BY <2>1, <2>3 DEF OneAnswer, Back
      <4>2. Waits(type)' /\ c'.next_packetid = getNextPacketId
        BY <1>0, <2>5, <3>4 DEF SendRequest, Waits, Between, Client
      <4>3. Packet(t, getNextPacketId, TRUE).id = getNextPacketId
        BY DEF Packet
      <4>4. \A i \in Sent(type)' : i = Len(out) + 1 /\ out'[i] = Packet(t, getNextPacketId, TRUE)
        BY <1>0, <3>1, <3>2, <4>1, TransmitAt DEF Sent
      <4> QED BY <3>2, <4>1, <4>2, <4>3, <4>4 DEF OneAnswer
    <3> QED BY <3>3, <3>4
  <2>6. CASE SendFails(t, d)
    <3>1. ~Held(type)' /\ UNCHANGED out
      BY <2>6 DEF SendFails, StartYield, Held
    <3> QED BY <1>4, <2>1, <2>3, <3>1
  <2> QED BY <2>2, <2>4, <2>5, <2>6
<1>7. CASE NoRequest
  <2>1. ~Held(type)' /\ ~Waits(type) /\ UNCHANGED <<out, in>> /\ OneAnswer(type)
    BY <1>3, <1>7 DEF NoRequest, StartYield, Held, Waits, Between, network, Open, DisconnectNetwork
  <2> QED BY <1>4, <2>1
<1>8. CASE ReadPacket
  <2>1. /\ OneAnswer(type) /\ ~Held(type) /\ UNCHANGED out /\ in' = Tail(in) /\ packet' = Head(in)
        /\ in # << >> /\ c'.next_packetid = c.next_packetid
        /\ pc = "read" /\ pc' = "keepalive" /\ UNCHANGED call
    BY <1>0, <1>3, <1>8, HandledOK DEF ReadPacket, Reading, Held, Open, DisconnectNetwork
  <2>2. \A i \in Back(type)' : i + 1 \in Back(type) /\ in'[i] = in[i + 1]
    BY <1>0, <2>1, ReadOK DEF Back
  <2>3. Sent(type)' = Sent(type)
    BY <2>1 DEF Sent
  <2>4. Waits(type) => Waits(type)'
    BY <2>1 DEF Waits, Between
  <2>5. CASE Head(in).type # Answer[type]
    <3>1. ~Held(type)'
      BY <2>1, <2>5 DEF Held
    <3> QED BY <1>0, <1>a, <2>1, <2>2, <2>3, <2>4, <3>1, NothingNew
  <2>6. CASE Head(in).type = Answer[type]
    <3>1. 1 \in Back(type) /\ in[1].id = c.next_packetid /\ Head(in) = in[1]
      BY <1>0, <2>1, <2>6, ReadOK DEF Back, OneAnswer
    <3>2. Waits(type)' /\ packet'.id = c'.next_packetid /\ Sent(type)' = {}
      BY <2>1, <2>3, <2>4, <3>1 DEF OneAnswer
    <3>3. Back(type)' = {}
      <4>1. SUFFICES ASSUME NEW i \in Back(type)' PROVE FALSE
        OBVIOUS
      <4>2. i \in Nat \ {0} /\ i + 1 \in Back(type)
        BY <1>0, <2>2 DEF Back, ConnectionOK
      <4>3. i + 1 = 1
        BY <2>1, <3>1, <4>2 DEF OneAnswer
      <4> QED BY <4>2, <4>3
    <3> QED BY <3>2, <3>3 DEF OneAnswer
  <2> QED BY <2>5, <2>6
<1>9. CASE ReadPart
  BY <1>9 DEF ReadPart
<1>10. CASE ReadGarbage
  <2>1. in # << >> /\ Head(in) = Garbage /\ UNCHANGED garbled
    BY <1>10 DEF ReadGarbage
  <2> QED BY <1>0, <2>1, ReadOK DEF AnswerInv, GarbageKnown
<1>23. CASE SendAck
  BY <1>23 DEF SendAck, AnswerInv, GarbageKnown
<1>11. CASE ReadNothing
  <2>1. /\ OneAnswer(type) /\ UNCHANGED <<out, in>> /\ packet' = None
        /\ pc = "read" /\ pc' = "keepalive" /\ UNCHANGED call
    BY <1>3, <1>11 DEF ReadNothing, Reading, Open, DisconnectNetwork
  <2>2. c'.next_packetid = c.next_packetid
    BY <1>0, <1>11 DEF ReadNothing, Client
  <2>3. ~Held(type)'
    BY <1>b, <2>1 DEF Held, None, Packet
  <2> QED BY <1>4, <2>1, <2>2, <2>3 DEF Waits, Between
<1>12. ASSUME OneAnswer(type), Proceed, pc = "keepalive", UNCHANGED call
       PROVE  /\ ~Held(type)' \/ (Held(type) /\ packet' = packet)
              /\ Waits(type) => Waits(type)'
  <2>1. (pc' = "answer" /\ packet' = packet) \/ pc' = "read"
    BY <1>12 DEF Proceed
  <2>2. Waits(type) => Waits(type)'
    BY <1>12, <2>1 DEF Waits, Between
  <2>3. CASE pc' = "answer" /\ packet' = packet
    BY <1>12, <2>2, <2>3 DEF Held
  <2>4. CASE pc' = "read"
    BY <2>2, <2>4 DEF Held
  <2> QED BY <2>1, <2>3, <2>4
<1>13. CASE NotDue
  <2>1. OneAnswer(type) /\ UNCHANGED <<out, in, c, call>> /\ Proceed /\ pc = "keepalive"
    BY <1>3, <1>13 DEF NotDue, network, Open, DisconnectNetwork
  <2> QED BY <1>4, <1>12, <2>1
<1>14. CASE Ping
  <2>1. OneAnswer(type) /\ UNCHANGED <<in, call>> /\ Proceed /\ pc = "keepalive"
    BY <1>3, <1>14 DEF Ping, Open, DisconnectNetwork
  <2>2. c'.next_packetid = c.next_packetid
    BY <1>0, <1>14 DEF Ping, Client
  <2>3. CASE UNCHANGED out
    BY <1>4, <1>12, <2>1, <2>2, <2>3
  <2>4. CASE Transmit(Packet("PINGREQ", 0, TRUE))
    <3>1. Packet("PINGREQ", 0, TRUE) \in ToBroker /\ Packet("PINGREQ", 0, TRUE).type # type
      BY <1>b, NoneOK DEF Packet, ToBroker
    <3> QED BY <1>5, <1>12, <2>1, <2>2, <2>4, <3>1
  <2> QED BY <1>14, <2>3, <2>4 DEF Ping
<1>15. CASE PingFailed
  <2>1. OneAnswer(type) /\ UNCHANGED <<out, in, call>> /\ Proceed /\ pc = "keepalive"
    BY <1>3, <1>15 DEF PingFailed, network, Open, DisconnectNetwork
  <2>2. c'.next_packetid = c.next_packetid
    BY <1>0, <1>15 DEF PingFailed, Client
  <2> QED BY <1>4, <1>12, <2>1, <2>2
<1>16. CASE Disconnected
  <2>1. /\ OneAnswer(type) /\ UNCHANGED <<out, in, call>> /\ pc' = (IF call = "YIELD" THEN "close" ELSE "read")
    BY <1>3, <1>16 DEF Disconnected, network, Open, DisconnectNetwork
  <2>2. c'.next_packetid = c.next_packetid
    BY <1>0, <1>16 DEF Disconnected, Client
  <2>3. ~Held(type)' /\ (Waits(type) => Waits(type)')
    BY <1>b, <2>1 DEF Held, Waits, Between
  <2> QED BY <1>4, <2>1, <2>2, <2>3
<1>17. CASE Expired
  <2>1. OneAnswer(type) /\ UNCHANGED <<out, in, c>> /\ pc' \notin {"keepalive", "answer"}
    BY <1>3, <1>17 DEF Expired, StartYield, network, Open, DisconnectNetwork
  <2>2. ~Waits(type)
    BY <1>17, <1>b DEF Expired, Waits
  <2> QED BY <1>4, <2>1, <2>2 DEF Held
<1>18. CASE TakeAnswer
  <2>1. /\ OneAnswer(type) /\ UNCHANGED <<out, in>> /\ pc = "answer" /\ pc' \in {"queue", "close", "read"}
        /\ packet.type = Answer[call] /\ call # "YIELD"
    BY <1>3, <1>18 DEF TakeAnswer, Accept, StartYield, network, Open, DisconnectNetwork, TypeInv, PhaseOK
  <2>2. ~Held(type)'
    BY <2>1 DEF Held
  <2>3. CASE call # type
    BY <1>4, <2>1, <2>2, <2>3 DEF Waits
  <2>4. CASE call = type
    <3>1. Sent(type)' = {} /\ Back(type)' = {}
      BY <2>1, <2>4 DEF OneAnswer, Held, Sent, Back
    <3> QED BY <2>2, <3>1 DEF OneAnswer
  <2> QED BY <2>3, <2>4
<1>19. CASE BrokerAnswers
  <2>1. OneAnswer(type) /\ UNCHANGED <<pc, call, c, packet>>
    BY <1>3, <1>19 DEF BrokerAnswers, task, Open, DisconnectNetwork
  <2>2. (Held(type)' <=> Held(type)) /\ (Waits(type)' <=> Waits(type))
    BY <2>1 DEF Held, Waits, Between
  <2>3. \A i \in Sent(type)' : i + 1 \in Sent(type) /\ out'[i] = out[i + 1]
    BY <1>0, <1>19, AnswersOK DEF Sent
  <2>4. CASE Head(out).type # type
    <3>1. \/ in' = in
          \/ \E p \in Received : in' = Append(in, p) /\ p.type # Answer[type]
      <4>1. \/ Head(out).type \in {"CONNECT", "PINGREQ", "PUBLISH", "ACK"}
            \/ Head(out).type \in Request /\ Answer[Head(out).type] # Answer[type]
        BY <1>0, <1>19, <1>b, <2>4, AnswersOK DEF ToBroker
      <4>2. CASE Head(out).type \in {"PUBLISH", "ACK"}
        BY <1>0, <1>19, <4>2, AnswersOK
      <4>3. CASE Head(out).type = "CONNECT"
        BY <1>0, <1>19, <1>b, <4>3, AnswersOK
      <4>4. CASE Head(out).type = "PINGREQ"
        BY <1>0, <1>19, <1>b, <4>4, AnswersOK
      <4>5. CASE Head(out).type \in Request /\ Answer[Head(out).type] # Answer[type]
        BY <1>0, <1>19, <4>5, AnswersOK DEF Request
      <4> QED BY <4>1, <4>2, <4>3, <4>4, <4>5
    <3>2. \A i \in Back(type)' : i + 0 \in Back(type) /\ in'[i] = in[i + 0]
      BY <1>0, <1>a, <3>1, AppendAt DEF Back
    <3> QED BY <1>0, <2>1, <2>2, <2>3, <3>2, NothingNew
  <2>5. CASE Head(out).type = type
    <3>1. /\ 1 \in Sent(type) /\ Head(out) = out[1] /\ Head(out).id = c.next_packetid
      BY <1>0, <1>19, <2>1, <2>5, AnswersOK DEF Sent, OneAnswer
    <3>2. Waits(type) /\ Back(type) = {} /\ ~Held(type)
      BY <2>1, <3>1 DEF OneAnswer
    <3>3. Sent(type)' = {}
      <4>1. SUFFICES ASSUME NEW i \in Sent(type)' PROVE FALSE
        OBVIOUS
      <4>2. i \in Nat \ {0} /\ i + 1 \in Sent(type)
        BY <1>0, <2>3 DEF Sent, ConnectionOK
      <4>3. i + 1 = 1
        BY <2>1, <3>1, <4>2 DEF OneAnswer
      <4> QED BY <4>2, <4>3
    <3>4. \E p \in Received : in' = Append(in, p) /\ p.id = c.next_packetid
      BY <1>0, <1>19, <1>b, <2>5, <3>1, AnswersOK
    <3>5. \A i \in Back(type)' : i = Len(in) + 1 /\ in'[i].id = c'.next_packetid
      BY <1>0, <2>1, <3>2, <3>4, AppendAt DEF Back
    <3> QED BY <2>2, <3>2, <3>3, <3>5 DEF OneAnswer
  <2> QED BY <2>4, <2>5
<1>20. CASE BrokerPublishes
  <2>1. OneAnswer(type) /\ UNCHANGED <<pc, call, c, packet, out>> /\ in' = Append(in, Packet("PUBLISH", 0, TRUE))
    BY <1>3, <1>20 DEF BrokerPublishes, task, Open, DisconnectNetwork
  <2>2. (Held(type)' <=> Held(type)) /\ (Waits(type)' <=> Waits(type)) /\ Sent(type)' = Sent(type)
    BY <2>1 DEF Held, Waits, Between, Sent
  <2>3. Packet("PUBLISH", 0, TRUE) \in Received /\ Packet("PUBLISH", 0, TRUE).type # Answer[type]
    BY <1>b, NoneOK DEF Packet, Received, FromBroker
  <2>4. \E p \in Received : in' = Append(in, p) /\ p.type # Answer[type]
    BY <2>1, <2>3
  <2>5. \A i \in Back(type)' : i + 0 \in Back(type) /\ in'[i] = in[i + 0]
    BY <1>0, <1>a, <2>4, AppendAt DEF Back
  <2> QED BY <1>0, <1>a, <2>1, <2>2, <2>5, NothingNew
<1>21. CASE BrokerDies
  <2>1. OneAnswer(type) /\ UNCHANGED <<pc, call, c, packet, in>> /\ out' = << >>
    BY <1>3, <1>21 DEF BrokerDies, task, Open, DisconnectNetwork
  <2>2. (Held(type)' <=> Held(type)) /\ (Waits(type)' <=> Waits(type)) /\ Back(type)' = Back(type)
        /\ Sent(type)' = {}
    BY <2>1 DEF Held, Waits, Between, Sent, Back
  <2> QED BY <1>0, <1>a, <2>1, <2>2, NothingNew
<1>22. CASE UNCHANGED vars
  <2>1. OneAnswer(type) /\ UNCHANGED <<pc, call, c, packet, in, out>>
    BY <1>3, <1>22 DEF vars, task, network, Open, DisconnectNetwork
  <2> QED BY <1>4, <2>1 DEF Held, Waits, Between
<1> QED BY <1>1, <1>2, <1>6, <1>7, <1>8, <1>9, <1>10, <1>11, <1>13, <1>14, <1>15, <1>16, <1>17,
           <1>18, <1>19, <1>20, <1>21, <1>22, <1>23, Steps

LEMMA OwnInit == Init => AnswerInv
<1> SUFFICES ASSUME Init PROVE AnswerInv
  OBVIOUS
<1>1. GarbageKnown
  BY DEF Init, GarbageKnown
<1>2. \A type \in Request : Sent(type) = {} /\ Back(type) = {} /\ ~Held(type)
  BY DEF Init, Sent, Back, Held
<1>3. OwnAnswers
  BY <1>2 DEF OwnAnswers, OneAnswer
<1> QED BY <1>1, <1>3 DEF AnswerInv

(* The answer a request takes is its own, unless one of the same kind      *)
(* timed out before or a packet came in parts (MQTTClient.c:407, 457).     *)
THEOREM AnswersAreOwn == Spec => []AnswerIsOwn
<1>1. TypeInv /\ TypeInv' /\ AnswerInv /\ [Next]_vars => AnswerInv'
  BY GarbageNext, OwnNext DEF AnswerInv
<1>2. TypeInv /\ AnswerInv => AnswerIsOwn
  <2> SUFFICES ASSUME TypeInv, AnswerInv, pc = "answer", call \in Request,
                      call \notin late, ~garbled
               PROVE  packet.id = c.next_packetid
    BY DEF AnswerIsOwn
  <2>1. Held(call)
    BY DEF Held, TypeInv, PhaseOK
  <2> QED BY <2>1 DEF AnswerInv, OwnAnswers, OneAnswer
<1> QED BY TypeInit, TypeNext, OwnInit, <1>1, <1>2, PTL DEF Spec

-----------------------------------------------------------------------------
(* What an outstanding ping of an undisturbed connection is waiting for.   *)
(* Its ping is on the way to the broker, and then the timer has not        *)
(* expired, because the broker answers in time.  Or the answer is on the   *)
(* way back, and then the task will read it before time passes for it: so  *)
(* one failure may be counted, after a send that took long, but not two.   *)
Pinging == \E i \in DOMAIN out : out[i].type = "PINGREQ"
Ponging == \E i \in DOMAIN in : in[i].type = "PINGRESP"

AboutToRead == pc \in {"read", "keepalive"} /\ call = "YIELD" /\ timer >= 0

AnswerExpected ==
  \/ Pinging /\ c.fail_count = 0 /\ KeepAlive - c.ping_timer <= waiting
  \/ Ponging /\ c.fail_count = 0 /\ (c.ping_timer >= 0 \/ AboutToRead)
  \/ Ponging /\ c.fail_count = 1 /\ c.ping_timer >= 0 /\ AboutToRead

Undisturbed == alive /\ ~pingLost /\ ~garbled

PingInv ==
  /\ waiting <= Lag
  /\ c.ping_outstanding /\ Undisturbed => AnswerExpected

LEMMA TransmitKeeps ==
  ASSUME ConnectionOK, NEW p \in ToBroker, Transmit(p)
  PROVE  /\ \A i \in DOMAIN out : i \in DOMAIN out' /\ out'[i] = out[i]
         /\ alive => Len(out) + 1 \in DOMAIN out' /\ out'[Len(out) + 1] = p
BY AppendProperties DEF ConnectionOK, Transmit

LEMMA WaitingNext ==
  ASSUME TypeInv, waiting <= Lag, [Next]_vars
  PROVE  waiting' <= Lag
<1>1. waiting \in Nat /\ Lag \in Nat
  BY NoneOK DEF TypeInv, StateOK
<1>2. CASE UNCHANGED waiting \/ waiting' = 0
  BY <1>1, <1>2
<1>3. ASSUME NEW d, Elapse(d) PROVE waiting' <= Lag
  BY <1>1, <1>3 DEF Elapse
<1> QED
  BY <1>2, <1>3, Steps
  DEF Open, DisconnectNetwork, TakeRequest, NoRequest, ReadPacket, ReadPart, ReadGarbage,
      SendAck, ReadNothing, NotDue, Ping, PingFailed, Disconnected, Expired, TakeAnswer, BrokerAnswers,
      BrokerPublishes, BrokerDies, vars, network

(* An alarm needs a ping that nobody will answer.                          *)
LEMMA NoAlarmYet ==
  ASSUME TypeInv, waiting <= Lag, AnswerExpected, c.ping_timer < 0
  PROVE  Ponging /\ c.fail_count = 0 /\ ~LastChance /\ AboutToRead
<1>1. c.ping_timer \in -1 .. KeepAlive /\ waiting \in Nat /\ KeepAlive \in Nat /\ Lag \in Nat
  BY ClientOK, NoneOK DEF TypeInv, StateOK
<1>2. Ponging /\ c.fail_count = 0 /\ AboutToRead
  BY <1>1, LagAssumption DEF AnswerExpected
<1> QED BY <1>2, NoneOK, AllowedAssumption DEF LastChance

LEMMA PingNext ==
  ASSUME TypeInv, TypeInv', AnswerInv, PingInv, [Next]_vars
  PROVE  PingInv'
<1> SUFFICES ASSUME c'.ping_outstanding, alive', ~pingLost', ~garbled'
             PROVE  AnswerExpected'
  BY WaitingNext DEF PingInv, Undisturbed
<1>0. /\ ConnectionOK /\ ConnectionOK' /\ c \in Client
      /\ c.ping_timer \in -1 .. KeepAlive /\ c.fail_count \in Nat /\ c.ping_outstanding \in BOOLEAN
      /\ KeepAlive \in Nat /\ YieldTime \in Nat /\ Lag \in Nat
      /\ waiting \in Nat /\ waiting <= Lag
  BY ClientOK, NoneOK DEF TypeInv, StateOK, PingInv
<1>1. CASE Open
  BY <1>0, <1>1, NewClientOK, ClientOK DEF Open
<1>2. CASE DisconnectNetwork
  BY <1>2 DEF DisconnectNetwork
<1>3. \/ Undisturbed \/ Open \/ DisconnectNetwork
  BY Steps DEF TakeRequest, NoRequest, ReadPacket, ReadPart, ReadGarbage, SendAck, ReadNothing, NotDue,
       Ping, PingFailed, Disconnected, Expired, TakeAnswer, BrokerAnswers, BrokerPublishes,
       BrokerDies, vars, network, history, Undisturbed
<1>4. c.ping_outstanding /\ ~Open /\ ~DisconnectNetwork => AnswerExpected
  BY <1>3 DEF PingInv
<1>5. CASE TakeRequest
  <2>1. pc = "queue" /\ UNCHANGED in /\ c' \in Client /\ alive
    BY <1>5 DEF TakeRequest, TypeInv, StateOK
  <2>2. PICK d \in 0 .. CommandTimeout, t \in Request \cup {"PUBLISH"} :
          /\ Elapse(d)
          /\ \/ t = "PUBLISH" /\ SendPublish
             \/ t \in Request /\ SendRequest(t, d)
             \/ SendFails(t, d)
    BY <1>5 DEF TakeRequest
  <2>3. /\ c'.ping_outstanding = c.ping_outstanding /\ c'.fail_count = c.fail_count
        /\ \/ c'.ping_timer = KeepAlive
           \/ c'.ping_timer = Left(c.ping_timer, d) /\ pc' = "read" /\ call' = "YIELD" /\ timer' = YieldTime
    BY <1>0, <2>2 DEF SendPublish, SendRequest, SendFails, StartYield, Client
  <2>4. d \in Nat /\ c'.ping_timer \in Int /\ c'.ping_timer >= c.ping_timer - d
    BY <1>0, <2>3, NoneOK DEF Left
  <2>5. AnswerExpected /\ (c.ping_timer >= 0 \/ Pinging) /\ c.fail_count = 0
    BY <1>0, <1>4, <1>5, <2>1, <2>3 DEF AnswerExpected, AboutToRead, Open, DisconnectNetwork
  <2>6. CASE Pinging /\ KeepAlive - c.ping_timer <= waiting
    <3>1. Pinging' /\ out # << >>
      <4>1. CASE UNCHANGED out
        BY <1>0, <2>6, <4>1 DEF Pinging, ConnectionOK
      <4>2. ASSUME NEW p \in ToBroker, Transmit(p) PROVE Pinging' /\ out # << >>
        BY <1>0, <2>6, <4>2, TransmitKeeps DEF Pinging, ConnectionOK
      <4>3. Packet("PUBLISH", 0, TRUE) \in ToBroker
        BY NoneOK DEF Packet, ToBroker
      <4>4. t \in Request => Packet(t, getNextPacketId, TRUE) \in ToBroker
        BY <1>0, NextId DEF Packet, ToBroker
      <4> QED BY <2>2, <4>1, <4>2, <4>3, <4>4 DEF SendPublish, SendRequest, SendFails
    <3>2. waiting' = waiting + d
      BY <2>1, <2>2, <3>1 DEF Elapse
    <3> QED BY <1>0, <2>3, <2>4, <2>5, <2>6, <3>1, <3>2 DEF AnswerExpected
  <2>7. CASE Ponging /\ c.ping_timer >= 0
    <3>1. Ponging'
      BY <2>1, <2>7 DEF Ponging
    <3>2. c'.ping_timer >= 0 \/ AboutToRead'
      BY <1>0, <2>3 DEF AboutToRead
    <3> QED BY <2>3, <2>5, <3>1, <3>2 DEF AnswerExpected
  <2> QED BY <2>1, <2>5, <2>6, <2>7 DEF AnswerExpected, AboutToRead
<1>6. CASE NoRequest
  <2>1. pc = "queue" /\ UNCHANGED <<in, out, c, waiting>>
    BY <1>6 DEF NoRequest, network
  <2>2. AnswerExpected /\ c.fail_count = 0
    BY <1>4, <2>1 DEF AnswerExpected, AboutToRead, Open, DisconnectNetwork
  <2> QED BY <2>1, <2>2 DEF AnswerExpected, AboutToRead, Pinging, Ponging
<1>7. CASE ReadPacket
  <2>1. /\ pc = "read" /\ pc' = "keepalive" /\ in # << >> /\ in' = Tail(in)
        /\ UNCHANGED <<call, timer, out, waiting>>
    BY <1>7 DEF ReadPacket, Reading
  <2>2. c' = c /\ Head(in).type # "PINGRESP"
    BY <1>0, <1>7, HandledOK DEF ReadPacket
  <2>3. AnswerExpected
    BY <1>4, <2>1, <2>2 DEF Open, DisconnectNetwork
  <2>4. Ponging => Ponging'
    <3> SUFFICES ASSUME NEW i \in DOMAIN in, in[i].type = "PINGRESP"
                 PROVE  Ponging'
      BY DEF Ponging
    <3>1. i # 1 /\ i \in 1 .. Len(in) /\ Len(in) \in Nat
      BY <1>0, <2>1, <2>2, ReadOK DEF ConnectionOK
    <3>2. i - 1 \in DOMAIN in' /\ in'[i - 1] = in[i]
      BY <1>0, <2>1, <3>1, ReadOK
    <3> QED BY <3>2 DEF Ponging
  <2> QED BY <2>1, <2>2, <2>3, <2>4 DEF AnswerExpected, AboutToRead, Pinging
<1>8. CASE ReadPart
  BY <1>8 DEF ReadPart
<1>9. CASE ReadGarbage
  <2>1. in # << >> /\ Head(in) = Garbage /\ UNCHANGED garbled
    BY <1>9 DEF ReadGarbage
  <2> QED BY <1>0, <2>1, ReadOK DEF AnswerInv, GarbageKnown
<1>21. CASE SendAck
  BY <1>21 DEF SendAck, AnswerInv, GarbageKnown
<1>10. CASE ReadNothing
  <2>1. in = << >> /\ UNCHANGED out /\ Elapse(1) /\ pc = "read" /\ alive
    BY <1>10 DEF ReadNothing, Reading
  <2>2. /\ c'.ping_outstanding = c.ping_outstanding /\ c'.fail_count = c.fail_count
        /\ c'.ping_timer = Left(c.ping_timer, 1)
    BY <1>0, <1>10 DEF ReadNothing, Client
  <2>3. Pinging /\ c.fail_count = 0 /\ KeepAlive - c.ping_timer <= waiting
    BY <1>4, <2>1, <2>2 DEF AnswerExpected, Ponging, Open, DisconnectNetwork
  <2>4. Pinging' /\ waiting' = waiting + 1
    BY <2>1, <2>3 DEF Pinging, Elapse
  <2>5. c'.ping_timer \in Int /\ c'.ping_timer >= c.ping_timer - 1
    BY <1>0, <2>2 DEF Left
  <2> QED BY <1>0, <2>2, <2>3, <2>4, <2>5 DEF AnswerExpected
<1>11. CASE NotDue
  <2>1. UNCHANGED <<call, timer, c, in, out, waiting>> /\ pc = "keepalive" /\ Proceed
    BY <1>11 DEF NotDue, network
  <2>2. AnswerExpected
    BY <1>4, <2>1 DEF Open, DisconnectNetwork
  <2>3. AboutToRead => AboutToRead'
    BY <2>1 DEF AboutToRead, Proceed, Answered
  <2> QED BY <2>1, <2>2, <2>3 DEF AnswerExpected, Pinging, Ponging
<1>12. CASE Ping
  <2>1. c.fail_count = 0 /\ alive /\ UNCHANGED waiting
    BY <1>12 DEF Ping, TypeInv, PhaseOK
  <2>2. c'.fail_count = 0 /\ c'.ping_timer = KeepAlive
    BY <1>0, <1>12, <2>1 DEF Ping, Client
  <2>3. Transmit(Packet("PINGREQ", 0, TRUE))
    BY <1>12 DEF Ping
  <2>4. Pinging'
    <3>1. Packet("PINGREQ", 0, TRUE) \in ToBroker
      BY NoneOK DEF Packet, ToBroker
    <3>2. Len(out) + 1 \in DOMAIN out' /\ out'[Len(out) + 1] = Packet("PINGREQ", 0, TRUE)
      BY <1>0, <2>1, <2>3, <3>1, TransmitKeeps
    <3> QED BY <3>2 DEF Pinging, Packet
  <2> QED BY <1>0, <2>1, <2>2, <2>4 DEF AnswerExpected
<1>13. CASE PingFailed
  <2>1. /\ c.ping_outstanding /\ c.ping_timer < 0 /\ Proceed /\ pc = "keepalive"
        /\ UNCHANGED <<call, timer, in>>
    BY <1>13 DEF PingFailed, Due, network
  <2>2. Ponging /\ c.fail_count = 0 /\ AboutToRead
    BY <1>0, <1>4, <2>1, NoAlarmYet DEF Open, DisconnectNetwork
  <2>3. c'.fail_count = 1 /\ c'.ping_timer = KeepAlive
    BY <1>0, <1>13, <2>2 DEF PingFailed, Client
  <2>4. Ponging' /\ AboutToRead'
    BY <2>1, <2>2 DEF Ponging, AboutToRead, Proceed, Answered
  <2> QED BY <1>0, <2>3, <2>4 DEF AnswerExpected
<1>14. CASE Disconnected
  <2>1. c.ping_outstanding /\ c.ping_timer < 0 /\ LastChance /\ pc = "keepalive"
    BY <1>14 DEF Disconnected, Due
  <2> QED BY <1>0, <1>4, <2>1, NoAlarmYet DEF Open, DisconnectNetwork
<1>15. CASE Expired
  <2>1. UNCHANGED <<c, in, out, waiting>> /\ pc = "read" /\ timer < 0
    BY <1>15 DEF Expired, network
  <2>2. AnswerExpected /\ ~AboutToRead
    <3>1. timer \in Int
      BY DEF TypeInv, StateOK
    <3> QED BY <1>4, <2>1, <3>1 DEF Open, DisconnectNetwork, AboutToRead
  <2> QED BY <2>1, <2>2 DEF AnswerExpected, Pinging, Ponging
<1>16. CASE TakeAnswer
  <2>1. UNCHANGED <<in, out, waiting>> /\ pc = "answer"
    BY <1>16 DEF TakeAnswer, network
  <2>2. /\ c'.ping_outstanding = c.ping_outstanding /\ c'.fail_count = c.fail_count
        /\ c'.ping_timer = c.ping_timer
    BY <1>0, <1>16 DEF TakeAnswer, Accept, Client
  <2>3. AnswerExpected /\ ~AboutToRead
    BY <1>4, <2>1, <2>2 DEF Open, DisconnectNetwork, AboutToRead
  <2> QED BY <2>1, <2>2, <2>3 DEF AnswerExpected, Pinging, Ponging
<1>17. CASE BrokerAnswers
  <2>1. UNCHANGED <<pc, call, timer, c>> /\ alive
    BY <1>17 DEF BrokerAnswers, task
  <2>2. ~Open /\ ~DisconnectNetwork
    BY <1>17, <2>1 DEF BrokerAnswers, Open, DisconnectNetwork
  <2>3. AnswerExpected
    BY <1>4, <2>1, <2>2
  <2>4. Ponging => Ponging'
    BY <1>0, <1>17, AnswersOK, AppendAt DEF Ponging
  <2>5. AboutToRead' <=> AboutToRead
    BY <2>1 DEF AboutToRead
  <2>6. CASE Ponging
    BY <1>0, <2>1, <2>3, <2>4, <2>5, <2>6, LagAssumption DEF AnswerExpected
  <2>7. CASE Pinging /\ c.fail_count = 0 /\ KeepAlive - c.ping_timer <= waiting
    <3>1. CASE Head(out).type = "PINGREQ"
      <4>1. Ponging'
        <5>1. PICK p \in Received : in' = Append(in, p) /\ p.type = "PINGRESP"
          BY <1>0, <1>17, <3>1, AnswersOK
        <5> QED BY <1>0, <5>1, AppendAt DEF Ponging
      <4> QED BY <1>0, <2>1, <2>7, <4>1, LagAssumption DEF AnswerExpected
    <3>2. CASE Head(out).type # "PINGREQ"
      <4>1. PICK i \in DOMAIN out : out[i].type = "PINGREQ"
        BY <2>7 DEF Pinging
      <4>2. i # 1 /\ i \in 1 .. Len(out) /\ Len(out) \in Nat
        BY <1>0, <1>17, <3>2, <4>1, AnswersOK DEF ConnectionOK
      <4>3. i - 1 \in DOMAIN out' /\ out'[i - 1] = out[i]
        BY <1>0, <1>17, <4>2, AnswersOK
      <4>4. Pinging' /\ out' # << >>
        BY <1>0, <4>1, <4>3 DEF Pinging, ConnectionOK
      <4>5. UNCHANGED waiting
        BY <1>17, <4>4 DEF BrokerAnswers
      <4> QED BY <2>1, <2>7, <4>4, <4>5 DEF AnswerExpected
    <3> QED BY <3>1, <3>2
  <2> QED BY <2>3, <2>6, <2>7 DEF AnswerExpected
<1>18. CASE BrokerPublishes
  <2>1. UNCHANGED <<pc, call, timer, c, out, waiting>> /\ in' = Append(in, Packet("PUBLISH", 0, TRUE))
    BY <1>18 DEF BrokerPublishes, task
  <2>2. Packet("PUBLISH", 0, TRUE) \in Received
    BY NoneOK DEF Packet, Received, FromBroker
  <2>3. Ponging => Ponging'
    BY <1>0, <2>1, <2>2, AppendAt DEF Ponging
  <2>4. AnswerExpected
    BY <1>4, <1>18, <2>1 DEF BrokerPublishes, Open, DisconnectNetwork
  <2> QED BY <2>1, <2>3, <2>4 DEF AnswerExpected, AboutToRead, Pinging
<1>19. CASE BrokerDies
  BY <1>19 DEF BrokerDies
<1>20. CASE UNCHANGED vars
  <2>1. UNCHANGED <<pc, call, timer, c, out, in, waiting, alive>>
    BY <1>20 DEF vars, task, network
  <2>2. AnswerExpected
    BY <1>4, <2>1 DEF Open, DisconnectNetwork
  <2> QED BY <2>1, <2>2 DEF AnswerExpected, AboutToRead, Pinging, Ponging
<1> QED BY <1>1, <1>2, <1>5, <1>6, <1>7, <1>8, <1>9, <1>10, <1>11, <1>12, <1>13, <1>14, <1>15,
           <1>16, <1>17, <1>18, <1>19, <1>20, <1>21, Steps

LEMMA PingInit == Init => PingInv
BY NoneOK DEF Init, PingInv, Undisturbed

(* The connection of a broker that answers in time is never declared       *)
(* broken, unless a ping could not be sent or a packet came in parts       *)
(* (MQTTClient.c:187-211, 271-276): in any number of sessions, requests    *)
(* and messages, with any keep-alive period and any limit above 1.         *)
THEOREM NeverFalseAlarm == Spec => NoFalseAlarm
<1>1. TypeInv /\ AnswerInv /\ [Next]_vars => AnswerInv'
  BY TypeNext, GarbageNext, OwnNext DEF AnswerInv
<1>2. TypeInv /\ AnswerInv /\ PingInv /\ [Next]_vars => PingInv'
  BY TypeNext, PingNext
<1>3. TypeInv /\ PingInv /\ [Next]_vars
        => [call = "YIELD" /\ pc = "keepalive" /\ pc' = "close" => ~alive \/ pingLost \/ garbled]_vars
  <2> SUFFICES ASSUME TypeInv, PingInv, [Next]_vars, pc = "keepalive", pc' = "close", Undisturbed
               PROVE  FALSE
    BY DEF Undisturbed
  <2>1. Disconnected
    BY Steps DEF Open, DisconnectNetwork, TakeRequest, NoRequest, ReadPacket, ReadPart, ReadGarbage,
         SendAck, ReadNothing, Reading, NotDue, Ping, PingFailed, Proceed, Expired, TakeAnswer, BrokerAnswers,
         BrokerPublishes, BrokerDies, vars, task
  <2>2. c.ping_outstanding /\ c.ping_timer < 0 /\ LastChance
    BY <2>1 DEF Disconnected, Due
  <2> QED BY <2>2, NoAlarmYet DEF PingInv
<1> QED BY TypeInit, TypeNext, OwnInit, PingInit, <1>1, <1>2, <1>3, PTL DEF Spec, NoFalseAlarm

-----------------------------------------------------------------------------
(* The silence that the keep-alive periods so far and the requests and     *)
(* acks tried since the last packet account for.                           *)
Period == KeepAlive + 1
Delay == KeepAlive + 1 + CommandTimeout

Periods == IF c.ping_outstanding THEN 1 + c.fail_count ELSE 0

Spare == Periods * Period + (KeepAlive - c.ping_timer) + tried * Delay - silent

AllFailed == c.ping_outstanding /\ c.fail_count = MAX_FAIL_ALLOWED - 1

(* All of it, but for what comes after an alarm: a wait for an answer      *)
(* swallows it, and the alarm is repeated by the next MQTTYield.           *)
WhileConnecting == Between /\ call = "CONNECT" => silent <= CommandTimeout - timer

InQueue == pc = "queue" => Spare >= 0 /\ (c.ping_timer < 0 => Spare >= 1)

InYield ==
  /\ pc = "read" /\ call = "YIELD" =>
       IF c.ping_timer >= 0 THEN Spare >= 0
       ELSE timer >= 0 /\ (Spare >= 1 \/ (AllFailed /\ Spare >= -CommandTimeout))
  /\ pc = "keepalive" /\ call = "YIELD" =>
       Spare >= 0 \/ (c.ping_timer < 0 /\ AllFailed /\ Spare >= -CommandTimeout - 1)

InRequest ==
  /\ pc = "read" /\ call \in Request =>
       IF c.ping_timer >= 0 THEN Spare >= 0
       ELSE Spare >= timer + 1 - CommandTimeout /\ (AllFailed \/ Spare >= 1)
  /\ pc = "keepalive" /\ call \in Request =>
       IF c.ping_timer >= 0 THEN Spare >= 0
       ELSE Spare >= timer + 1 - CommandTimeout /\ (AllFailed \/ Spare >= 0)

InAck == pc = "ack" => Spare >= 0 /\ (c.ping_timer < 0 => Spare >= 1)

SilenceAccounted ==
  /\ WhileConnecting /\ InQueue /\ InYield /\ InRequest /\ InAck
  /\ pc \in {"close", "crashed"} => DeadBrokerNoticed

(* What the provers need to know of products.                              *)
LEMMA Products ==
  ASSUME NEW a \in Nat, NEW b \in Nat, NEW n \in Nat
  PROVE  /\ a * n \in Nat /\ (a + 1) * n = a * n + n /\ 0 * n = 0
         /\ a <= b => a * n <= b * n
<1>1. a * n \in Nat /\ (a + 1) * n = a * n + n /\ 0 * n = 0
  OBVIOUS
<1>2. ASSUME a <= b PROVE a * n <= b * n
  <2>1. PICK k \in Nat : b = a + k
    <3>1. b - a \in Nat /\ b = a + (b - a)
      BY <1>2
    <3> QED BY <3>1
  <2>2. b * n = a * n + k * n /\ k * n \in Nat /\ a * n \in Nat
    BY <2>1
  <2> QED BY <2>2
<1> QED BY <1>1, <1>2

(* Spare, and Spare after a step, in terms of what the step changes.       *)
LEMMA SpareOK ==
  ASSUME TypeInv
  PROVE  /\ Periods \in Nat /\ Periods <= MAX_FAIL_ALLOWED
         /\ Period \in Nat /\ Delay \in Nat
         /\ Periods * Period \in Nat /\ tried * Delay \in Nat /\ Spare \in Int
<1>1. /\ c.fail_count \in 0 .. MAX_FAIL_ALLOWED - 1 /\ c.ping_outstanding \in BOOLEAN
      /\ KeepAlive \in Nat /\ CommandTimeout \in Nat /\ MAX_FAIL_ALLOWED \in Nat \ {0}
      /\ tried \in Nat /\ silent \in Nat /\ c.ping_timer \in -1 .. KeepAlive
  BY ClientOK, NoneOK DEF TypeInv, StateOK
<1>2. Periods \in Nat /\ Periods <= MAX_FAIL_ALLOWED
  BY <1>1 DEF Periods
<1>3. Period \in Nat /\ Delay \in Nat
  BY <1>1 DEF Period, Delay
<1>4. Periods * Period \in Nat /\ tried * Delay \in Nat
  BY <1>1, <1>2, <1>3, Products
<1> QED BY <1>1, <1>2, <1>3, <1>4 DEF Spare

LEMMA SpareNoticed ==
  ASSUME TypeInv, Spare >= -CommandTimeout - 1 \/ silent <= CommandTimeout + 1
  PROVE  DeadBrokerNoticed
<1>1. /\ Periods \in Nat /\ Periods <= MAX_FAIL_ALLOWED /\ Period \in Nat /\ Delay \in Nat
      /\ Periods * Period \in Nat /\ tried * Delay \in Nat
      /\ MAX_FAIL_ALLOWED \in Nat /\ KeepAlive \in Nat /\ CommandTimeout \in Nat
      /\ c.ping_timer \in -1 .. KeepAlive /\ silent \in Nat
  BY SpareOK, ClientOK, NoneOK DEF TypeInv, StateOK
<1>2. /\ Periods * Period <= MAX_FAIL_ALLOWED * Period
      /\ (MAX_FAIL_ALLOWED + 1) * Period = MAX_FAIL_ALLOWED * Period + Period
      /\ MAX_FAIL_ALLOWED * Period \in Nat
  BY <1>1, Products
<1>3. silent <= (MAX_FAIL_ALLOWED + 1) * Period + tried * Delay + CommandTimeout + 1
  <2>1. CASE Spare >= -CommandTimeout - 1
    <3>1. silent <= Periods * Period + (KeepAlive - c.ping_timer) + tried * Delay + CommandTimeout + 1
      BY <1>1, <2>1 DEF Spare
    <3>2. KeepAlive - c.ping_timer <= Period
      BY <1>1 DEF Period
    <3> QED BY <1>1, <1>2, <3>1, <3>2
  <2>2. CASE silent <= CommandTimeout + 1
    BY <1>1, <1>2, <2>2
  <2> QED BY <2>1, <2>2
<1> QED BY <1>3 DEF DeadBrokerNoticed, Period, Delay

LEMMA SpareHeard ==
  ASSUME TypeInv', silent' = 0, tried' = 0
  PROVE  Spare' >= 0 /\ (c'.ping_timer < 0 => Spare' >= 1)
<1>1. c' \in Client
  BY DEF TypeInv, StateOK
<1>2. /\ c'.fail_count \in Nat /\ c'.ping_timer \in -1 .. KeepAlive
      /\ KeepAlive \in Nat /\ CommandTimeout \in Nat
  BY <1>1, NoneOK DEF Client
<1>3. Period \in Nat /\ Delay \in Nat /\ Periods' \in Nat
  BY <1>2 DEF Period, Delay, Periods
<1>4. Periods' * Period \in Nat /\ 0 * Delay = 0
  BY <1>3, Products
<1>5. Spare' = Periods' * Period + (KeepAlive - c'.ping_timer) + 0 * Delay - 0
  BY DEF Spare
<1> QED BY <1>2, <1>4, <1>5

LEMMA SpareKept ==
  ASSUME UNCHANGED <<silent, tried>>,
         UNCHANGED <<c.ping_outstanding, c.fail_count, c.ping_timer>>
  PROVE  Spare' = Spare /\ (AllFailed' <=> AllFailed)
BY DEF Spare, Periods, Period, Delay, AllFailed

(* Time passes: the timer accounts for it until it has expired.            *)
LEMMA SparePasses ==
  ASSUME TypeInv, silent' = silent + 1, UNCHANGED tried,
         UNCHANGED <<c.ping_outstanding, c.fail_count>>, c'.ping_timer = Left(c.ping_timer, 1)
  PROVE  /\ c.ping_timer >= 0 => Spare' = Spare
         /\ c.ping_timer < 0 => Spare' = Spare - 1 /\ c'.ping_timer < 0
         /\ AllFailed' <=> AllFailed
<1>1. /\ c.ping_timer \in -1 .. KeepAlive /\ KeepAlive \in Nat /\ silent \in Nat
      /\ Periods * Period \in Nat /\ tried * Delay \in Nat
  BY SpareOK, ClientOK, NoneOK DEF TypeInv, StateOK
<1>2. Periods' = Periods /\ (AllFailed' <=> AllFailed)
  BY DEF Periods, AllFailed
<1>3. Spare' = Periods * Period + (KeepAlive - c'.ping_timer) + tried * Delay - (silent + 1)
  BY <1>2 DEF Spare, Period, Delay
<1>4. /\ c.ping_timer >= 0 => c'.ping_timer = c.ping_timer - 1
      /\ c.ping_timer < 0 => c.ping_timer = -1 /\ c'.ping_timer = -1
  BY <1>1 DEF Left
<1> QED BY <1>1, <1>2, <1>3, <1>4 DEF Spare

(* A request is tried: it accounts for a period and a timeout.             *)
LEMMA SpareTries ==
  ASSUME TypeInv, NEW d \in 0 .. CommandTimeout, silent' = silent + d, tried' = tried + 1,
         UNCHANGED <<c.ping_outstanding, c.fail_count>>
  PROVE  /\ c'.ping_timer = KeepAlive => Spare' >= Spare
         /\ c'.ping_timer = Left(c.ping_timer, d) => Spare' >= Spare + 1
         /\ Spare' \in Int \/ c'.ping_timer \notin {KeepAlive, Left(c.ping_timer, d)}
<1>1. /\ c.ping_timer \in -1 .. KeepAlive /\ KeepAlive \in Nat /\ silent \in Nat /\ tried \in Nat
      /\ CommandTimeout \in Nat /\ d \in Nat /\ d <= CommandTimeout
      /\ Delay \in Nat /\ Periods * Period \in Nat /\ tried * Delay \in Nat
  BY SpareOK, ClientOK, NoneOK DEF TypeInv, StateOK
<1>2. Periods' = Periods
  BY DEF Periods
<1>3. (tried + 1) * Delay = tried * Delay + Delay
  BY <1>1, Products
<1>4. Spare' = Periods * Period + (KeepAlive - c'.ping_timer) + (tried * Delay + Delay) - (silent + d)
  BY <1>2, <1>3 DEF Spare, Period, Delay
<1>5. CASE c'.ping_timer = KeepAlive
  <2>1. Spare' = Periods * Period + tried * Delay + Delay - (silent + d)
    BY <1>1, <1>4, <1>5
  <2>2. Left(c.ping_timer, d) \in Int /\ Left(c.ping_timer, d) <= c.ping_timer
    BY <1>1 DEF Left
  <2>3. Spare' >= Spare
    BY <1>1, <2>1 DEF Spare, Delay
  <2>4. c'.ping_timer = Left(c.ping_timer, d) => Spare' >= Spare + 1
    BY <1>1, <1>4, <2>2 DEF Spare, Delay
  <2> QED BY <1>1, <1>5, <2>1, <2>3, <2>4
<1>6. CASE c'.ping_timer = Left(c.ping_timer, d)
  <2>1. Left(c.ping_timer, d) \in Int /\ Left(c.ping_timer, d) <= c.ping_timer
    BY <1>1 DEF Left
  <2> QED BY <1>1, <1>4, <1>6, <2>1 DEF Spare, Delay
<1> QED BY <1>5, <1>6

(* A period ends: the next one begins with the timer set.                  *)
LEMMA SpareNextPeriod ==
  ASSUME TypeInv, UNCHANGED <<silent, tried>>, c.ping_timer < 0, c'.ping_timer = KeepAlive,
         c'.ping_outstanding,
         c'.fail_count = IF c.ping_outstanding THEN c.fail_count + 1 ELSE 0
  PROVE  Spare' = Spare
<1>1. /\ c.ping_timer = -1 /\ KeepAlive \in Nat /\ silent \in Nat /\ c.fail_count \in Nat
      /\ Periods \in Nat /\ Period \in Nat /\ Periods * Period \in Nat /\ tried * Delay \in Nat
  BY SpareOK, ClientOK, NoneOK DEF TypeInv, StateOK
<1>2. Periods' = Periods + 1
  BY <1>1 DEF Periods
<1>3. (Periods + 1) * Period = Periods * Period + Period
  BY <1>1, Products
<1>4. Spare' = Periods * Period + Period + (KeepAlive - KeepAlive) + tried * Delay - silent
  BY <1>2, <1>3 DEF Spare, Period, Delay
<1> QED BY <1>1, <1>4 DEF Spare, Period

LEMMA SparePrimed == TypeInv' => Spare' \in Int
<1>1. TypeInv => Spare \in Int
  BY SpareOK
<1>2. (TypeInv => Spare \in Int)'
  BY <1>1, PTL
<1> QED BY <1>2

LEMMA NoticedPrimed ==
  TypeInv' /\ (Spare' >= -CommandTimeout - 1 \/ silent' <= CommandTimeout + 1) => DeadBrokerNoticed'
<1>1. TypeInv /\ (Spare >= -CommandTimeout - 1 \/ silent <= CommandTimeout + 1) => DeadBrokerNoticed
  BY SpareNoticed
<1>2. (TypeInv /\ (Spare >= -CommandTimeout - 1 \/ silent <= CommandTimeout + 1) => DeadBrokerNoticed)'
  BY <1>1, PTL
<1> QED BY <1>2

LEMMA HeardNoticed == TypeInv' /\ silent' = 0 => DeadBrokerNoticed'
<1>1. 0 <= CommandTimeout + 1
  BY NoneOK
<1> QED BY <1>1, NoticedPrimed

LEMMA HeardKeeps ==
  ASSUME TypeInv, TypeInv', SilenceAccounted, Heard, pc = "read", UNCHANGED <<call, timer>>,
         c'.ping_timer = c.ping_timer,
         pc' = "keepalive" \/ (pc' = "read" /\ UNCHANGED c /\ timer >= 0)
           \/ pc' \in {"ack", "crashed"}
  PROVE  SilenceAccounted'
<1>1. /\ Spare' >= 0 /\ (c'.ping_timer < 0 => Spare' >= 1)
      /\ silent' = 0 /\ Spare' \in Int
  <2>1. silent' = 0 /\ tried' = 0
    BY DEF Heard
  <2> QED BY <2>1, SpareHeard, SparePrimed
<1>2. /\ timer \in Int /\ CommandTimeout \in Nat /\ YieldTime \in Nat
      /\ c.ping_timer \in -1 .. KeepAlive /\ KeepAlive \in Nat
      /\ call # "YIELD" => timer <= CommandTimeout
  BY ClientOK, NoneOK DEF TypeInv, StateOK, PhaseOK
<1>3. WhileConnecting'
  BY <1>1, <1>2 DEF WhileConnecting
<1>4. InQueue' /\ InAck' /\ (pc' \in {"close", "crashed"} => DeadBrokerNoticed')
  BY <1>1, HeardNoticed DEF InQueue, InAck
<1>5. InYield'
  <2>1. CASE pc' = "keepalive"
    BY <1>1, <2>1 DEF InYield
  <2>2. CASE pc' = "read" /\ timer >= 0
    BY <1>1, <1>2, <2>2 DEF InYield
  <2>3. CASE pc' \in {"ack", "crashed"}
    BY <2>3 DEF InYield
  <2> QED BY <2>1, <2>2, <2>3
<1>6. InRequest'
  <2>1. call \in Request => timer + 1 - CommandTimeout <= 1
    BY <1>2 DEF Request
  <2>2. CASE pc' = "keepalive"
    BY <1>1, <1>2, <2>1, <2>2 DEF InRequest
  <2>3. CASE pc' = "read"
    BY <1>1, <1>2, <2>1, <2>3 DEF InRequest
  <2>4. CASE pc' \in {"ack", "crashed"}
    BY <2>4 DEF InRequest
  <2> QED BY <2>2, <2>3, <2>4
<1> QED BY <1>3, <1>4, <1>5, <1>6 DEF SilenceAccounted

LEMMA MoreThan ==
  ASSUME NEW m \in Int, NEW n \in Int, NEW t \in Int, m >= 0, n >= m + 1,
         t + 1 - CommandTimeout <= 1
  PROVE  n >= 1 /\ n >= 0 /\ n >= t + 1 - CommandTimeout
<1>1. CommandTimeout \in Nat
  BY NoneOK
<1> QED BY <1>1

LEMMA SilenceInit == Init => SilenceAccounted
BY DEF Init, SilenceAccounted, WhileConnecting, Between, InQueue, InYield, InRequest, InAck

LEMMA SilenceNext ==
  ASSUME TypeInv, TypeInv', SilenceAccounted, [Next]_vars
  PROVE  SilenceAccounted'
<1>0. /\ c \in Client /\ timer \in Int /\ timer >= -1 /\ silent \in Nat /\ tried \in Nat
      /\ c.ping_timer \in -1 .. KeepAlive /\ c.isconnected \in BOOLEAN
      /\ c.ping_outstanding \in BOOLEAN /\ c.fail_count \in 0 .. MAX_FAIL_ALLOWED - 1
      /\ KeepAlive \in Nat /\ CommandTimeout \in Nat /\ YieldTime \in Nat
      /\ MAX_FAIL_ALLOWED \in Nat \ {0}
      /\ Spare \in Int /\ Spare' \in Int
  BY ClientOK, NoneOK, SpareOK, SparePrimed DEF TypeInv, StateOK
<1>1. CASE Open
  <2>1. /\ pc' \in {"read", "close"} /\ call' = "CONNECT" /\ timer' = CommandTimeout
        /\ silent' = 0 /\ tried' = 0
    BY <1>1 DEF Open, history, TypeInv, PhaseOK
  <2>2. DeadBrokerNoticed'
    BY <1>0, <2>1, HeardNoticed
  <2> QED BY <1>0, <2>1, <2>2
    DEF SilenceAccounted, WhileConnecting, Between, InQueue, InYield, InRequest, InAck, Request
<1>2. CASE DisconnectNetwork
  <2>1. pc' = "open"
    BY <1>2 DEF DisconnectNetwork
  <2> QED BY <2>1 DEF SilenceAccounted, WhileConnecting, Between, InQueue, InYield, InRequest, InAck
<1>3. CASE TakeRequest
  <2>1. pc = "queue" /\ Spare >= 0
    BY <1>3 DEF TakeRequest, SilenceAccounted, InQueue
  <2>2. PICK d \in 0 .. CommandTimeout, t \in Request \cup {"PUBLISH"} :
          /\ Elapse(d)
          /\ \/ t = "PUBLISH" /\ SendPublish
             \/ t \in Request /\ SendRequest(t, d)
             \/ SendFails(t, d)
    BY <1>3 DEF TakeRequest
  <2>3. silent' = silent + d /\ tried' = tried + 1
    BY <2>2 DEF Elapse, SendPublish, SendRequest, SendFails
  <2>4. c'.ping_outstanding = c.ping_outstanding /\ c'.fail_count = c.fail_count
    BY <1>0, <2>2 DEF SendPublish, SendRequest, SendFails, Client
  <2>5. /\ c'.ping_timer = KeepAlive => Spare' >= Spare
        /\ c'.ping_timer = Left(c.ping_timer, d) => Spare' >= Spare + 1
    BY <2>3, <2>4, SpareTries
  <2>6. CASE t = "PUBLISH" /\ SendPublish
    <3>1. c'.ping_timer = KeepAlive /\ pc' = "queue"
      BY <1>0, <2>1, <2>6 DEF SendPublish, Client
    <3> QED BY <1>0, <2>1, <2>5, <3>1
      DEF SilenceAccounted, WhileConnecting, Between, InQueue, InYield, InRequest, InAck
  <2>7. CASE t \in Request /\ SendRequest(t, d)
    <3>1. c'.ping_timer = KeepAlive /\ pc' = "read" /\ call' \in Request
      BY <1>0, <2>7 DEF SendRequest, Client
    <3> QED BY <1>0, <2>1, <2>5, <3>1
      DEF SilenceAccounted, WhileConnecting, Between, InQueue, InYield, InRequest, InAck, Request
  <2>8. CASE SendFails(t, d)
    <3>1. c'.ping_timer = Left(c.ping_timer, d) /\ pc' = "read" /\ call' = "YIELD" /\ timer' = YieldTime
      BY <1>0, <2>8 DEF SendFails, StartYield, Client
    <3>2. Spare' >= 1
      BY <1>0, <2>1, <2>5, <3>1
    <3> QED BY <1>0, <3>1, <3>2
      DEF SilenceAccounted, WhileConnecting, Between, InQueue, InYield, InRequest, InAck, Request
  <2> QED BY <2>2, <2>6, <2>7, <2>8
<1>4. CASE NoRequest
  <2>1. /\ pc = "queue" /\ pc' = "read" /\ call' = "YIELD" /\ timer' = YieldTime
        /\ UNCHANGED <<c, silent, tried>>
    BY <1>4 DEF NoRequest, StartYield, history
  <2>2. Spare' = Spare
    BY <2>1, SpareKept
  <2> QED BY <1>0, <2>1, <2>2
    DEF SilenceAccounted, WhileConnecting, Between, InQueue, InYield, InRequest, InAck, Request
<1>5. CASE ReadPacket
  <2>1. c'.ping_timer = c.ping_timer
    BY <1>0, <1>5, HandledOK DEF ReadPacket
  <2> QED BY <1>5, <2>1, HeardKeeps DEF ReadPacket, Reading
<1>6. CASE ReadPart \/ ReadGarbage
  <2>1. (\E p : TakenFor(p)) \/ (\E next \in {"ack", "read", "crashed"} : Leaves(next))
    BY <1>6 DEF ReadPart, ReadGarbage
  <2>2. /\ c'.ping_timer = c.ping_timer
        /\ pc' = "keepalive" \/ (pc' = "read" /\ UNCHANGED c) \/ pc' \in {"ack", "crashed"}
    BY <1>0, <2>1, HandledOK DEF TakenFor, Leaves
  <2> QED BY <1>6, <2>2, HeardKeeps DEF ReadPart, ReadGarbage, Reading
<1>14. CASE SendAck
  <2>1. PICK d \in 0 .. timer :
          /\ Elapse(d) /\ timer' = timer - d
          /\ \/ /\ Transmit(Packet("ACK", 0, TRUE))
                /\ c' = [c EXCEPT !.ping_timer = KeepAlive]
                /\ pc' = "keepalive"
             \/ /\ c' = [c EXCEPT !.ping_timer = Left(@, d)]
                /\ pc' = "read"
                /\ UNCHANGED out
    BY <1>14 DEF SendAck
  <2>2. /\ pc = "ack" /\ UNCHANGED call /\ Spare >= 0 /\ (c.ping_timer < 0 => Spare >= 1)
        /\ silent' = silent + d /\ tried' = tried + 1
    BY <1>14, <2>1 DEF SendAck, Elapse, SilenceAccounted, InAck
  <2>3. d \in 0 .. CommandTimeout /\ timer' >= 0 /\ timer' <= CommandTimeout
    <3>1. timer <= CommandTimeout /\ d \in Nat /\ d <= timer
      BY <1>0, <2>1, TimeAssumption DEF TypeInv, PhaseOK
    <3> QED BY <1>0, <2>1, <3>1
  <2>4. c'.ping_outstanding = c.ping_outstanding /\ c'.fail_count = c.fail_count
    BY <1>0, <2>1 DEF Client
  <2>5. /\ c'.ping_timer = KeepAlive => Spare' >= Spare
        /\ c'.ping_timer = Left(c.ping_timer, d) => Spare' >= Spare + 1
    BY <2>2, <2>3, <2>4, SpareTries
  <2>6. WhileConnecting'
    BY <1>0, <2>1, <2>2 DEF SilenceAccounted, WhileConnecting, Between
  <2>7. CASE c'.ping_timer = KeepAlive /\ pc' = "keepalive"
    BY <1>0, <2>2, <2>5, <2>6, <2>7 DEF SilenceAccounted, InQueue, InYield, InRequest, InAck
  <2>8. CASE c'.ping_timer = Left(c.ping_timer, d) /\ pc' = "read"
    <3>1. Spare' >= 1 /\ Spare' >= 0 /\ Spare' >= timer' + 1 - CommandTimeout /\ timer' >= 0
      <4>1. Spare + 1 >= 1 /\ Spare' >= Spare + 1
        BY <1>0, <2>2, <2>5, <2>8
      <4>2. timer' \in Int /\ timer' >= 0 /\ timer' + 1 - CommandTimeout <= 1
        BY <1>0, <2>1, <2>3
      <4> QED BY <1>0, <2>2, <4>1, <4>2, MoreThan
    <3> QED BY <1>0, <2>2, <2>3, <2>6, <2>8, <3>1
          DEF SilenceAccounted, InQueue, InYield, InRequest, InAck
  <2>9. \/ c'.ping_timer = KeepAlive /\ pc' = "keepalive"
        \/ c'.ping_timer = Left(c.ping_timer, d) /\ pc' = "read"
    BY <1>0, <2>1 DEF Client
  <2> QED BY <2>7, <2>8, <2>9
<1>7. CASE ReadNothing
  <2>1. /\ pc = "read" /\ pc' = "keepalive" /\ timer >= 0 /\ UNCHANGED <<call, tried>>
        /\ timer' = timer - 1 /\ silent' = silent + 1
    BY <1>0, <1>7 DEF ReadNothing, Reading, Elapse, Left
  <2>2. /\ c'.ping_outstanding = c.ping_outstanding /\ c'.fail_count = c.fail_count
        /\ c'.ping_timer = Left(c.ping_timer, 1) /\ c'.ping_timer \in Int
    BY <1>0, <1>7 DEF ReadNothing, Client, Left
  <2>3. /\ c.ping_timer >= 0 => Spare' = Spare
        /\ c.ping_timer < 0 => Spare' = Spare - 1 /\ c'.ping_timer < 0
        /\ AllFailed' <=> AllFailed
    BY <2>1, <2>2, SparePasses
  <2>4. WhileConnecting'
    BY <1>0, <2>1 DEF SilenceAccounted, WhileConnecting, Between
  <2>5. InYield'
    BY <1>0, <2>1, <2>2, <2>3 DEF SilenceAccounted, InYield
  <2>6. InRequest'
    <3>1. call \in Request => timer <= CommandTimeout
      BY DEF Request, TypeInv, PhaseOK
    <3> QED BY <1>0, <2>1, <2>2, <2>3, <3>1 DEF SilenceAccounted, InRequest
  <2> QED BY <2>1, <2>4, <2>5, <2>6 DEF SilenceAccounted, InQueue, InAck
<1>8. CASE NotDue
  <2>1. /\ pc = "keepalive" /\ pc' \in {"answer", "read"}
        /\ UNCHANGED <<call, timer, c, silent, tried>>
    BY <1>8 DEF NotDue, Proceed, history
  <2>2. call # "CONNECT" => c.ping_timer >= 0
    BY <1>0, <1>8, <2>1 DEF NotDue, Due, TypeInv, PhaseOK, Between
  <2>3. Spare' = Spare /\ (AllFailed' <=> AllFailed)
    BY <2>1, SpareKept
  <2> QED BY <1>0, <2>1, <2>2, <2>3
    DEF SilenceAccounted, WhileConnecting, Between, InQueue, InYield, InRequest, InAck, Request
<1>9. CASE Ping \/ PingFailed
  <2>1. /\ pc = "keepalive" /\ pc' \in {"answer", "read"}
        /\ UNCHANGED <<call, timer, silent, tried>>
        /\ c.isconnected /\ c.ping_timer < 0 /\ ~AllFailed
    <3>1. CASE Ping
      BY <3>1 DEF Ping, Due, AllFailed, Proceed
    <3>2. CASE PingFailed
      BY <1>0, <3>2 DEF PingFailed, Due, LastChance, AllFailed, Proceed, history
    <3> QED BY <1>9, <3>1, <3>2
  <2>2. /\ c'.ping_timer = KeepAlive /\ c'.ping_outstanding
        /\ c'.fail_count = IF c.ping_outstanding THEN c.fail_count + 1 ELSE 0
    BY <1>0, <1>9 DEF Ping, PingFailed, Client, TypeInv, PhaseOK
  <2>3. Spare' = Spare
    BY <2>1, <2>2, SpareNextPeriod
  <2>4. call # "CONNECT"
    BY <2>1 DEF TypeInv, PhaseOK, Between
  <2> QED BY <1>0, <2>1, <2>2, <2>3, <2>4
    DEF SilenceAccounted, WhileConnecting, Between, InQueue, InYield, InRequest, InAck
<1>10. CASE Disconnected
  <2>1. /\ pc = "keepalive" /\ pc' = (IF call = "YIELD" THEN "close" ELSE "read")
        /\ UNCHANGED <<call, timer, silent, tried>>
        /\ c.isconnected /\ c.ping_timer < 0 /\ AllFailed
    BY <1>0, <1>10 DEF Disconnected, Due, LastChance, AllFailed, history
  <2>2. /\ c'.ping_outstanding = c.ping_outstanding /\ c'.fail_count = c.fail_count
        /\ c'.ping_timer = c.ping_timer
    BY <1>0, <1>10, <2>1 DEF Disconnected, AllFailed, Client
  <2>3. Spare' = Spare /\ (AllFailed' <=> AllFailed)
    BY <2>1, <2>2, SpareKept
  <2>4. call # "CONNECT"
    BY <2>1 DEF TypeInv, PhaseOK, Between
  <2>5. CASE call = "YIELD"
    <3>1. Spare' >= -CommandTimeout - 1
      BY <1>0, <2>1, <2>3, <2>5 DEF SilenceAccounted, InYield
    <3>2. DeadBrokerNoticed'
      BY <3>1, NoticedPrimed
    <3> QED BY <2>1, <2>5, <3>2
      DEF SilenceAccounted, WhileConnecting, Between, InQueue, InYield, InRequest, InAck
  <2>6. CASE call # "YIELD"
    BY <1>0, <2>1, <2>2, <2>3, <2>4, <2>6
    DEF SilenceAccounted, WhileConnecting, Between, InQueue, InYield, InRequest, InAck
  <2> QED BY <2>5, <2>6
<1>11. CASE Expired
  <2>1. pc = "read" /\ timer = -1 /\ UNCHANGED <<c, silent, tried>>
    BY <1>0, <1>11 DEF Expired
  <2>2. Spare' = Spare /\ (AllFailed' <=> AllFailed)
    BY <2>1, SpareKept
  <2>3. CASE call = "YIELD" /\ pc' = "queue"
    BY <1>0, <2>1, <2>2, <2>3
    DEF SilenceAccounted, WhileConnecting, Between, InQueue, InYield, InRequest, InAck
  <2>4. CASE call = "CONNECT" /\ pc' = "close"
    <3>1. silent' <= CommandTimeout + 1
      BY <1>0, <2>1, <2>4 DEF SilenceAccounted, WhileConnecting, Between
    <3>2. DeadBrokerNoticed'
      BY <3>1, NoticedPrimed
    <3> QED BY <2>4, <3>2
      DEF SilenceAccounted, WhileConnecting, Between, InQueue, InYield, InRequest, InAck
  <2>5. CASE call \in Request /\ StartYield
    BY <1>0, <2>1, <2>2, <2>5
    DEF StartYield, SilenceAccounted, WhileConnecting, Between, InQueue, InYield, InRequest, InAck, Request
  <2> QED BY <1>11, <2>3, <2>4, <2>5 DEF Expired
<1>12. CASE TakeAnswer
  <2>1. /\ pc = "answer" /\ UNCHANGED <<silent, tried>> /\ silent = 0 /\ tried = 0
    <3>1. call \in Call /\ call # "YIELD" /\ packet.type = Answer[call] /\ pc = "answer"
      BY <1>12 DEF TakeAnswer, TypeInv, StateOK, PhaseOK
    <3>2. packet # None
      BY <3>1, Answers DEF Call, Request, None, Packet
    <3> QED BY <1>12, <3>1, <3>2 DEF TakeAnswer, history, TypeInv, PhaseOK
  <2>2. Spare' >= 0 /\ (c'.ping_timer < 0 => Spare' >= 1)
    BY <2>1, SpareHeard
  <2>3. DeadBrokerNoticed'
    BY <1>0, <2>1, HeardNoticed
  <2>4. pc' \in {"queue", "close"} \/ (pc' = "read" /\ call' = "YIELD" /\ timer' = YieldTime)
    BY <1>12 DEF TakeAnswer, Accept, StartYield
  <2>5. c'.ping_timer \in Int
    BY DEF TypeInv, StateOK, Client
  <2> QED BY <1>0, <2>2, <2>3, <2>4, <2>5
    DEF SilenceAccounted, WhileConnecting, Between, InQueue, InYield, InRequest, InAck, Request
<1>13. CASE BrokerAnswers \/ BrokerPublishes \/ BrokerDies \/ UNCHANGED vars
  <2>1. UNCHANGED <<pc, call, timer, c, silent, tried>>
    BY <1>13 DEF BrokerAnswers, BrokerPublishes, BrokerDies, vars, task, history
  <2>2. Spare' = Spare /\ (AllFailed' <=> AllFailed) /\ (DeadBrokerNoticed' <=> DeadBrokerNoticed)
    BY <2>1, SpareKept DEF DeadBrokerNoticed
  <2> QED BY <2>1, <2>2
    DEF SilenceAccounted, WhileConnecting, Between, InQueue, InYield, InRequest, InAck
<1> QED BY <1>1, <1>2, <1>3, <1>4, <1>5, <1>6, <1>7, <1>8, <1>9, <1>10, <1>11, <1>12, <1>13, <1>14,
           Steps

(* A broker that has gone silent is noticed within the keep-alive periods, *)
(* what the requests and acks tried meanwhile postpone them by, and one    *)
(* timeout (MQTTClient.c:187-211): with any of these times.                        *)
THEOREM SilenceNoticed == Spec => []DeadBrokerNoticed
<1>1. TypeInv /\ SilenceAccounted => DeadBrokerNoticed
  <2> SUFFICES ASSUME TypeInv, SilenceAccounted PROVE DeadBrokerNoticed
    OBVIOUS
  <2>1. /\ Spare \in Int /\ timer \in Int /\ timer >= -1 /\ CommandTimeout \in Nat /\ call \in Call
        /\ silent \in Nat
    BY SpareOK, NoneOK DEF TypeInv, StateOK
  <2>2. CASE pc \in {"open", "answer"}
    <3>1. silent = 0
      <4>1. pc = "answer" => packet # None
        BY Answers DEF TypeInv, StateOK, PhaseOK, Call, Request, None, Packet
      <4> QED BY <2>2, <4>1 DEF TypeInv, PhaseOK
    <3> QED BY <2>1, <3>1, SpareNoticed
  <2>3. CASE pc = "queue"
    BY <2>1, <2>3, SpareNoticed DEF SilenceAccounted, InQueue
  <2>4. CASE pc \in {"read", "ack", "keepalive"} /\ call = "CONNECT"
    <3>1. silent <= CommandTimeout + 1
      BY <2>1, <2>4 DEF SilenceAccounted, WhileConnecting, Between
    <3> QED BY <3>1, SpareNoticed
  <2>5. CASE pc \in {"read", "ack", "keepalive"} /\ call # "CONNECT"
    <3>1. Spare >= -CommandTimeout - 1
      BY <2>1, <2>5 DEF SilenceAccounted, InYield, InRequest, InAck, Call
    <3> QED BY <3>1, SpareNoticed
  <2>6. CASE pc \in {"close", "crashed"}
    BY <2>6 DEF SilenceAccounted
  <2> QED BY <2>2, <2>3, <2>4, <2>5, <2>6 DEF TypeInv, StateOK
<1>2. TypeInv /\ SilenceAccounted /\ [Next]_vars => SilenceAccounted'
  BY TypeNext, SilenceNext
<1> QED BY TypeInit, TypeNext, SilenceInit, <1>1, <1>2, PTL DEF Spec
=============================================================================
