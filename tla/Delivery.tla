------------------------------- MODULE Delivery -------------------------------
(***************************************************************************)
(* The way of a message from the broker to the host: cycle of MQTTClient.c *)
(* reads a PUBLISH, deliverMessage looks for an entry of the handler table *)
(* that selects its topic, defaultMsgHandler of Microgear.c sorts it, and  *)
(* onMsghandler puts it into mg_buf, out of which read_sr prints it        *)
(* (RingBufShared, of which this module is the environment).               *)
(*                                                                         *)
(* MQTTSubscribe stores the pointer it was called with, and mqtt_task      *)
(* calls it with the topic of the one msg it receives its queue into       *)
(* (Microgear.c:283, 307): every entry of the table denotes that buffer,   *)
(* whatever is in it by now.  So the table is the number of its entries,   *)
(* and the handler of each is defaultMsgHandler.                           *)
(*                                                                         *)
(* Messages are read wherever mqtt_task waits: for the answer to a request *)
(* or in MQTTYield.  mqtt_task does not wait while it delivers, and it has *)
(* the higher priority, so read_sr stands still then.                      *)
(***************************************************************************)
EXTENDS RingBufShared, TopicMatch

CONSTANTS
  MAX_MESSAGE_HANDLERS, \* entries of the table (8)
  Filter,               \* the texts a request, or the stack, may leave in msg
  Name                  \* the topics of the broker's messages

ASSUME HandlersAssumption == MAX_MESSAGE_HANDLERS \in Nat
ASSUME TopicAssumption == Filter # {} /\ \A n \in Name : n # << >>
ASSUME TextAssumption == Filter \cup Name \subseteq Seq(STRING)

VARIABLES
  session,  \* mqtt_task is in the session loop
  handlers, \* how many entries of messageHandlers have a topicFilter
  msgTopic, \* msg.topic of mqtt_task
  waiting,  \* the request it waits for
  slot,     \* the entry deliverMessage looks at, 0 outside of it
  name,     \* the topic of the message it delivers
  read      \* history: messages for the host that were read

client == <<session, handlers, msgTopic, waiting>>
delivering == <<slot, name, read>>
deliveryVars == <<vars, client, delivering>>

Waited == {"nothing", "SUBACK", "UNSUBACK", "end"}
Nobody == << >>

DeliveryInit ==
  /\ Init
  /\ session = FALSE /\ handlers = 0 /\ msgTopic \in Filter /\ waiting = "nothing"
  /\ slot = 0 /\ name = Nobody /\ read = 0

-----------------------------------------------------------------------------
(* NewMQTTClient and MQTTConnect.  msg is whatever the stack held.         *)
SessionBegins ==
  /\ ~session
  /\ session' = TRUE
  /\ handlers' = 0
  /\ msgTopic' \in Filter
  /\ waiting' = "nothing"
  /\ UNCHANGED <<vars, delivering>>

(* DISCONNECTED, or the MQTTYield after a PSQ_DISCONNECT.                  *)
SessionEnds ==
  /\ session /\ slot = 0 /\ waiting \in {"nothing", "end"}
  /\ session' = FALSE
  /\ UNCHANGED <<handlers, msgTopic, waiting, vars, delivering>>

(* xQueueReceive into msg, and the packet that goes out for it; a          *)
(* subscription or its cancellation waits for an answer.  A failed send or *)
(* a PUBLISH waits for nothing.                                            *)
TakeRequest ==
  /\ session /\ slot = 0 /\ waiting = "nothing"
  /\ msgTopic' \in Filter
  /\ waiting' \in {"nothing", "SUBACK", "UNSUBACK"}
  /\ UNCHANGED <<session, handlers, vars, delivering>>

(* microgear_disconnect leaves the topic of its message unset.             *)
TakeDisconnect ==
  /\ session /\ slot = 0 /\ waiting = "nothing"
  /\ msgTopic' \in Filter
  /\ waiting' = "end"
  /\ UNCHANGED <<session, handlers, vars, delivering>>

(* A free entry is the first one with no topicFilter; without one the      *)
(* subscription stands at the broker and has no entry here.                *)
Suback ==
  /\ waiting = "SUBACK" /\ slot = 0
  /\ handlers' = IF handlers < MAX_MESSAGE_HANDLERS THEN handlers + 1 ELSE handlers
  /\ waiting' = "nothing"
  /\ UNCHANGED <<session, msgTopic, vars, delivering>>

(* An UNSUBACK, a refused subscription, or no answer in time: the table    *)
(* stays as it is.                                                         *)
NoEntry ==
  /\ waiting \in {"SUBACK", "UNSUBACK"} /\ slot = 0
  /\ waiting' = "nothing"
  /\ UNCHANGED <<session, handlers, msgTopic, vars, delivering>>

-----------------------------------------------------------------------------
ForHost(n) == Route(n) = "message"

(* cycle reads a PUBLISH.                                                  *)
ReadPublish(n) ==
  /\ session /\ slot = 0
  /\ IF ForHost(n) THEN read < MaxMessage /\ read' = read + 1 ELSE UNCHANGED read
  /\ name' = n
  /\ slot' = 1
  /\ UNCHANGED <<client, vars>>

(* The firmware registers cb_message only; what NETPIE says of itself ends *)
(* here.                                                                   *)
defaultMsgHandler ==
  IF ForHost(name) THEN onMsghandler(read) ELSE UNCHANGED vars

Done == slot' = 0 /\ name' = Nobody

InTable == slot \in 1 .. MAX_MESSAGE_HANDLERS

Matching == slot <= handlers /\ Selected(msgTopic, name)

(* Mutant: no break, every entry that matches handles the message.         *)
EveryHandler ==
  /\ InTable /\ Matching
  /\ defaultMsgHandler
  /\ slot' = slot + 1
  /\ UNCHANGED <<client, name, read>>

(* "I want a message delivered only once no matter how many topics are     *)
(* matched": break.                                                        *)
CallHandler ==
  /\ InTable /\ Matching
  /\ defaultMsgHandler
  /\ Done
  /\ UNCHANGED <<client, read>>

NextHandler ==
  /\ InTable /\ ~Matching
  /\ slot' = slot + 1
  /\ UNCHANGED <<client, name, read, vars>>

(* The default handler, which is the same function.                        *)
CallDefault ==
  /\ slot = MAX_MESSAGE_HANDLERS + 1
  /\ defaultMsgHandler
  /\ Done
  /\ UNCHANGED <<client, read>>

deliverMessage == CallHandler \/ NextHandler \/ CallDefault

(* read_sr, when mqtt_task waits.                                          *)
HostTurn ==
  /\ slot = 0
  /\ read_sr
  /\ UNCHANGED <<client, delivering>>

DeliveryNext ==
  \/ SessionBegins \/ SessionEnds
  \/ TakeRequest \/ TakeDisconnect \/ Suback \/ NoEntry
  \/ (\E n \in Name : ReadPublish(n))
  \/ deliverMessage
  \/ HostTurn

DeliverySpec == DeliveryInit /\ [][DeliveryNext]_deliveryVars

-----------------------------------------------------------------------------
(* The client's part keeps its types; the table never outgrows its array   *)
(* and the loop over it ends one entry behind it.                          *)
DeliveryTypeOK ==
  /\ session \in BOOLEAN
  /\ handlers \in 0 .. MAX_MESSAGE_HANDLERS
  /\ msgTopic \in Filter
  /\ waiting \in Waited
  /\ slot \in 0 .. MAX_MESSAGE_HANDLERS + 1
  /\ name \in Name \cup {Nobody}
  /\ read \in 0 .. MaxMessage

(* When mqtt_task waits again, all it has read for the host has been       *)
(* handed over, and nothing else has.                                      *)
HandsOver == slot' = 0 => received' = read'

(* Whatever requests have come and gone, whatever their topics have left   *)
(* in the buffer that the whole table denotes, and whether the table is    *)
(* empty, full or matches many times: what is read for the host goes into  *)
(* mg_buf, each message once and in the order of the broker, nothing else  *)
(* does, and none is left out (MQTTClient.c:141-174).  So mg_buf is used   *)
(* exactly as RingBufShared assumes.                                       *)
ImplementsShared == Spec /\ [][HandsOver]_deliveryVars

(* An entry selects the names its text means level by level: the loops of  *)
(* isTopicMatched over "+" and "#" neither stop short of the end of a      *)
(* level nor run over it (MQTTClient.c:110-138), for every text and name   *)
(* of the format that it assumes (MQTTClient.c:107-109).                   *)
SelectedAsMeant ==
  InTable /\ slot <= handlers /\ CorrectFilter(msgTopic) /\ CorrectName(name) =>
    (Selected(msgTopic, name) <=> MatchedByLevels(msgTopic, name))
=============================================================================
