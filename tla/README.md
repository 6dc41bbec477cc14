# The Microgear shield: TLA+ models, checks and proofs

The program is the firmware of an ESP8266 shield (FreeRTOS, lwIP, the Espressif SDK). A host,
usually an Arduino, sends AT commands over the serial line; the shield joins a WiFi network,
opens two TCP connections, and keeps an MQTT connection to the NETPIE broker. The models here
are translated from the sources under `src/`; this file says what each of them covers, what the
runs of TLC show, and what TLAPS proves.

## 1. The system

### Tasks and what they share

| context | code | priority | waits for |
|---|---|---|---|
| `read_sr` | `user/user_main.c` | idle + 1 | nothing: it polls the UART queue and delays |
| `mqtt_task` (one per `microgear_connect`) | `Microgear/Microgear.c` | idle + 2 | `WifiReady`, `ps_queue` with time 0, socket calls with timeouts |
| `wifi_task` | `include/wifi_task.h` | idle + 1 | `SetWifi` with time 0, and delays |
| `give_wifi_semaphore` | `include/wifi_task.h` | idle + 1 | delays |
| the SDK's task | callbacks `connectCB1`, `errorCB1`, `recv_cb1`, `ResolveDNS_for_conn1`, ... | above all of them | - |
| the UART interrupt | `lib/uart.c` | interrupt | - |

Nothing in the program takes a lock. What it has are two binary semaphores (`SetWifi`,
`WifiReady`) and two queues (`xQueueUART`, `ps_queue`); everything else is shared as it is.

### Components

**Ring buffer** (`lib/ringbuf.c`). State: array, `start`, `end`, `elements`. Operations: `Add`,
`Pull`, `Peek`, `NumElements`, `IsEmpty`, constructor. Correct when the three redundant fields
agree and the buffer behaves as a bounded FIFO queue. Hard: the slot of an add depends on
whether the buffer is empty; `start` does not move when the last object leaves; the end wraps.

**Message buffer** (`mg_buf`, `str_pull`, `push_mode`). `onMsghandler` adds in `mqtt_task`, AT+MGPM
pulls in `read_sr`. Correct when the indices stay in bounds and messages are printed whole, once
and in order. Hard: a pull is a load, a modification and a store that the handler can preempt.

**Delivery** (`deliverMessage`, `isTopicMatched`, `defaultMsgHandler`). State: the handler table and the
`msg` of `mqtt_task`. Correct when every message for the host is handed over once and in order,
whatever was subscribed to. Hard: the entries of the table point at one buffer that every request
overwrites, entries are never removed, and messages come in while a request waits for its answer.

**Broker connection** (`Microgear/Microgear.c`). State: the `Microgear` object, `ps_queue`, the
stacks of the tasks (the `Network` and the buffers live there). Operations: init and set token (the
texts are cleared and refilled over many ticks), connect, disconnect, publish, subscribe, unsubscribe, set alias; the loop of `mqtt_task`. Correct when no dead
pointer is followed, at most one task uses the client, a socket is never leaked, requests are
sent in order after the alias, and a disconnect ends the connection. Hard: the task outlives
the handle by seconds; sends to a full queue are dropped; a reconnection empties the queue; the
credentials are composed from buffers that the set-up commands write in place.

**MQTT client session** (`MQTTClient.c`). State: `MQTTClient`, the timers, the connection.
Operations: connect, subscribe, unsubscribe, publish, yield. Correct when an answer is taken for its own request,
no call hangs, a dead broker is noticed and a live one is not declared dead. Hard: answers that
come after a timeout; one ping, a counter and a timer that every packet sent re-arms.

**MQTT packet codec** (`MQTTPacket.c`, `MQTTConnectClient.c`, `MQTTSerializePublish.c`, ...). Pure
functions on `mqtt_buf` and `mqtt_readbuf`. Correct when the broker reads what was asked and the
client what was sent, whatever the lengths, and no buffer is overrun. Hard: the length of a packet is
encoded, estimated, decoded and encoded again by four functions that change at different limits.

**WiFi station** (`include/wifi_task.h`, AT+CW). State: `ssid`, `password`, both semaphores, the
station of the SDK. Correct when the last command wins, no pair is torn, and a task that waits
for WiFi is let through. Hard: two globals copied without a lock, a binary semaphore for many
commands, a status that is stale when acted upon.

**AT command parser** (`read_sr`, `_uart0_rx_isr`). State: the queue, `message_sr`, and in the
loop of a command `param`, `break_loop` and the arguments. Correct when an uninterrupted line
runs once with its own arguments and an interrupted one never mixes with another. Hard: the
queue may be empty or full between any two characters.

**TCP clients** (`conn1`, `conn2`, `client1_buf`, `client2_buf`). Operations: AT+CCS, AT+CD,
AT+CR, AT+CRTA, AT+CP and the callbacks. Correct when a connection is to the host and port
asked for, a stop lasts, every command is answered, and no byte is lost or repeated but where the code has no
lock for it. Hard: a pull of `client1_buf` can be preempted by `recv_cb1`; `remote_ip` and `remote_port` are written by two tasks at different times; DNS answers
come late; the host cannot tell the two meanings of an error line apart.

**Network and timers** (`MQTTESP8266.c`). A timer is a tick of a counter that wraps. Correct when a
yield lasts its time and not much longer. Hard: everything is a signed difference of unsigned numbers, and timeouts are
computed before they are used, some of them for several waits.

**UART driver** (`lib/uart.c`), **user_init**: parts of the models above. **Formatted output** (`xmit.c`, `dmsg.c`, `fixed.c`), **token signature**
(`hmacsha1`, base64), SDK headers and Makefiles: not modelled; they keep no state that
another part depends on.

### How they interact

    host --UART--> xQueueUART --> read_sr --AT+CW--> ssid,password,SetWifi --> wifi_task --> SDK
                                     |                                                   |
                                     |               give_wifi_semaphore <---status------+
                                     |                       | WifiReady
                                     +--AT+MG..--> ps_queue --> mqtt_task --> MQTTClient --> broker
                                     |                            | onMsghandler
                                     |<--AT+MGPM-- mg_buf <-------+
                                     +--AT+CCS,CD--> espconn <--> ResolveDNS, connect, error callbacks
                                     |<--AT+CR,CRTA-- client1_buf <-- recv_cb1

## 2. The modules

| module | component | composition |
|---|---|---|
| `Fifo` | what a ring buffer promises: a bounded queue | abstract |
| `RingBuf` | `lib/ringbuf.c`, one call per step | implements `Fifo` (`INSTANCE ... WITH queue <- Stored`) |
| `RingBufShared` | `mg_buf` with handler and pull interleaved access by access | handler + `read_sr` |
| `TopicMatch` | comparing and sorting topics: operators on sequences of characters | used by `Delivery` |
| `Delivery` | the way of a message from the broker to the host | client + handler table + `RingBufShared`, whose specification it implements |
| `Connection` | what the broker connection promises: one session at a time, requests in order | abstract |
| `Microgear` | the broker connection | AT commands + tasks + WiFi + sockets; implements `Connection` |
| `MqttSession` | the MQTT client over time | client + broker + network |
| `MqttPacket` | the packet codec: operators on sequences of bytes | used by `MqttWire` |
| `Ticks` | the timers of `MQTTESP8266.c` | used by `MqttWire` |
| `MqttWire` | the bytes between client and broker, `readPacket`, `MQTTYield` | codec + timers + broker |
| `Wifi` | the WiFi station | AT+CW + two tasks + SDK + `mqtt_task`'s take |
| `AtParser` | the serial line | interrupt + `read_sr` |
| `ClientBuf` | `client1_buf` with `recv_cb1` and the pull interleaved access by access | used by `TcpClient` |
| `TcpClient` | one TCP client | `read_sr` + callbacks + SDK + servers + `ClientBuf` |
| `...Proofs` | the theorems about the module of that name; those about `RingBufShared` are in `DeliveryProofs`, about `Connection` in `MicrogearProofs` | |
| `MC...` | the instances for TLC | |

How state and actions correspond to the code:

* **RingBuf.** Addresses become indices, objects values. `Add`, `Pull`, `Peek` are the functions;
  `Stored` reads the objects from `start` to `end` and is the refinement mapping.
* **RingBufShared.** One step of `read_sr` per access to memory the handler also touches
  (`elements--` is `PullLoad` and `PullStore`, so is the update of `start`). `onMsghandler` is
  one step, because `mqtt_task` has the higher priority. A pulled message is printed in two steps,
  topic and text, as `os_printf` reads them from the global. `exposed` records that the handler ran
  in the windows where the code loses an update or overwrites `str_pull`.
* **TopicMatch.** `isTopicMatched` is the function of two pointers that the loop is; `NextChar` is one round
  of it, `LevelEnd` the inner loop over a plus sign. `MatchedByLevels` says what a filter means
  without pointers, for the texts of the "correct format" the code assumes (`CorrectFilter`, `CorrectName`). `Route` is the sorting of `defaultMsgHandler`.
* **Delivery.** One step per request taken, answer, PUBLISH read and entry of the table looked at;
  `read_sr` of `RingBufShared` runs when `mqtt_task` waits. Since `MQTTSubscribe` stores the pointer it was called with, and
  that is always `msg.topic`, the table is the number of its entries and one text. After a
  disconnect message, or at the begin of a session, that text is whatever the stack held.
* **Microgear.** `pc[t]` says at which blocking call task `t` is; a step runs to the next one, since
  nothing modelled here preempts `mqtt_task`. `AT_MGIN`, `AT_MGST`, `AT_MGCN`, `AT_MGDC` and
  `AT_Request` are the AT commands; `GiveWifi`, `ResolveOk/Fail`, `TcpOk/Fail` and so on are the outcomes of the
  calls. `BeginSetUp` clears the texts of AT+MGIN or AT+MGST, `AT_MGIN` and `AT_MGST` end the command; in between
  `mqtt_task` may compose its credentials, and `login` records whether the texts were whole. Stacks are members of `Task`, so that a pointer into the stack of a
  deleted task can be told from a live one; following it sets `crashed`. `Patient` restricts
  the host to the protocol of the commands (init and token come before the rest and not while a task
  may live; no connect between AT+MGDC and the line "MQTT task ended"; both may be repeated);
  without it the host sends anything at any time. Requests are numbered.
* **Connection.** `phase` is down, up or ending. The mapping (`Phase`) reads it off the places of all tasks:
  up while one is in its session, ending once that task has taken a disconnect. `psQueue` and `taken` are mapped as they are.
* **MqttSession.** `pc` is the place in `MQTTClient.c`; timers hold what is left of them. The broker
  answers what it received in order, may be late by up to `Lag`, may refuse, publish at any time
  and die. `readPacket` may get the first part of a packet; what follows is read as a packet of any type (`ReadGarbage`). One
  that asks for it is acknowledged (`SendAck`), one that fails to decode skips `keepalive`, and one whose length is beyond `mqtt_readbuf`, or that is
  delivered with a topic nobody has set (`MQTTDeserialize_publish` returns the number of length bytes, which is 1), may crash the
  task: `pc` is "crashed", and what else such a write may damage is not modelled.
* **MqttPacket**, **Ticks**, **MqttWire.** A serializer is the sequence of bytes it writes, a
  deserializer the packet it reads; the byte loops of the length are written by what they compute for up to four bytes.
  `Send` is any of the calls that write a packet; `readPacketHeader`, `decodePacket` (one byte per
  step) and `readPacketRest` are the three recvs of `readPacket`. `Standard` says what each packet
  is on the wire and does not use the codec. `elapsed` counts the ticks of the last yield. Each recv of `readPacket` passes up to what its timer
  has left, each byte of a length up to what it had left when `decodePacket` was called (`timeout`), and `keepalive`
  at the end of `cycle` may send a ping for up to `PingTime`, send none, or raise the alarm, which ends the yield at once (`DISCONNECTED`, `pc` is "closed").
  Time passes nowhere else: a select ends within a tick of its timeout, and neither the message handler nor another task takes any. When keepalive is due is in `MqttSession`; here it may be at
  any time. A recv that
  comes short inside a packet ends this model (`lost`); what the client does then is in `MqttSession`,
  which has packets as values and time in coarse steps. Half the range of the tick counter is a constant (2^31 in the code).
* **Wifi.** One step per statement that touches a shared variable: the two copies of AT+CW, the two of
  `wifi_task`, the test, the status poll with its retry counter, the give. A command is
  the number it writes into both globals. The SDK's status moves by `Join` and `LoseLink`.
* **AtParser.** The line is a word and tokens (`Quote`, `Comma`, `Data`, `CR`, ...), and one step
  receives one token or finds the queue empty. The table `Command` holds for each word which tokens
  separate, after which of them an argument is copied and at which the command
  runs: that is the whole of what differs between the loops of `read_sr`. A known command has at least the separators of its format.
  `clean` holds the lines nothing went wrong with: they came after a pause, or after a clean line whose loop ends with
  it (`Delimited`), lost no token and were not interrupted. `AsTyped` says what their arguments are: the tokens at the
  `Places` between the separators, in order. An argument of which nothing was typed (not `Filled`) is what `at_arguments` is about.
  The loops of AT+CCS on a connection that was never closed, or of a name that is not in the cache, and that of a feed without a key set no `break_loop`: they go on for as long
  as the host types. `LoopStaysInLine` says it of the others. `MaxLine` is only a bound: no property relies on the host falling silent.
* **TcpClient.** `ccs` is the place in AT+CCS between the lookup, the copy of the address, the
  switch on the state and `espconn_connect`; a callback may run between any two. A command is a
  number that is also its host and its port. `owed` is how many answers the host waits for as
  far as it can count; `hasty` and `misled` record that it did not wait, or mistook the error of
  an open connection for the failure of an attempt. `espconn_connect` and the lookup belong to
  the SDK: they may refuse without an answer, which the code ignores, and what AT+CD does to an attempt under way
  is left open. `push_mode` is what ATP stored, and `ResolveNothing` answers only in modes 0 and 1: both are told from the rest,
  so the run has one of them and one other. AT+CD, AT+CR and ATP are taken between two commands, as `read_sr` does.
  Negative sizes and an AT+CRTA mode other than 0 or 1 are left out.
* **ClientBuf.** A pull of `client1_buf` is a step per access to what `recv_cb1` writes (`PullIsEmpty`, `PullCopy`, `PullLoad`,
  `PullStore`, `PullLast`), then the print; `recv_cb1` may add a byte between any two of them. It is the race that `pulled_once` shows
  of `mg_buf`: an add between the load and the store of `elements` is forgotten, and one between the store of zero and its test moves `start` to
  an object that was already taken. `exposed` records that this happened (`Window`); what `BytesKept` says holds until then, and everything else always.
  The bytes of one packet are added one per step, which `read_sr` cannot tell from as many packets of one byte.

## 3. The runs

| run | bounds | what it shows |
|---|---|---|
| `ringbuf` | length 4, 3 objects | `Consistent`, and refinement of `Fifo`: every answer is the queue's |
| `delivery` | buffer 3, 4 messages, table of 2, 4 filters and a text left on the stack, 5 topics | `InBounds` wherever the handler lands; `OrderedUnlessExposed`: outside two windows nothing is torn, repeated or reordered; `ImplementsShared`: each message for the host is handed over once, in order, and nothing else; `SelectedAsMeant` |
| `pulled_once` (violation) | length 2, 5 messages | a message is printed twice |
| `microgear_patient` | 2 tasks, 2 sockets, queue 3, 2 requests | `NoFault`, `AtMostOneTask`, `SessionIntegrity`, `NoLeak`; `ImplementsConnection`: tasks that come and go are one connection that serves in order; a queued disconnect ends the session; a stopped task ends |
| `microgear_hasty` | 2 tasks, 2 sockets, queue 2, 1 request, any host | `HandleLive`: a handle that is not null is that of a living task that was not told to stop |
| `disconnect` (violation) | queue 2, 1 request | an AT+MGDC can have no effect |
| `wifi` | 3 commands, 2 retries | `Untorn`, `FutileBounded`, `LastCommandApplied`, `WaiterServed` |
| `at_parser` | 2 lines of each format, queue 2, 1 character lost | `CleanLinesRun`: a line nothing went wrong with runs once, in order and as typed; `NoMixing`; `LoopStaysInLine`: the loop of a clean delimited command takes nothing of the next line |
| `at_arguments` (violation) | 1 line, empty payload | the payload becomes the topic |
| `tcp_client` | 2 AT+CCS, 4 bytes, buffer 3, push modes 1 and another, header bit 2 | `OneTarget`, `StopHonoured`, `Answered` (outside the exceptions it names), `BytesKept` (outside the window), `HeaderTells` |
| `mqtt_session` | 2 sessions, 2 requests, 1 message, 1 packet in parts, keep-alive 2, lag 2, timeout 1 | `DeadBrokerNoticed`, `NoFalseAlarm`, `AnswerIsOwn`, `CallEnds` |
| `mqtt_wire` | 2 packets, buffer 131, half range 8, yield 1, ping 1 | `Understood`, `ReadAsSent`, `YieldOnTime` |

**Why the bounds are enough to meet the interesting cases.** A ring buffer of length 4 can be
empty, full, wrapped, and emptied after it wrapped, at every start. Four messages fill a
shared buffer of three and find it full, or wrap it, while a pull is stopped in each of its steps. A table of
two entries is empty, matches once, matches twice and overflows. The filters have no wildcard or each of them, at the
end and inside; the topics are such that they select none, one or several, and of each kind that `Route` tells apart. Two tasks and two sockets
are what it takes for one to work on the other's; with a third nothing new can alias, since
the code has one handle, one client and one network. Queue length 3 is the real one. Two
requests fill it next to the alias. Three WiFi commands are one that is applied, one that waits and
one that tears it. Two lines are one that is interrupted and one that follows; a queue of two
is full whenever `read_sr` is slow. Two AT+CCS are one that is under way
and one that overtakes it, or one before a stop and one after; a buffer of 3 is overrun by 4 bytes, and with header bit 2 the counts 2
and 3 collide with the bit as 32 to 63 do in the code. Two sessions
show what is left from one to the next, and `KeepAlive` 2 with `MAX_FAIL_ALLOWED` 2 passes through
every state of the ping logic. A buffer of 131 bytes (100 in the code) lets packets
pass the limit where the length takes two bytes and reach the end of the buffer; the packets
have remaining lengths on both sides of both limits, and packet ids of one and two bytes. Two packets show that the second
is found where the first ends. A counter of sixteen ticks, started at each of them, wraps within a yield; that the real one behaves alike is what
section 4 proves. `left_ms` divides ticks by milliseconds per tick where it should multiply, so a wait is shorter than what the
timer has left; the model lets it take anything up to that.

**Views.** `microgear_hasty` has the view `Steering`, which leaves out the variables that no guard of
an impatient host or of the tasks reads and that `HandleLive` does not mention (the history, `partial`, `login`, `host`): two states that
agree on the view have the same successors up to it, so none is lost. Tasks and sockets are symmetric there.

**Deadlock** is checked in the `ringbuf`, `microgear_*` and `disconnect` runs. In the others the numbers of
lines, commands, bytes or sessions are bounded, so a quiet end is a state of the bounds.

**Fairness.** `mqtt_task` has the highest priority of the program's tasks, the others share the one below, and every wait of it has a timeout
except the one for WiFi, so each task is weakly fair, and the take of `WifiReady`, which is
part of it, is enabled only when the semaphore is there. `wifi_task` and `give_wifi_semaphore`
only poll and delay. `read_sr` never waits for an event, shares its priority in time slices, and is fair where it goes on by itself
(the rest of a command, a lookup that returned, the pulls of a read); the host is never fair: it may stop at any
time. A live broker answers (`Lag` bounds how long it takes); it may also die. The SDK ends
every lookup and every attempt, by a timeout if need be.

### What the violations say

* `pulled_once` - `RingBufPull` decrements `elements` and moves `start` without a lock, and pull
  and print go through the global `str_pull`: with the handler in between, a message is printed
  by two pulls. `ringbuf.h:50` says an object pulled is removed.
* `disconnect` - `microgear_disconnect` ignores the result of `xQueueSend`, and a session resets
  the queue when it begins: an AT+MGDC sent with the queue full, or before the session, is lost,
  while the handle is cleared all the same. Stated against `user_main.c:163`.
* `at_arguments` - a separator resets `message_index` but not `message_sr`, so
  `AT+MGP "t",""` publishes `t` to `t`. Stated against `user_main.h:45`.

## 4. The proofs

All are checked by TLAPS for every value of the constants that satisfies the named ASSUMEs of the modules.

* **RingBufProofs.** `RingBufTypeCorrect`, `RingBufConsistent`: `TypeOK /\ Consistent` is inductive. The lemmas are about slot arithmetic
  modulo `len` and that every stored slot was written. `RingBufImplementsFifo`: with `Stored` as the mapping each
  call is a step of `Fifo` or a stutter; the invariant is needed so that `Stored` is the sequence
  the fields denote, in particular after the last object has left without `start` moving.
* **DeliveryProofs**, first `mg_buf` alone. `SharedInBounds`: `InBounds` is not inductive, because between load and
  store the register must still describe a count that is possible. `Midway` says so: a pull
  that has seen an element still has one to take, and what was loaded is between 1 and `len`,
  whatever the handler did since. `SharedInOrder`: unless a message came in one of the windows
  (`exposed`), what is printed is in order. `Sound`, the inductive part of `OrderInv`, follows a message on its way:
  `Filled` (the counted slots hold the last messages, in order, the newest one behind `end`), `PrintedInOrder` (what was
  printed is older than what is counted), `Copied` (what the pull has in registers and in
  `str_pull` is still what the slot holds) and `Pulled` (a message that has left the count is between the two).
  The count drops before `start` moves, so `First` says where the oldest counted slot is in
  between (`Behind`). Lemmas about the ring (`AddRing`, `TakeRing`) and about the lines (`PrintOne`) carry most of it.
* **DeliveryProofs**, then the client in front of it. `DeliveryTypeCorrect`. `DeliveryImplementsShared`: outside of `deliverMessage` as many messages were handed
  over as were read; within it one is missing exactly when it is for the host (`HandedOver`, which gives the action property `HandsOver`), so the
  step that calls the handler is `MessageArrives` with the next number and every other one a stutter or a step of `read_sr`.
  `DeliveryInBounds` and `DeliveryInOrder` follow from it and the two theorems about `mg_buf`.
* **DeliveryProofs**, the topics. `DeliverySelectsAsMeant`: for texts of any length and any levels the walk of two pointers
  decides what the levels mean. There is no induction theorem to use, but every set of numbers has a least one (`Least`,
  from the library's minimal element of a well-founded relation), so a claim that held further on in the filter and fails here has a first
  failure (`Downward`). By it the recursive function exists and unfolds (`MatchedFromUnfolds`), and what it answers from two places is
  what is left to match (`Rest`: of the level both pointers are in, and of the levels behind it), one lemma per way through
  a round (`RestAfterPlus`, `RestAfterSeparator`, ...). `SeparatorFacts` turns "as many separators before it" into an order of the levels.
* **MicrogearProofs**, first the abstract connection. `ServedInOrder`: `ConnInv` says of `served` and `pending` apart, and of the one before the other,
  what `InOrder` says of both together; the concatenation is dealt with once, at the end.
* **MicrogearProofs**, then the firmware. `TypeCorrect`. `HandleAlwaysLive`, for any host: in the session of the task the handle
  denotes no disconnect is queued (`HandleInv`), because `microgear_disconnect` clears the handle as it sends one
  and a session begins with an empty queue. `PatientNoFault`, `PatientOneTask`, `PatientSession` and `PatientNoLeak` (for a
  patient host): `Tidy` ties what the host
  believes to the handle, the one living task, its `Network`, client and socket, and to the set-up: while a text is not whole no task lives.
  `PatientConnection`: under `Tidy` and `HandleInv` each step is a step of `Connection` or a stutter, since set-up happens
  with no task and only one task can be in its session; `Conn!InOrder` comes from `ServedInOrder`.
* **WifiProofs.** `TypeCorrect`: the retry counter is tested before it is decremented, so
  `PollsLeft` relates it to the place in the loop. `FutileAttemptsBounded`: `Tokens` counts the takes that are still
  possible (a token that was left, a give on a stale status) and `futile` plus those never passes two.
  `ConfigurationUntorn`: `Pending` relates `local`, the globals and the place of `wifi_task`.
* **TcpClientProofs.** `TypeCorrect` (`DataInv`, `Types`). `HeaderAlwaysTells` (`TellsInv`: the
  count told is what was sent plus what is left). `BytesAlwaysKept`: `BufInv` says what holds wherever `recv_cb1` landed (the count, or the
  register that will replace it, covers what `read_sr` still has to pull, because only `read_sr` takes bytes out); `Linked` ties `end` to
  `start` and the count at each place of the pull and is lost exactly in the window; under it a step of the pull leaves `Kept` as it is,
  one part of it handing a byte to the next, and an add puts its number at the end (`RecvKeeps`). `StopAlwaysHonoured` and
  `TargetAlwaysOne` rest on `Safe`: while the host is not misled, the answers it waits for are exactly the lookups,
  the command in `read_sr` and the attempt under way (`Counting`). So a host that waits
  until it owes none has nothing left of an earlier command (`NothingLeft`), the only
  lookup is that of the last command and the address it copied is its own (`Quiet`).
* **AtParserProofs.** `TypeCorrect`: `TypeInv` adds that every token in the queue names a typed line and a place in it, and that
  a loop has as many arguments as its command copies (`Handling`). `NeverMixed` is about the commands that
  ran; the invariant must say why the arguments of one that has not run yet are its own. `Unbroken`:
  a line that lost no token follows in the queue without a gap, so what a loop receives continues its
  line or the line has ended. `Tracked`: in a loop, either `read_sr` is still in the line and has counted its separators
  (`InLine`), or it has counted all after which something is copied (`Beyond`), and what it receives then ends no argument
  (`NothingCopied`). Modes copy at every separator, but leave their loop at the first (`ModeEnds`). A feed
  takes its key only in mode 1: without a key fewer separators are needed, and its first
  argument, the token behind the word or the word itself, is not "One" (`FeedMode`).
* **AtParserProofs**, the clean lines. `CleanLinesAlwaysRun` rests on `CleanInv`, which adds five parts to `ParserInv`. `Ordered`: tokens are
  received in the order typed, because the queue is one. `InOrder`: so are lines executed, and none that was typed after the one whose loop `read_sr` is in. `Idle`: after a pause nothing is left in `message_sr` that could hide a word. `Ready` is what makes a line clean
  that follows another without a pause: at the end of a clean delimited line the loop has ended, or only the one
  token is to come with which the code leaves it (`LeaveAfter`). Delimited means that the last separator needed is in the line and, since CR
  may separate too, that it is not reached earlier. `Running` is the claim itself with its middle: a clean line has run and
  `read_sr` is past it, or it is in its loop, the texts up to the last separator copied and the next one collected so far (`Collected`,
  `Reached`). That `CollectText` adds and `Separator` copies exactly a text that was typed is `CollectPending` and `CopiedText`: the
  first character behind a separator overwrites `message_sr` from its beginning, so it is the text of this
  argument alone if it has a character, which is why `Filled` is needed. `LoopAlwaysInLine` needs only `Ready`: a loop that could receive more is not yet at the end of its line, so the
  next token, which `Unbroken` says continues what was received, is still of it.
* **MqttSessionProofs.** `TypeCorrect`: `PhaseOK` adds to the types what goes with the place of the task (a call other than
  CONNECT only on a connection, a packet in hand only in the moment it was read). `AnswersAreOwn`:
  a packet id is compared by nobody, so that the answer is the right one must come from where requests and answers can be. `OneAnswer`:
  a request of a kind that never timed out is in one place only - on the way to the broker, back, or
  just read - with the id of the client, and only while the task waits for it. `NeverFalseAlarm`: an
  outstanding ping is on its way and its timer has not expired because the broker is within `Lag`,
  or its answer is on the way and the task will read it before time passes; `AnswerExpected` lists the cases, of which one
  has a failure already counted (a send that took long). `SilenceNoticed`:
  `Spare` is what the periods counted so far and the requests and acks tried account for, less the silence; it
  never falls below zero but for one timeout, while a wait for an answer swallows the alarm (`SilenceAccounted`, one part per call; an ack counts
  as tried, like a request).
* **MqttWireProofs**, the codec. `DecodeInvertsEncode`: for all lengths up to 268435455 the decoder returns what the
  encoder was given; the lemmas (`DivideTwice`, `DigitsSum`) say that a number is the sum of its
  digits to the base 128. `SerializerStaysInBuffer`: `MQTTPacket_len` compares with limits that
  are one too low, because it counts the header byte first; `LengthSuffices` says that it is never below what is
  written and at most one above, and `RunConcat` adds up the lengths of the fields. `SerializedAsStandard`: for every
  request what is written is the packet of the standard, byte for byte. `DeserializedAsSent`: for every packet of the broker what is read from it is the packet.
  The frames are dealt with once (a first byte, a length of one to four bytes, a body); the bodies are fields one behind the other.
* **MqttWireProofs**, the streams. `AlwaysUnderstood`: `Understood` compares the packets that were read, and says nothing
  of the bytes on their way. `UpInv` does: `up` is the `Stream` of the requests not yet read. Without
  recursion, a stream is described by a function `cut` that says where each packet begins: `Standard(p)` lies between
  two cuts. Taking a packet from the front shifts the cuts, sending one adds a cut; `Length` reads the right number from the
  front because the rest cannot change it. `AlwaysFitted` is a conjunct. `AlwaysReadAsSent` and `TypeCorrect`: `DownInv` says for each place of `readPacket` how
  much of the current packet is gone (`Place`): between packets none; in the length, so many of
  its digits, with `rem_len` their sum; before the rest, the first byte and the length, which are in
  `readbuf` as `MQTTPacket_encode` wrote them back, with the size they came in; then all of it. So
  `rem_len` never exceeds the length of a packet that fits the buffer.
* **MqttWireProofs**, the time. `TimerExact`: `expired` is right for every start and
  every timeout below half the range of the counter. `YieldAlwaysOnTime` rests on `TimeInv`: while the timer runs, what it has left and
  what the yield has lasted add up to its time, below zero too; it tells for each place how long the yield can have lasted there. In the length that is
  what had passed when `decodePacket` was called and one `timeout` for each byte, which is at most the time of the yield once per byte (`Stretch`); behind it the last recv
  finds nothing left to wait for, and a ping comes on top. So the yield ends by itself only after its time, and the largest sum
  must stay below half the range, or the timer would look as if it had not expired.

**From which assumptions.** The numbers are natural and sizes positive, with these limits, each from the code: a shared buffer has two slots or more (`mg_buf` has 20);
`MAX_FAIL_ALLOWED` is above 1 (`MQTTClient.h:25` says 2; with 1 the first period without an answer would be an
alarm and `NoFalseAlarm` is false, as TLC shows); four yields, a ping and two ticks are shorter than half the range of the counter, and a yield is no longer than the command timeout (1 s and 5 s); a buffer is no longer than
the largest length; packet ids and the keep-alive interval are unsigned short, a text has a length of two bytes and only
a PUBLISH is retained (`Representable`: without it `writeInt` drops the upper bytes, and the standard has no packet to compare with);
the broker sends the packets that a client of QoS 0 gets, none longer than the client's buffer (`Answerable`), and a live one
answers within a keep-alive interval (`Lag`); a command line has the separators of its format in `user_main.h:14-50` (`Formatted`; a
shorter one goes on in the next line); a filter or a name is a sequence of characters (`TextAssumption`), the empty one is no name. TLC evaluates them in the runs.

**Checked before it was proved.** The inductive invariants of `MqttSession` and of `RingBufShared`
were checked as invariants on the instance of their run and on others (other timeouts and limits of the
ping logic; lengths 2 and 3 with five messages), those of `AtParser` on the instance of its run and, for `CleanInv`,
on one with unusual lines, those of `MqttWire` on that of its run with the
existential over cuts replaced by the concatenation it describes.

**Only model-checked.**

* All liveness properties (`CallEnds`, `StoppedTaskEnds`, `QueuedDisconnectEndsSession`,
  `LastCommandApplied`, `WaiterServed`, `Answered`): they hold under fairness, which is out of TLAPS's reach.

Every other property of a passing run, invariant, action property or refinement, is stated by a theorem.

## 5. What is not modelled

* Packets of QoS 1 and 2, wills, version 4 of MQTT, DISCONNECT, `MQTTPacket_read` and `MQTTPacket_readnb`
  (none is ever used by `mqtt_task`; the acks of `MqttSession` come from broken packets only), and packets longer than `mqtt_readbuf`, whose length `readPacket` does not compare
  with the buffer: the broker of `MqttWire` sends none, and in `MqttSession` such a length, read from the rest of a broken packet, is a possible crash and nothing else.
* Handlers other than `defaultMsgHandler`, since `mqtt_task` registers no other; what topics and filters without the "correct format" that
  `isTopicMatched` assumes should match (a table that holds one is modelled); topics and payloads longer than the buffers they are copied to.
* `sendPacket` after a partial write (lwIP's blocking send writes all or fails).
* Names of 15 characters or more in AT+CCS, which do not fit `char host[15]` (`user_main.c:277`): no property depends on what they overwrite.
* `cb_present`, `cb_absent`, `cb_error`, `cb_info`: the firmware never registers them.
* `microgear_isConnected`, which no command calls (AT+MGCN? is commented out).
* The bytes of credentials, payloads and printed text, and allocation failures of FreeRTOS.
* The second TCP client is the first with other names and header bit 64. AT+CP hands its buffer to the SDK, AT+CCS1? only prints.

## 6. Plan

1. Done: the modules of section 2, their runs and the theorems of section 4.
2. Open: AT+CP with the SDK's use of its buffer in `TcpClient`, and `MqttSession` as an implementation of an
   abstract request that is answered or times out (`AnswersAreOwn` and `NeverFalseAlarm` are its safety part).
