------------------------------ MODULE Microgear ------------------------------
(***************************************************************************)
(* The broker connection of the shield: Microgear/Microgear.c with the AT  *)
(* commands of user/user_main.c that call it.                              *)
(*                                                                         *)
(* read_sr runs the AT commands; microgear_connect creates an mqtt_task,   *)
(* which waits for WiFi, connects, and then alternates between draining    *)
(* ps_queue and MQTTYield until a PSQ_DISCONNECT ends it.  The tasks share *)
(* the fields of the one Microgear object without a lock.  mqtt_task has   *)
(* the higher priority, so it runs from one blocking call to the next in   *)
(* one step, and an AT command runs between two of those steps.            *)
(*                                                                         *)
(* What a request publishes or subscribes to does not matter here: a       *)
(* message of the queue is a number, in the order the host asked.          *)
(***************************************************************************)
EXTENDS Integers, Sequences

CONSTANTS
  Task,        \* stacks an mqtt_task can run on; a deleted task frees its own
  Socket,      \* lwip socket numbers
  QueueLength, \* PUBSUBQUEUE_LENGTH
  MaxId,       \* bound: how many requests the host makes
  Patient,     \* TRUE when the host keeps the protocol of May... below
  Null         \* the C null pointer

ASSUME TaskAssumption == Null \notin Task
ASSUME SocketAssumption == -1 \notin Socket
ASSUME QueueAssumption == QueueLength \in Nat \ {0} /\ MaxId \in Nat
ASSUME PatientAssumption == Patient \in BOOLEAN

VARIABLES
  crashed,    \* a null or dead pointer was followed; the chip will restart
  setup,      \* the set-up command read_sr is in the middle of
  partial,    \* the set-up commands whose texts are not whole
  inited,     \* microgear_init ran, so ps_queue exists
  token,      \* microgear_setToken ran, so token and host are set
  appid,      \* mg->appid is set
  alias,      \* mg->alias is not empty
  callbacks,  \* cb_connected and cb_message are set
  mqtttask,   \* mg->mqtttask
  network,    \* mg->network, a pointer into the stack of a task
  client,     \* mg->client: [isconnected, ipstack]
  psQueue,    \* mg->ps_queue
  wifiReady,  \* the binary semaphore WifiReady
  pc,         \* where each task is
  active,     \* activeTask of each task
  arg,        \* the Network that ConnectNetwork was called with
  login,      \* each task composed its credentials from whole texts
  sock,       \* my_socket of the Network on each task's stack
  open,       \* the sockets lwip has open
  host,       \* what the host believes of the connection
  nextId,     \* history: number of the next request
  taken,      \* history: what the last session took from ps_queue
  mark        \* history: nextId when that session began

fields == <<setup, partial, inited, token, appid, alias, callbacks, mqtttask>>
history == <<host, nextId, taken, mark>>
tasks == <<pc, active, arg, login, sock, open>>
vars == <<crashed, fields, network, client, psQueue, wifiReady, tasks, history>>

Alias == 0        \* the setalias publish of a new session
Disconnect == -1  \* PSQ_DISCONNECT
Request == 1 .. MaxId
Message == Request \cup {Alias, Disconnect}

NoSocket == -1

SetUp == {"AT+MGIN", "AT+MGST"}

Session == {"drain", "send", "yield"}
Connected == Session \cup {"connack"}
Holding == Connected \cup {"tcp"}
Label == Holding \cup {"none", "wait", "dns", "delay"}

Live == {t \in Task : pc[t] # "none"}

(* An object in .bss, and no task.                                         *)
Init ==
  /\ crashed = FALSE
  /\ setup = "none" /\ partial = SetUp
  /\ inited = FALSE /\ token = FALSE /\ appid = FALSE
  /\ alias = FALSE /\ callbacks = FALSE
  /\ mqtttask = Null /\ network = Null
  /\ client = [isconnected |-> FALSE, ipstack |-> Null]
  /\ psQueue = << >>
  /\ wifiReady = FALSE
  /\ pc = [t \in Task |-> "none"]
  /\ active = [t \in Task |-> FALSE]
  /\ arg = [t \in Task |-> Null]
  /\ login = [t \in Task |-> FALSE]
  /\ sock = [t \in Task |-> NoSocket]
  /\ open = {}
  /\ host = "idle" /\ nextId = 1 /\ taken = << >> /\ mark = 1

Crash ==
  /\ crashed' = TRUE
  /\ UNCHANGED <<fields, network, client, psQueue, wifiReady, tasks, history>>

(* Mutant: the queue grows.                                                *)
EnqueueAlways(m) == psQueue' = Append(psQueue, m)

(* xQueueSend with no waiting: a full queue drops the message.             *)
Enqueue(m) ==
  psQueue' = IF Len(psQueue) < QueueLength THEN Append(psQueue, m) ELSE psQueue

-----------------------------------------------------------------------------
(* The host.  A patient one sets up before it connects, sets up again only *)
(* after it has read "MQTT task ended", and does not connect between its   *)
(* AT+MGDC and that line.  It may repeat AT+MGCN and AT+MGDC.              *)
MaySetUp == Patient => host = "idle"
MayConnect == Patient => host # "closing" /\ inited /\ token
MayRequest == Patient => inited /\ appid
MayDisconnect == Patient => host # "idle"

(* read_sr takes one command at a time.                                    *)
Listening == ~crashed /\ setup = "none"

(* The texts of a set-up command go into the very buffers that mg->key,    *)
(* mg->token and the others point at.  They are cleared first, and filled  *)
(* one character every 10 ms: mqtt_task runs in between.                   *)
BeginSetUp(c) ==
  /\ Listening /\ MaySetUp
  /\ setup' = c
  /\ partial' = partial \cup {c}
  /\ alias' = (alias /\ c # "AT+MGIN")
  /\ UNCHANGED <<crashed, inited, token, appid, callbacks, mqtttask, network,
                 client, psQueue, wifiReady, tasks, history>>

Complete(c) ==
  /\ ~crashed /\ setup = c
  /\ setup' = "none"
  /\ partial' = partial \ {c}

AT_MGIN(a) ==
  /\ Complete("AT+MGIN")
  /\ inited' = TRUE
  /\ alias' = a
  /\ callbacks' = FALSE
  /\ mqtttask' = Null
  /\ network' = Null
  /\ psQueue' = << >>
  /\ UNCHANGED <<crashed, token, appid, client, wifiReady, tasks, history>>

AT_MGST ==
  /\ Complete("AT+MGST")
  /\ token' = TRUE
  /\ UNCHANGED <<crashed, inited, appid, alias, callbacks, mqtttask, network,
                 client, psQueue, wifiReady, tasks, history>>

(* The queue of the serial line runs dry before the last quotation mark:   *)
(* what was cleared stays as it is.  A patient host sends whole lines.     *)
AbandonSetUp ==
  /\ ~crashed /\ setup # "none" /\ ~Patient
  /\ setup' = "none"
  /\ UNCHANGED <<crashed, partial, inited, token, appid, alias, callbacks, mqtttask,
                 network, client, psQueue, wifiReady, tasks, history>>

(* Mutant: mg->network is not pointed at the new stack.                    *)
CreateTaskNoNetwork(t) ==
  /\ pc[t] = "none"
  /\ mqtttask' = t
  /\ client' = [isconnected |-> FALSE, ipstack |-> Null]
  /\ sock' = [sock EXCEPT ![t] = NoSocket]
  /\ active' = [active EXCEPT ![t] = TRUE]
  /\ pc' = [pc EXCEPT ![t] = "wait"]
  /\ UNCHANGED <<arg, login, open, network>>

(* xTaskCreate and the first statements of the new task, which preempts.   *)
CreateTask(t) ==
  /\ pc[t] = "none"
  /\ mqtttask' = t
  /\ client' = [isconnected |-> FALSE, ipstack |-> Null]
  /\ network' = t
  /\ sock' = [sock EXCEPT ![t] = NoSocket]
  /\ active' = [active EXCEPT ![t] = TRUE]
  /\ pc' = [pc EXCEPT ![t] = "wait"]
  /\ UNCHANGED <<arg, login, open>>

(* Mutant: AT+MGCN does not ask whether there is a task.                   *)
ConnectUnguarded ==
  /\ Listening /\ MayConnect
  /\ host' = "up"
  /\ callbacks' = TRUE
  /\ appid' = TRUE
  /\ \/ \E t \in Task : CreateTask(t)
     \/ /\ Live = Task
        /\ UNCHANGED <<mqtttask, client, network, tasks>>
  /\ UNCHANGED <<crashed, setup, partial, inited, token, alias, psQueue,
                 wifiReady, nextId, taken, mark>>

(* With no memory left for a task xTaskCreate leaves mqtttask alone.       *)
AT_MGCN ==
  /\ Listening /\ MayConnect
  /\ host' = "up"
  /\ callbacks' = TRUE
  /\ \/ /\ mqtttask = Null
        /\ appid' = TRUE
        /\ \/ \E t \in Task : CreateTask(t)
           \/ /\ Live = Task
              /\ UNCHANGED <<mqtttask, client, network, tasks>>
     \/ /\ mqtttask # Null
        /\ UNCHANGED <<appid, mqtttask, client, network, tasks>>
  /\ UNCHANGED <<crashed, setup, partial, inited, token, alias, psQueue,
                 wifiReady, nextId, taken, mark>>

AT_MGDC ==
  /\ Listening /\ MayDisconnect
  /\ \/ /\ inited
        /\ Enqueue(Disconnect)
        /\ mqtttask' = Null
        /\ host' = IF host = "up" THEN "closing" ELSE host
        /\ UNCHANGED <<crashed, setup, partial, inited, token, appid, alias,
                       callbacks, network, client, wifiReady, tasks, nextId, taken, mark>>
     \/ ~inited /\ Crash

(* AT+MGP, AT+MGS, AT+MGUS, AT+MGC, AT+MGWF and the alias command: copy    *)
(* the appid into a topic and queue it.                                    *)
AT_Request ==
  /\ Listening /\ MayRequest /\ nextId \in Request
  /\ \/ /\ inited /\ appid
        /\ Enqueue(nextId)
        /\ nextId' = nextId + 1
        /\ UNCHANGED <<crashed, fields, network, client, wifiReady, tasks,
                       host, taken, mark>>
     \/ ~(inited /\ appid) /\ Crash

(* give_wifi_semaphore, each second that the station has an address.       *)
GiveWifi ==
  /\ ~crashed
  /\ wifiReady' = TRUE
  /\ UNCHANGED <<crashed, fields, network, client, psQueue, tasks, history>>

-----------------------------------------------------------------------------
(* The task.                                                               *)
At(t, label) == ~crashed /\ pc[t] = label
Goto(t, label) == pc' = [pc EXCEPT ![t] = label]

(* The credentials are composed and ConnectNetwork is called.  Without     *)
(* microgear_setToken there is no host to resolve, and printing a null     *)
(* string may crash.                                                       *)
TakeWifi(t) ==
  /\ At(t, "wait") /\ wifiReady
  /\ \/ /\ wifiReady' = FALSE
        /\ Goto(t, IF token THEN "dns" ELSE "delay")
        /\ arg' = [arg EXCEPT ![t] = network]
        /\ login' = [login EXCEPT ![t] = (partial = {})]
        /\ UNCHANGED <<crashed, fields, network, client, psQueue,
                       active, sock, open, history>>
     \/ ~(token /\ inited) /\ Crash

(* getaddrinfo or socket() fails; only the second touches my_socket.       *)
ResolveFail(t) ==
  /\ At(t, "dns")
  /\ \/ UNCHANGED sock
     \/ arg[t] # Null /\ sock' = [sock EXCEPT ![arg[t]] = NoSocket]
  /\ Goto(t, "delay")
  /\ UNCHANGED <<crashed, fields, network, client, psQueue, wifiReady,
                 active, arg, login, open, history>>

ResolveOk(t) ==
  /\ At(t, "dns") /\ arg[t] # Null
  /\ \E s \in Socket \ open :
       /\ open' = open \cup {s}
       /\ sock' = [sock EXCEPT ![arg[t]] = s]
  /\ Goto(t, "tcp")
  /\ UNCHANGED <<crashed, fields, network, client, psQueue, wifiReady,
                 active, arg, login, history>>

(* Mutant: a refused connection leaves its socket open.                    *)
TcpFailLeaks(t) ==
  /\ At(t, "tcp")
  /\ Goto(t, "delay")
  /\ UNCHANGED <<crashed, fields, network, client, psQueue, wifiReady,
                 active, arg, login, sock, open, history>>

(* connect() failed: the socket is closed, its number stays in my_socket.  *)
TcpFail(t) ==
  /\ At(t, "tcp")
  /\ open' = open \ {sock[arg[t]]}
  /\ Goto(t, "delay")
  /\ UNCHANGED <<crashed, fields, network, client, psQueue, wifiReady,
                 active, arg, login, sock, history>>

(* NewMQTTClient, and the CONNECT packet of MQTTConnect.                   *)
TcpOk(t) ==
  /\ At(t, "tcp")
  /\ client' = [isconnected |-> FALSE, ipstack |-> network]
  /\ Goto(t, "connack")
  /\ UNCHANGED <<crashed, fields, network, psQueue, wifiReady,
                 active, arg, login, sock, open, history>>

(* DisconnectNetwork(mg->network), and the pause that follows.             *)
Leave(t) ==
  /\ network # Null
  /\ open' = open \ {sock[network]}
  /\ sock' = [sock EXCEPT ![network] = NoSocket]
  /\ Goto(t, "delay")
  /\ UNCHANGED <<crashed, fields, network, client, psQueue, wifiReady,
                 active, arg, login, history>>

(* No CONNACK in time, or one that refuses.                                *)
MqttRefuse(t) == At(t, "connack") /\ client.ipstack # Null /\ Leave(t)

(* Mutant: requests queued while there was no session are kept.            *)
KeptQueue ==
  IF alias /\ Len(psQueue) < QueueLength THEN Append(psQueue, Alias) ELSE psQueue

(* ps_queue when a session begins: emptied, then the alias if there is one.*)
FirstQueue == IF alias THEN <<Alias>> ELSE << >>

(* xQueueReset, microgear_setAlias, cb_connected.                          *)
MqttAccept(t) ==
  /\ At(t, "connack")
  /\ client.ipstack # Null
  /\ sock[client.ipstack] \in open
  /\ \/ /\ inited
        /\ client' = [client EXCEPT !.isconnected = TRUE]
        /\ psQueue' = FirstQueue
        /\ Goto(t, "drain")
        /\ taken' = << >>
        /\ mark' = nextId
        /\ UNCHANGED <<crashed, fields, network, wifiReady, active, arg, login, sock,
                       open, host, nextId>>
     \/ ~inited /\ Crash

(* Mutant: the disconnect does not end the task.                           *)
TakeDisconnectIgnored(t) ==
  /\ At(t, "drain") /\ psQueue # << >> /\ Head(psQueue) = Disconnect
  /\ psQueue' = Tail(psQueue)
  /\ Goto(t, "yield")
  /\ UNCHANGED <<crashed, fields, network, client, wifiReady,
                 active, arg, login, sock, open, history>>

TakeDisconnect(t) ==
  /\ At(t, "drain") /\ psQueue # << >> /\ Head(psQueue) = Disconnect
  /\ psQueue' = Tail(psQueue)
  /\ active' = [active EXCEPT ![t] = FALSE]
  /\ Goto(t, "yield")
  /\ UNCHANGED <<crashed, fields, network, client, wifiReady,
                 arg, login, sock, open, history>>

(* MQTTPublish, MQTTSubscribe and MQTTUnsubscribe fail at once when the    *)
(* client is not connected.                                                *)
TakeRequest(t) ==
  /\ At(t, "drain") /\ psQueue # << >> /\ Head(psQueue) # Disconnect
  /\ psQueue' = Tail(psQueue)
  /\ taken' = Append(taken, Head(psQueue))
  /\ Goto(t, IF client.isconnected THEN "send" ELSE "yield")
  /\ UNCHANGED <<crashed, fields, network, client, wifiReady,
                 active, arg, login, sock, open, host, nextId, mark>>

DrainEmpty(t) ==
  /\ At(t, "drain") /\ psQueue = << >>
  /\ Goto(t, "yield")
  /\ UNCHANGED <<crashed, fields, network, client, psQueue, wifiReady,
                 active, arg, login, sock, open, history>>

SendOk(t) ==
  /\ At(t, "send") /\ client.ipstack # Null /\ sock[client.ipstack] \in open
  /\ Goto(t, "drain")
  /\ UNCHANGED <<crashed, fields, network, client, psQueue, wifiReady,
                 active, arg, login, sock, open, history>>

(* Not sent, or sent and not acknowledged in time: the request is gone.    *)
SendFail(t) ==
  /\ At(t, "send") /\ client.ipstack # Null
  /\ Goto(t, "yield")
  /\ UNCHANGED <<crashed, fields, network, client, psQueue, wifiReady,
                 active, arg, login, sock, open, history>>

(* Mutant: the session loop does not look at activeTask.                   *)
YieldForever(t) ==
  /\ At(t, "yield") /\ client.ipstack # Null
  /\ Goto(t, "drain")
  /\ UNCHANGED <<crashed, fields, network, client, psQueue, wifiReady,
                 active, arg, login, sock, open, history>>

(* MQTTYield came back without DISCONNECTED.                               *)
YieldAgain(t) ==
  /\ At(t, "yield") /\ client.ipstack # Null /\ active[t]
  /\ Goto(t, "drain")
  /\ UNCHANGED <<crashed, fields, network, client, psQueue, wifiReady,
                 active, arg, login, sock, open, history>>

YieldLast(t) ==
  At(t, "yield") /\ client.ipstack # Null /\ ~active[t] /\ Leave(t)

(* keepalive() gave up: only a connected client can find out.              *)
YieldDisconnected(t) ==
  At(t, "yield") /\ client.ipstack # Null /\ client.isconnected /\ Leave(t)

(* The pause is over: try again, or print "MQTT task ended" and delete the *)
(* task.  Microgear.c:343 compares, it does not assign: mqtttask stays.    *)
Retry(t) ==
  /\ At(t, "delay") /\ active[t]
  /\ Goto(t, "wait")
  /\ UNCHANGED <<crashed, fields, network, client, psQueue, wifiReady,
                 active, arg, login, sock, open, history>>

End(t) ==
  /\ At(t, "delay") /\ ~active[t]
  /\ Goto(t, "none")
  /\ host' = IF host = "closing" THEN "idle" ELSE host
  /\ UNCHANGED <<crashed, fields, network, client, psQueue, wifiReady,
                 active, arg, login, sock, open, nextId, taken, mark>>

(* The next step follows a null pointer, or one into a deleted stack.      *)
Dead(n) == n = Null \/ (n \in Task /\ pc[n] = "none")

BadPointer(t) ==
  /\ ~crashed
  /\ \/ pc[t] \in {"dns", "tcp"} /\ Dead(arg[t])
     \/ pc[t] \in {"connack", "send", "yield"} /\ Dead(client.ipstack)
     \/ pc[t] \in {"connack", "yield"} /\ Dead(network)
  /\ Crash

mqtt_task(t) ==
  \/ TakeWifi(t) \/ ResolveFail(t) \/ ResolveOk(t) \/ TcpFail(t) \/ TcpOk(t)
  \/ MqttRefuse(t) \/ MqttAccept(t)
  \/ TakeDisconnect(t) \/ TakeRequest(t) \/ DrainEmpty(t)
  \/ SendOk(t) \/ SendFail(t)
  \/ YieldAgain(t) \/ YieldLast(t) \/ YieldDisconnected(t)
  \/ Retry(t) \/ End(t)
  \/ BadPointer(t)

(* A fatal exception restarts the chip, and everything is lost.            *)
Reboot ==
  /\ crashed
  /\ crashed' = FALSE
  /\ setup' = "none" /\ partial' = SetUp
  /\ inited' = FALSE /\ token' = FALSE /\ appid' = FALSE
  /\ alias' = FALSE /\ callbacks' = FALSE
  /\ mqtttask' = Null /\ network' = Null
  /\ client' = [isconnected |-> FALSE, ipstack |-> Null]
  /\ psQueue' = << >>
  /\ wifiReady' = FALSE
  /\ pc' = [t \in Task |-> "none"]
  /\ active' = [t \in Task |-> FALSE]
  /\ arg' = [t \in Task |-> Null]
  /\ login' = [t \in Task |-> FALSE]
  /\ sock' = [t \in Task |-> NoSocket]
  /\ open' = {}
  /\ host' = "idle" /\ nextId' = 1 /\ taken' = << >> /\ mark' = 1

read_sr ==
  \/ \E c \in SetUp : BeginSetUp(c)
  \/ AbandonSetUp
  \/ \E a \in BOOLEAN : AT_MGIN(a)
  \/ AT_MGST \/ AT_MGCN \/ AT_MGDC \/ AT_Request

Next ==
  \/ read_sr
  \/ GiveWifi
  \/ \E t \in Task : mqtt_task(t)
  \/ Reboot

Spec == Init /\ [][Next]_vars

(* Every blocking call of the task has a timeout, and the scheduler always *)
(* lets it run: only the wait for WiFi may last.                           *)
FairSpec == Spec /\ \A t \in Task : WF_vars(mqtt_task(t))

-----------------------------------------------------------------------------
(* Every variable keeps its type; ps_queue never holds more than its       *)
(* length.                                                                 *)
TypeOK ==
  /\ crashed \in BOOLEAN
  /\ setup \in SetUp \cup {"none"} /\ partial \subseteq SetUp
  /\ inited \in BOOLEAN /\ token \in BOOLEAN /\ appid \in BOOLEAN
  /\ alias \in BOOLEAN /\ callbacks \in BOOLEAN
  /\ mqtttask \in Task \cup {Null}
  /\ network \in Task \cup {Null}
  /\ client \in [isconnected : BOOLEAN, ipstack : Task \cup {Null}]
  /\ psQueue \in Seq(Message) /\ Len(psQueue) <= QueueLength
  /\ wifiReady \in BOOLEAN
  /\ pc \in [Task -> Label]
  /\ active \in [Task -> BOOLEAN]
  /\ arg \in [Task -> Task \cup {Null}]
  /\ login \in [Task -> BOOLEAN]
  /\ sock \in [Task -> Socket \cup {NoSocket}]
  /\ open \in SUBSET Socket
  /\ host \in {"idle", "up", "closing"}
  /\ nextId \in 1 .. MaxId + 1
  /\ taken \in Seq(Message)
  /\ mark \in 1 .. MaxId + 1

(* For any host, patient or not: a handle that is not null denotes a task  *)
(* that lives and has not been told to stop.  AT+MGCN relies on it to do   *)
(* nothing when mqtttask is set (Microgear.c:352), although a task that    *)
(* ends never clears the handle (:343 compares instead of assigning) and   *)
(* the disconnect it obeys may have been meant for an earlier task.        *)
HandleLive ==
  mqtttask # Null => pc[mqtttask] # "none" /\ active[mqtttask]

(* With a patient host nothing follows a null or dead pointer: the fields  *)
(* a task reads unchecked (Microgear.c:217-335) are always set.            *)
NoFault == ~crashed

(* With a patient host at most one mqtt_task uses the shared client and    *)
(* network, however often AT+MGCN and AT+MGDC are repeated.                *)
AtMostOneTask == \A t, u \in Live : t = u

(* With a patient host a task in its session works on its own connection:  *)
(* mg->client and mg->network are its own, its socket is open, the host's  *)
(* callbacks are registered (Microgear.c:262-291), and it logged in with   *)
(* whole credentials, although the task composes them from buffers that    *)
(* AT+MGIN and AT+MGST clear and fill at leisure (:241, :268).             *)
SessionIntegrity ==
  \A t \in Task : pc[t] \in Session =>
    /\ client = [isconnected |-> TRUE, ipstack |-> t]
    /\ network = t
    /\ sock[t] \in open
    /\ callbacks
    /\ login[t]

(* With a patient host every open socket belongs to a task that is using   *)
(* it, whichever of the many ways a connection attempt ends: none leaks,   *)
(* and my_socket is never a closed or foreign number while it is in use.   *)
NoLeak == open = {sock[t] : t \in {u \in Task : pc[u] \in Holding}}

(* The phase of the connection, whichever task carries it.                 *)
Phase ==
  IF \A t \in Task : pc[t] \notin Session THEN "down"
  ELSE IF \E t \in Task : pc[t] \in Session /\ active[t] THEN "up"
  ELSE "ending"

Conn == INSTANCE Connection WITH
  Length <- QueueLength, Last <- MaxId,
  phase <- Phase, pending <- psQueue, served <- taken, named <- alias,
  next <- nextId, first <- mark

(* With a patient host the tasks that come and go are one connection: no   *)
(* session begins before the last one ended, set-up and xQueueReset        *)
(* (Microgear.c:282) never touch the queue of a session, nothing is served *)
(* behind a disconnect, and a session serves the alias first and then only *)
(* requests made since it began, each once and in the host's order.        *)
ImplementsConnection == Conn!Spec /\ []Conn!InOrder

(* A disconnect that is in the queue while a task is in its session ends   *)
(* that session, whatever requests are before it in the queue and however  *)
(* they fail (Microgear.c:293-324).                                        *)
QueuedDisconnectEndsSession ==
  \A t \in Task :
    (pc[t] \in Session /\ \E i \in 1 .. Len(psQueue) : psQueue[i] = Disconnect)
      ~> pc[t] \notin Session

(* A task that has taken the disconnect ends and is deleted.               *)
StoppedTaskEnds ==
  \A t \in Task : (pc[t] # "none" /\ ~active[t]) ~> pc[t] = "none"

(* user_main.c:163 "<12> Disconnect from Netpie": after an AT+MGDC the     *)
(* connection ends.                                                        *)
DisconnectHonoured == (host = "closing") ~> (host # "closing")
=============================================================================
