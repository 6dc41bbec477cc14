--------------------------- MODULE MicrogearProofs ---------------------------
(***************************************************************************)
(* Proofs about Microgear, for any number of tasks, sockets, requests and  *)
(* any queue length.                                                       *)
(***************************************************************************)
EXTENDS Microgear, SequenceTheorems, TLAPS

USE TaskAssumption, SocketAssumption, QueueAssumption, PatientAssumption

(* What a full or a free queue becomes.                                    *)
LEMMA EnqueueType ==
  ASSUME TypeOK, NEW m \in Message, Enqueue(m)
  PROVE  /\ psQueue' \in Seq(Message)
         /\ Len(psQueue') <= QueueLength
         /\ \A i \in 1 .. Len(psQueue') :
              psQueue'[i] = m \/ (i <= Len(psQueue) /\ psQueue'[i] = psQueue[i])
<1>1. psQueue \in Seq(Message) /\ Len(psQueue) <= QueueLength
  BY DEF TypeOK
<1>2. CASE Len(psQueue) < QueueLength
  <2>1. psQueue' = Append(psQueue, m)
    BY <1>2 DEF Enqueue
  <2> QED BY <1>1, <1>2, <2>1, SMT
<1>3. CASE ~(Len(psQueue) < QueueLength)
  <2>1. psQueue' = psQueue
    BY <1>3 DEF Enqueue
  <2> QED BY <1>1, <2>1, SMT
<1> QED BY <1>2, <1>3

(* What is left when the head has been taken.                              *)
LEMMA TailType ==
  ASSUME TypeOK, psQueue # << >>, psQueue' = Tail(psQueue)
  PROVE  /\ Head(psQueue) = psQueue[1] /\ 1 \in 1 .. Len(psQueue)
         /\ Head(psQueue) \in Message
         /\ psQueue' \in Seq(Message)
         /\ Len(psQueue') <= QueueLength
         /\ \A i \in 1 .. Len(psQueue') :
              i + 1 \in 1 .. Len(psQueue) /\ psQueue'[i] = psQueue[i + 1]
BY SMT DEF TypeOK

LEMMA FirstQueueType ==
  /\ FirstQueue \in Seq(Message)
  /\ Len(FirstQueue) <= QueueLength
  /\ \A i \in 1 .. Len(FirstQueue) : FirstQueue[i] = Alias
<1>1. Alias \in Message
  BY DEF Message
<1>2. CASE alias
  <2>1. FirstQueue = <<Alias>>
    BY <1>2 DEF FirstQueue
  <2> QED BY <1>1, <2>1, SMT
<1>3. CASE ~alias
  <2>1. FirstQueue = << >>
    BY <1>3 DEF FirstQueue
  <2> QED BY <2>1, SMT
<1> QED BY <1>2, <1>3

-----------------------------------------------------------------------------
(* Type correctness, with the two sequences apart from the rest.           *)
QueueOK == psQueue \in Seq(Message) /\ Len(psQueue) <= QueueLength
TakenOK == taken \in Seq(Message)
FieldsOK ==
  /\ setup \in SetUp \cup {"none"} /\ partial \subseteq SetUp
  /\ inited \in BOOLEAN /\ token \in BOOLEAN /\ appid \in BOOLEAN
  /\ alias \in BOOLEAN /\ callbacks \in BOOLEAN
  /\ mqtttask \in Task \cup {Null}
SharedOK ==
  /\ crashed \in BOOLEAN /\ wifiReady \in BOOLEAN
  /\ network \in Task \cup {Null}
  /\ client \in [isconnected : BOOLEAN, ipstack : Task \cup {Null}]
TasksOK ==
  /\ pc \in [Task -> Label]
  /\ active \in [Task -> BOOLEAN]
  /\ arg \in [Task -> Task \cup {Null}]
  /\ login \in [Task -> BOOLEAN]
  /\ sock \in [Task -> Socket \cup {NoSocket}]
  /\ open \in SUBSET Socket
HistoryOK ==
  /\ host \in {"idle", "up", "closing"}
  /\ nextId \in 1 .. MaxId + 1
  /\ mark \in 1 .. MaxId + 1

LEMMA TypeParts ==
  TypeOK <=> QueueOK /\ TakenOK /\ FieldsOK /\ SharedOK /\ TasksOK /\ HistoryOK
BY DEF TypeOK, QueueOK, TakenOK, FieldsOK, SharedOK, TasksOK, HistoryOK

LEMMA TypePartsNext ==
  TypeOK' <=> QueueOK' /\ TakenOK' /\ FieldsOK' /\ SharedOK' /\ TasksOK' /\ HistoryOK'
BY DEF TypeOK, QueueOK, TakenOK, FieldsOK, SharedOK, TasksOK, HistoryOK

(* A step that leaves a part alone keeps it.                               *)
LEMMA PartsUnchanged ==
  /\ QueueOK /\ UNCHANGED psQueue => QueueOK'
  /\ TakenOK /\ UNCHANGED taken => TakenOK'
  /\ FieldsOK /\ UNCHANGED fields => FieldsOK'
  /\ TasksOK /\ UNCHANGED tasks => TasksOK'
  /\ HistoryOK /\ UNCHANGED <<host, nextId, mark>> => HistoryOK'
  /\ SharedOK /\ UNCHANGED <<crashed, wifiReady, network, client>> => SharedOK'
BY DEF QueueOK, TakenOK, FieldsOK, SharedOK, TasksOK, HistoryOK, fields, tasks

LEMMA CrashType == ASSUME TypeOK, Crash PROVE TypeOK'
BY TypeParts, TypePartsNext, PartsUnchanged DEF Crash, history, SharedOK

(* Init, and what Reboot puts back.                                        *)
LEMMA InitType == Init => TypeOK
<1> SUFFICES ASSUME Init PROVE TypeOK
  OBVIOUS
<1>1. QueueOK /\ TakenOK
  BY EmptySeq, SMT DEF Init, QueueOK, TakenOK
<1>2. FieldsOK /\ SharedOK
  BY DEF Init, FieldsOK, SharedOK
<1>3. TasksOK /\ HistoryOK
  BY SMT DEF Init, TasksOK, HistoryOK, Label
<1> QED BY <1>1, <1>2, <1>3, TypeParts

LEMMA RebootType == ASSUME Reboot PROVE TypeOK'
<1>1. QueueOK' /\ TakenOK'
  BY EmptySeq, SMT DEF Reboot, QueueOK, TakenOK
<1>2. FieldsOK' /\ SharedOK'
  BY DEF Reboot, FieldsOK, SharedOK
<1>3. TasksOK' /\ HistoryOK'
  BY SMT DEF Reboot, TasksOK, HistoryOK, Label
<1> QED BY <1>1, <1>2, <1>3, TypePartsNext

(* The AT commands.                                                        *)
LEMMA HostType ==
  ASSUME TypeOK, read_sr
  PROVE  TypeOK'
<1> QueueOK /\ TakenOK /\ FieldsOK /\ SharedOK /\ TasksOK /\ HistoryOK
  BY TypeParts
<1> USE PartsUnchanged
<1>a. ASSUME NEW c \in SetUp, BeginSetUp(c) PROVE TypeOK'
  <2>1. FieldsOK' /\ SharedOK'
    BY <1>a DEF BeginSetUp, FieldsOK, SharedOK
  <2> QED BY <1>a, <2>1, TypePartsNext DEF BeginSetUp, history
<1>b. CASE AbandonSetUp
  <2>1. FieldsOK' /\ SharedOK'
    BY <1>b DEF AbandonSetUp, FieldsOK, SharedOK
  <2> QED BY <1>b, <2>1, TypePartsNext DEF AbandonSetUp, history
<1>1. ASSUME NEW a \in BOOLEAN, AT_MGIN(a) PROVE TypeOK'
  <2>1. QueueOK'
    BY <1>1, EmptySeq, SMT DEF AT_MGIN, QueueOK
  <2>2. FieldsOK' /\ SharedOK'
    BY <1>1 DEF AT_MGIN, Complete, FieldsOK, SharedOK
  <2> QED BY <1>1, <2>1, <2>2, TypePartsNext DEF AT_MGIN, history
<1>2. CASE AT_MGST
  <2>1. FieldsOK' /\ SharedOK'
    BY <1>2 DEF AT_MGST, Complete, FieldsOK, SharedOK
  <2> QED BY <1>2, <2>1, TypePartsNext DEF AT_MGST, history
<1>3. CASE AT_MGCN
  <2>1. ASSUME NEW t \in Task, CreateTask(t)
        PROVE  /\ mqtttask' \in Task \cup {Null}
               /\ network' \in Task \cup {Null}
               /\ client' \in [isconnected : BOOLEAN, ipstack : Task \cup {Null}]
               /\ TasksOK'
    BY <2>1 DEF CreateTask, TasksOK, Label
  <2>2. /\ mqtttask' \in Task \cup {Null}
        /\ network' \in Task \cup {Null}
        /\ client' \in [isconnected : BOOLEAN, ipstack : Task \cup {Null}]
        /\ TasksOK'
    BY <1>3, <2>1 DEF AT_MGCN, FieldsOK, SharedOK
  <2>3. FieldsOK' /\ SharedOK' /\ HistoryOK'
    BY <1>3, <2>2 DEF AT_MGCN, FieldsOK, SharedOK, HistoryOK
  <2>4. QueueOK' /\ TakenOK'
    BY <1>3 DEF AT_MGCN
  <2> QED BY <2>2, <2>3, <2>4, TypePartsNext
<1>4. CASE AT_MGDC
  <2>1. CASE Crash
    BY <2>1, CrashType
  <2>2. CASE Enqueue(Disconnect) /\ ~Crash
    <3>1. QueueOK'
      BY <2>2, EnqueueType DEF Message, QueueOK
    <3>2. FieldsOK' /\ SharedOK' /\ HistoryOK' /\ TasksOK' /\ TakenOK'
      BY <1>4, <2>2 DEF AT_MGDC, FieldsOK, SharedOK, HistoryOK
    <3> QED BY <3>1, <3>2, TypePartsNext
  <2> QED BY <1>4, <2>1, <2>2 DEF AT_MGDC
<1>5. CASE AT_Request
  <2>1. CASE Crash
    BY <2>1, CrashType
  <2>2. CASE Enqueue(nextId) /\ ~Crash
    <3>1. nextId \in Message
      BY <1>5 DEF AT_Request, Message
    <3>2. QueueOK'
      BY <2>2, <3>1, EnqueueType DEF QueueOK
    <3>3. HistoryOK'
      BY <1>5, <2>2, SMT DEF AT_Request, HistoryOK, Request
    <3>4. FieldsOK' /\ SharedOK' /\ TasksOK' /\ TakenOK'
      BY <1>5, <2>2 DEF AT_Request, SharedOK
    <3> QED BY <3>2, <3>3, <3>4, TypePartsNext
  <2> QED BY <1>5, <2>1, <2>2 DEF AT_Request
<1> QED BY <1>a, <1>b, <1>1, <1>2, <1>3, <1>4, <1>5 DEF read_sr

(* The steps of a task.                                                    *)
LEMMA TaskType ==
  ASSUME TypeOK, NEW t \in Task, mqtt_task(t)
  PROVE  TypeOK'
<1> QueueOK /\ TakenOK /\ FieldsOK /\ SharedOK /\ TasksOK /\ HistoryOK
  BY TypeParts
<1> USE PartsUnchanged DEF Goto, history
<1>0. ASSUME NEW l \in Label, Goto(t, l), UNCHANGED <<active, arg, login, sock, open>>
      PROVE  TasksOK'
  BY <1>0 DEF TasksOK
<1>1. CASE TakeWifi(t)
  <2>1. CASE Crash
    BY <2>1, CrashType
  <2>2. CASE ~Crash
    <3>1. PICK l \in {"dns", "delay"} : Goto(t, l)
      BY <1>1, <2>2 DEF TakeWifi
    <3>2. TasksOK'
      <4>1. pc' \in [Task -> Label] /\ arg' \in [Task -> Task \cup {Null}]
            /\ UNCHANGED <<active, sock, open>>
        BY <1>1, <2>2, <3>1 DEF TakeWifi, TasksOK, SharedOK, Label
      <4>2. login' = [login EXCEPT ![t] = (partial = {})]
        BY <1>1, <2>2 DEF TakeWifi
      <4>3. (partial = {}) \in BOOLEAN
        OBVIOUS
      <4>4. login' \in [Task -> BOOLEAN]
        BY <4>2, <4>3, Zenon DEF TasksOK
      <4> QED BY <4>1, <4>4 DEF TasksOK
    <3>3. SharedOK'
      BY <1>1, <2>2 DEF TakeWifi, SharedOK
    <3> QED BY <1>1, <2>2, <3>2, <3>3, TypePartsNext DEF TakeWifi
  <2> QED BY <2>1, <2>2
<1>2. CASE ResolveFail(t)
  <2>1. TasksOK'
    BY <1>2 DEF ResolveFail, TasksOK, Label
  <2> QED BY <1>2, <2>1, TypePartsNext DEF ResolveFail
<1>3. CASE ResolveOk(t)
  <2>1. TasksOK'
    BY <1>3 DEF ResolveOk, TasksOK, Label, Holding
  <2> QED BY <1>3, <2>1, TypePartsNext DEF ResolveOk
<1>4. CASE TcpFail(t)
  <2>1. TasksOK'
    BY <1>4 DEF TcpFail, TasksOK, Label
  <2> QED BY <1>4, <2>1, TypePartsNext DEF TcpFail
<1>5. CASE TcpOk(t)
  <2>1. TasksOK' /\ SharedOK'
    BY <1>5 DEF TcpOk, TasksOK, SharedOK, Label, Holding, Connected
  <2> QED BY <1>5, <2>1, TypePartsNext DEF TcpOk
<1>6. CASE Leave(t)
  <2>1. TasksOK'
    BY <1>6 DEF Leave, TasksOK, Label
  <2> QED BY <1>6, <2>1, TypePartsNext DEF Leave
<1>7. CASE MqttAccept(t)
  <2>1. CASE Crash
    BY <2>1, CrashType
  <2>2. CASE ~Crash
    <3>1. TasksOK' /\ SharedOK' /\ HistoryOK'
      <4>1. TasksOK'
        BY <1>7, <2>2 DEF MqttAccept, TasksOK, Label, Holding, Connected, Session
      <4>2. SharedOK'
        BY <1>7, <2>2 DEF MqttAccept, SharedOK
      <4>3. HistoryOK'
        BY <1>7, <2>2 DEF MqttAccept, HistoryOK
      <4> QED BY <4>1, <4>2, <4>3
    <3>2. QueueOK'
      BY <1>7, <2>2, FirstQueueType DEF MqttAccept, QueueOK
    <3>3. TakenOK'
      BY <1>7, <2>2, EmptySeq DEF MqttAccept, TakenOK
    <3> QED BY <1>7, <2>2, <3>1, <3>2, <3>3, TypePartsNext DEF MqttAccept
  <2> QED BY <2>1, <2>2
<1>8. CASE TakeDisconnect(t)
  <2>1. TasksOK'
    BY <1>8 DEF TakeDisconnect, TasksOK, Label, Holding, Connected, Session
  <2>2. QueueOK'
    BY <1>8, TailType DEF TakeDisconnect, QueueOK
  <2> QED BY <1>8, <2>1, <2>2, TypePartsNext DEF TakeDisconnect
<1>9. CASE TakeRequest(t)
  <2>1. TasksOK'
    BY <1>9 DEF TakeRequest, TasksOK, Label, Holding, Connected, Session
  <2>2. QueueOK' /\ Head(psQueue) \in Message
    BY <1>9, TailType DEF TakeRequest, QueueOK
  <2>3. TakenOK'
    BY <1>9, <2>2, SMT DEF TakeRequest, TakenOK
  <2> QED BY <1>9, <2>1, <2>2, <2>3, TypePartsNext DEF TakeRequest
<1>10. CASE DrainEmpty(t) \/ SendOk(t) \/ SendFail(t) \/ YieldAgain(t) \/ Retry(t)
  <2>1. TasksOK'
    BY <1>10 DEF DrainEmpty, SendOk, SendFail, YieldAgain, Retry, TasksOK,
                 Label, Holding, Connected, Session
  <2> QED BY <1>10, <2>1, TypePartsNext
          DEF DrainEmpty, SendOk, SendFail, YieldAgain, Retry
<1>11. CASE End(t)
  <2>1. TasksOK' /\ HistoryOK'
    BY <1>11 DEF End, TasksOK, HistoryOK, Label
  <2> QED BY <1>11, <2>1, TypePartsNext DEF End
<1>12. CASE BadPointer(t)
  BY <1>12, CrashType DEF BadPointer
<1> QED BY <1>1, <1>2, <1>3, <1>4, <1>5, <1>6, <1>7, <1>8, <1>9, <1>10, <1>11, <1>12
        DEF mqtt_task, MqttRefuse, YieldLast, YieldDisconnected

LEMMA NextType == TypeOK /\ [Next]_vars => TypeOK'
<1> SUFFICES ASSUME TypeOK, [Next]_vars PROVE TypeOK'
  OBVIOUS
<1>1. CASE GiveWifi
  <2>1. SharedOK'
    BY <1>1, TypeParts DEF GiveWifi, SharedOK
  <2> QED BY <1>1, <2>1, TypeParts, TypePartsNext, PartsUnchanged DEF GiveWifi, history
<1>2. CASE UNCHANGED vars
  BY <1>2, TypeParts, TypePartsNext, PartsUnchanged DEF vars, history, SharedOK
<1> QED BY <1>1, <1>2, HostType, TaskType, RebootType DEF Next

(* Every reachable state of the connection is well typed; in particular    *)
(* ps_queue never exceeds PUBSUBQUEUE_LENGTH.                              *)
THEOREM TypeCorrect == Spec => []TypeOK
<1> QED BY InitType, NextType, PTL DEF Spec

-----------------------------------------------------------------------------
(* The handle of any host.  A task may only be told to stop by a message   *)
(* that came before the handle was its own, or after it no longer was: in  *)
(* the session of the task the handle denotes, no disconnect is queued.    *)
Handle(t) ==
  /\ pc[t] # "none" /\ active[t]
  /\ pc[t] \in Session =>
       \A i \in 1 .. Len(psQueue) : psQueue[i] # Disconnect

HandleInv == mqtttask # Null => Handle(mqtttask)

LEMMA HostHandle ==
  ASSUME TypeOK, HandleInv, read_sr
  PROVE  HandleInv'
<1>a. ASSUME NEW c \in SetUp, BeginSetUp(c) PROVE HandleInv'
  BY <1>a DEF BeginSetUp, HandleInv, Handle, tasks
<1>b. CASE AbandonSetUp
  BY <1>b DEF AbandonSetUp, HandleInv, Handle, tasks
<1>1. ASSUME NEW a \in BOOLEAN, AT_MGIN(a) PROVE HandleInv'
  BY <1>1 DEF AT_MGIN, HandleInv
<1>2. CASE AT_MGST
  BY <1>2 DEF AT_MGST, HandleInv, Handle, tasks
<1>3. CASE AT_MGCN
  <2>1. ASSUME NEW t \in Task, CreateTask(t)
        PROVE  HandleInv'
    <3>1. mqtttask' = t /\ pc'[t] = "wait" /\ active'[t] = TRUE
      BY <2>1 DEF CreateTask, TypeOK
    <3> QED BY <3>1 DEF HandleInv, Handle, Session
  <2>2. CASE UNCHANGED <<mqtttask, tasks>>
    BY <1>3, <2>2 DEF AT_MGCN, HandleInv, Handle, tasks
  <2> QED BY <1>3, <2>1, <2>2 DEF AT_MGCN
<1>4. CASE AT_MGDC
  BY <1>4 DEF AT_MGDC, Crash, HandleInv, Handle, fields, tasks
<1>5. CASE AT_Request
  <2>1. CASE Crash
    BY <2>1 DEF Crash, HandleInv, Handle, fields, tasks
  <2>2. CASE Enqueue(nextId) /\ UNCHANGED <<fields, tasks>>
    <3>1. nextId \in Message /\ nextId # Disconnect
      BY <1>5, SMT DEF AT_Request, Message, Request, Disconnect
    <3>2. \A i \in 1 .. Len(psQueue') :
            psQueue'[i] = nextId \/ (i \in 1 .. Len(psQueue) /\ psQueue'[i] = psQueue[i])
      BY <2>2, <3>1, EnqueueType, SMT DEF TypeOK
    <3> QED BY <2>2, <3>1, <3>2 DEF HandleInv, Handle, fields, tasks
  <2> QED BY <1>5, <2>1, <2>2 DEF AT_Request
<1> QED BY <1>a, <1>b, <1>1, <1>2, <1>3, <1>4, <1>5 DEF read_sr

LEMMA TaskHandle ==
  ASSUME TypeOK, HandleInv, NEW t \in Task, mqtt_task(t)
  PROVE  HandleInv'
<1> USE DEF Goto
<1>0. pc \in [Task -> Label] /\ active \in [Task -> BOOLEAN]
      /\ mqtttask \in Task \cup {Null}
  BY DEF TypeOK
<1>1. CASE Crash
  BY <1>1 DEF Crash, HandleInv, Handle, fields, tasks
<1>2. ASSUME NEW l \in Label, Goto(t, l), l # "none",
             l \in Session => pc[t] \in Session,
             UNCHANGED <<mqtttask, active, psQueue>>
      PROVE  HandleInv'
  BY <1>0, <1>2 DEF HandleInv, Handle
<1> USE DEF Label, Holding, Connected, Session
<1>3. CASE TakeWifi(t) /\ ~Crash
  <2>1. PICK l \in {"dns", "delay"} : Goto(t, l)
    BY <1>3 DEF TakeWifi
  <2> QED BY <1>2, <1>3, <2>1 DEF TakeWifi, fields
<1>4. CASE ResolveFail(t) \/ ResolveOk(t) \/ TcpFail(t) \/ TcpOk(t) \/ Leave(t)
  BY <1>2, <1>4 DEF ResolveFail, ResolveOk, TcpFail, TcpOk, Leave, fields
<1>5. CASE MqttAccept(t) /\ ~Crash
  <2>1. \A i \in 1 .. Len(psQueue') : psQueue'[i] # Disconnect
    BY <1>5, FirstQueueType DEF MqttAccept, Alias, Disconnect
  <2>2. Goto(t, "drain") /\ UNCHANGED <<mqtttask, active>>
    BY <1>5 DEF MqttAccept, fields
  <2> QED BY <1>0, <2>1, <2>2 DEF HandleInv, Handle
<1>6. CASE TakeDisconnect(t)
  <2>1. psQueue[1] = Disconnect /\ 1 \in 1 .. Len(psQueue)
    BY <1>6, TailType DEF TakeDisconnect
  <2>2. mqtttask # t
    BY <1>0, <1>6, <2>1 DEF TakeDisconnect, At, HandleInv, Handle
  <2>3. mqtttask' # Null =>
          pc'[mqtttask'] = pc[mqtttask] /\ active'[mqtttask'] = active[mqtttask]
    BY <1>0, <1>6, <2>2 DEF TakeDisconnect, fields
  <2>4. \A i \in 1 .. Len(psQueue') :
          i + 1 \in 1 .. Len(psQueue) /\ psQueue'[i] = psQueue[i + 1]
    BY <1>6, TailType DEF TakeDisconnect
  <2> QED BY <1>6, <2>3, <2>4 DEF TakeDisconnect, fields, HandleInv, Handle
<1>7. CASE TakeRequest(t)
  <2>1. \A i \in 1 .. Len(psQueue') :
          i + 1 \in 1 .. Len(psQueue) /\ psQueue'[i] = psQueue[i + 1]
    BY <1>7, TailType DEF TakeRequest
  <2>2. PICK l \in {"send", "yield"} : Goto(t, l)
    BY <1>7 DEF TakeRequest
  <2>3. pc[t] = "drain" /\ UNCHANGED <<mqtttask, active>>
    BY <1>7 DEF TakeRequest, At, fields
  <2> QED BY <1>0, <2>1, <2>2, <2>3 DEF HandleInv, Handle
<1>8. CASE DrainEmpty(t) \/ SendOk(t) \/ SendFail(t) \/ YieldAgain(t) \/ Retry(t)
  BY <1>2, <1>8 DEF DrainEmpty, SendOk, SendFail, YieldAgain, Retry, At, fields
<1>9. CASE End(t)
  <2>1. mqtttask # t
    BY <1>9 DEF End, HandleInv, Handle
  <2> QED BY <1>0, <1>9, <2>1 DEF End, fields, HandleInv, Handle
<1> QED BY <1>1, <1>3, <1>4, <1>5, <1>6, <1>7, <1>8, <1>9
        DEF mqtt_task, MqttRefuse, YieldLast, YieldDisconnected, BadPointer

LEMMA NextHandle == TypeOK /\ HandleInv /\ [Next]_vars => HandleInv'
<1> SUFFICES ASSUME TypeOK, HandleInv, [Next]_vars PROVE HandleInv'
  OBVIOUS
<1>1. CASE GiveWifi
  BY <1>1 DEF GiveWifi, HandleInv, Handle, fields, tasks
<1>2. CASE Reboot
  BY <1>2 DEF Reboot, HandleInv
<1>3. CASE UNCHANGED vars
  BY <1>3 DEF vars, HandleInv, Handle, fields, tasks
<1> QED BY <1>1, <1>2, <1>3, HostHandle, TaskHandle DEF Next

(* For every host, however it misuses AT+MGIN, AT+MGCN and AT+MGDC, and    *)
(* for every number of tasks: the handle that AT+MGCN tests denotes a task *)
(* that lives and was not told to stop.                                    *)
THEOREM HandleAlwaysLive == Spec => []HandleLive
<1>1. Init => HandleInv
  BY DEF Init, HandleInv
<1>2. HandleInv => HandleLive
  BY DEF HandleInv, Handle, HandleLive
<1> QED BY <1>1, <1>2, NextHandle, TypeCorrect, PTL DEF Spec

-----------------------------------------------------------------------------
(* The patient host.  What its view of the connection says of the code:    *)
(* idle or up with no handle means no task, and a handle is the only task. *)
View ==
  /\ mqtttask = Null /\ host # "closing" => Live = {}
  /\ mqtttask # Null => Live = {mqtttask}
  /\ host # "up" => mqtttask = Null
  /\ host # "idle" => inited /\ token
  /\ appid => inited
  /\ \A t, u \in Live : t = u

(* Texts are only under way while there is no connection, and otherwise    *)
(* whole once they were given.                                             *)
Texts ==
  /\ setup # "none" => host = "idle"
  /\ inited /\ setup # "AT+MGIN" => "AT+MGIN" \notin partial
  /\ token /\ setup # "AT+MGST" => "AT+MGST" \notin partial

(* What every task finds set up, at each point of its life.                *)
Owns(t) ==
  /\ pc[t] # "none" => inited /\ token /\ appid /\ callbacks /\ network = t
  /\ pc[t] \notin {"none", "delay", "yield"} => active[t]
  /\ pc[t] \in {"dns", "tcp"} => arg[t] = t
  /\ pc[t] \in Holding \cup {"dns"} => login[t]
  /\ pc[t] \in Holding => open = {sock[t]}
  /\ pc[t] \in Connected => client.ipstack = t
  /\ pc[t] \in Session => client.isconnected

Tidy ==
  /\ ~crashed
  /\ View
  /\ Texts
  /\ \A t \in Task : Owns(t)
  /\ (\A t \in Task : pc[t] \notin Holding) => open = {}

LEMMA HostTidy ==
  ASSUME TypeOK, Tidy, Patient, read_sr
  PROVE  Tidy'
<1> USE DEF Label, Holding, Connected, Session
<1>0. /\ pc \in [Task -> Label] /\ mqtttask \in Task \cup {Null}
      /\ sock \in [Task -> Socket \cup {NoSocket}]
      /\ host \in {"idle", "up", "closing"} /\ active \in [Task -> BOOLEAN]
  BY DEF TypeOK
<1>a. ASSUME NEW c \in SetUp, BeginSetUp(c) PROVE Tidy'
  <2>1. host = "idle"
    BY <1>a DEF BeginSetUp, MaySetUp
  <2>2. UNCHANGED <<crashed, inited, token, appid, callbacks, mqtttask, network,
                    client, tasks, host>>
    BY <1>a DEF BeginSetUp, history
  <2>3. View' /\ \A t \in Task : Owns(t)'
    BY <2>2 DEF Tidy, View, Owns, Live, tasks
  <2>4. Texts'
    BY <1>a, <2>1, <2>2 DEF BeginSetUp, Listening, Tidy, Texts, SetUp
  <2> QED BY <2>2, <2>3, <2>4 DEF Tidy, tasks
<1>b. ~AbandonSetUp
  BY DEF AbandonSetUp
<1>1. ASSUME NEW a \in BOOLEAN, AT_MGIN(a) PROVE Tidy'
  <2>0. setup = "AT+MGIN" /\ setup' = "none" /\ partial' = partial \ {"AT+MGIN"}
    BY <1>1 DEF AT_MGIN, Complete
  <2>1. host = "idle" /\ mqtttask = Null /\ Live = {}
    BY <2>0 DEF Tidy, View, Texts
  <2>2. \A t \in Task : pc[t] = "none"
    BY <2>1 DEF Live
  <2>3. View'
    BY <1>1, <2>1 DEF AT_MGIN, Tidy, View, Live, tasks, history
  <2>4. \A t \in Task : Owns(t)'
    BY <1>1, <2>2 DEF AT_MGIN, Owns, tasks
  <2>5. Texts'
    BY <1>1, <2>0 DEF AT_MGIN, Tidy, Texts
  <2> QED BY <1>1, <2>3, <2>4, <2>5 DEF AT_MGIN, Complete, Tidy, tasks
<1>2. CASE AT_MGST
  <2>1. setup = "AT+MGST" /\ setup' = "none" /\ partial' = partial \ {"AT+MGST"}
    BY <1>2 DEF AT_MGST, Complete
  <2>2. token' /\ UNCHANGED <<crashed, inited, appid, callbacks, mqtttask, network,
                              client, tasks, host>>
    BY <1>2 DEF AT_MGST, Complete, history
  <2>3. View' /\ \A t \in Task : Owns(t)'
    BY <2>2 DEF Tidy, View, Owns, Live, tasks
  <2>4. Texts'
    BY <2>1, <2>2 DEF Tidy, Texts
  <2> QED BY <2>2, <2>3, <2>4 DEF Tidy, tasks
<1>3. CASE AT_MGCN
  <2>0. inited /\ token /\ host # "closing" /\ setup = "none"
    BY <1>3 DEF AT_MGCN, MayConnect, Listening
  <2>t. Texts'
    BY <1>3, <2>0 DEF AT_MGCN, Tidy, Texts
  <2>1. ASSUME mqtttask = Null, appid', NEW t \in Task, CreateTask(t) PROVE Tidy'
    <3>1. Live = {} /\ \A u \in Task : pc[u] = "none"
      BY <2>0, <2>1 DEF Tidy, View, Live
    <3>2. /\ pc' = [pc EXCEPT ![t] = "wait"] /\ mqtttask' = t /\ network' = t
          /\ open' = open
      BY <2>1 DEF CreateTask
    <3>3. open = {}
      BY <3>1 DEF Tidy
    <3>4. Live' = {t}
      BY <1>0, <3>1, <3>2 DEF Live
    <3>5. inited' /\ token' /\ callbacks' /\ host' = "up" /\ ~crashed'
      BY <1>3, <2>0 DEF AT_MGCN, Listening
    <3>6. View'
      BY <2>1, <3>2, <3>4, <3>5 DEF View
    <3>7. ASSUME NEW u \in Task PROVE Owns(u)'
      <4>1. pc'[u] \in {"none", "wait"} /\ (pc'[u] # "none" => u = t /\ active'[u])
        BY <1>0, <2>1, <3>1, <3>2 DEF CreateTask
      <4> QED BY <2>1, <3>2, <3>5, <4>1 DEF Owns
    <3> QED BY <2>t, <3>2, <3>3, <3>5, <3>6, <3>7 DEF Tidy
  <2>2. ASSUME mqtttask = Null, appid', Live = Task,
               UNCHANGED <<mqtttask, client, network, tasks>>
        PROVE  Tidy'
    <3>1. Live = {} /\ Task = {}
      BY <2>0, <2>2 DEF Tidy, View
    <3>2. Live' = {}
      BY <3>1 DEF Live
    <3>3. View'
      BY <1>3, <2>0, <2>2, <3>2 DEF AT_MGCN, Tidy, View
    <3> QED BY <1>3, <2>2, <2>t, <3>1, <3>3 DEF AT_MGCN, Tidy, tasks
  <2>3. ASSUME mqtttask # Null, UNCHANGED <<appid, mqtttask, client, network, tasks>>
        PROVE  Tidy'
    <3>1. View'
      BY <1>3, <2>0, <2>3 DEF AT_MGCN, Tidy, View, Live, tasks
    <3>2. \A t \in Task : Owns(t)'
      BY <1>3, <2>3 DEF AT_MGCN, Tidy, Owns, tasks
    <3> QED BY <1>3, <2>3, <2>t, <3>1, <3>2 DEF AT_MGCN, Tidy, tasks
  <2> QED BY <1>3, <2>1, <2>2, <2>3 DEF AT_MGCN
<1>4. CASE AT_MGDC
  <2>1. host # "idle" /\ inited
    BY <1>4 DEF AT_MGDC, MayDisconnect, Tidy, View
  <2>2. /\ mqtttask' = Null /\ host' = "closing"
        /\ UNCHANGED <<crashed, setup, partial, inited, token, appid, callbacks,
                       network, client, tasks>>
    BY <1>0, <1>4, <2>1 DEF AT_MGDC
  <2>3. Live' = Live
    BY <2>2 DEF Live, tasks
  <2>4. View'
    BY <2>1, <2>2, <2>3 DEF Tidy, View
  <2>5. \A t \in Task : Owns(t)'
    BY <2>2 DEF Tidy, Owns, tasks
  <2>6. setup = "none" /\ Texts'
    BY <1>4, <2>2 DEF AT_MGDC, Listening, Tidy, Texts
  <2> QED BY <2>2, <2>4, <2>5, <2>6 DEF Tidy, tasks
<1>5. CASE AT_Request
  <2>1. UNCHANGED <<crashed, fields, network, client, tasks, host>>
    BY <1>5 DEF AT_Request, MayRequest, Tidy, View
  <2> QED BY <2>1 DEF Tidy, View, Texts, Owns, Live, fields, tasks
<1> QED BY <1>a, <1>b, <1>1, <1>2, <1>3, <1>4, <1>5 DEF read_sr

LEMMA TaskTidy ==
  ASSUME TypeOK, HandleInv, Tidy, Patient, NEW t \in Task, mqtt_task(t)
  PROVE  Tidy'
<1> USE DEF Goto
<1>0. /\ pc \in [Task -> Label] /\ mqtttask \in Task \cup {Null}
      /\ sock \in [Task -> Socket \cup {NoSocket}]
      /\ active \in [Task -> BOOLEAN] /\ login \in [Task -> BOOLEAN]
      /\ arg \in [Task -> Task \cup {Null}]
      /\ host \in {"idle", "up", "closing"}
      /\ client \in [isconnected : BOOLEAN, ipstack : Task \cup {Null}]
  BY DEF TypeOK
<1> USE DEF Label, Holding, Connected, Session
<1>a. pc[t] # "none"
  BY DEF mqtt_task, TakeWifi, ResolveFail, ResolveOk, TcpFail, TcpOk, MqttRefuse,
         MqttAccept, TakeDisconnect, TakeRequest, DrainEmpty, SendOk, SendFail,
         YieldAgain, YieldLast, YieldDisconnected, Retry, End, BadPointer, At
<1>b. /\ Owns(t) /\ t \in Live
      /\ \A u \in Task : u # t => pc[u] = "none"
      /\ inited /\ token /\ appid /\ callbacks /\ network = t /\ ~crashed
  BY <1>a DEF Tidy, View, Live, Owns
<1>w. partial = {}
  <2>1. host # "idle"
    BY <1>b DEF Tidy, View
  <2>2. setup = "none"
    BY <2>1 DEF Tidy, Texts
  <2> QED BY <1>b, <2>2 DEF Tidy, Texts, TypeOK, SetUp
<1>c. ~BadPointer(t)
  <2>1. pc[t] \in {"dns", "tcp"} => arg[t] = t
    BY <1>b DEF Owns
  <2>2. pc[t] \in Connected => client.ipstack = t
    BY <1>b DEF Owns
  <2>3. ~Dead(t)
    BY <1>a DEF Dead
  <2> QED BY <1>b, <2>1, <2>2, <2>3 DEF BadPointer
\* A step that moves t and keeps the shared fields leaves the others alone.
<1>d. ASSUME NEW l \in Label, Goto(t, l), l # "none", ~crashed',
             UNCHANGED <<fields, network, host>>,
             Owns(t)', l \notin Holding => open' = {}
      PROVE  Tidy'
  <2>1. \A u \in Task : u # t => pc'[u] = "none"
    BY <1>0, <1>b, <1>d
  <2>2. pc'[t] = l
    BY <1>0, <1>d
  <2>3. Live' = Live
    BY <1>a, <1>b, <1>d, <2>1, <2>2 DEF Live
  <2>4. View'
    BY <1>d, <2>3 DEF Tidy, View, fields
  <2>5. \A u \in Task : Owns(u)'
    BY <1>d, <2>1 DEF Owns
  <2>6. Texts'
    BY <1>d DEF Tidy, Texts, fields
  <2> QED BY <1>d, <2>2, <2>4, <2>5, <2>6 DEF Tidy
<1>1. CASE TakeWifi(t)
  <2>1. /\ pc[t] = "wait" /\ Goto(t, "dns") /\ arg' = [arg EXCEPT ![t] = network]
        /\ UNCHANGED <<crashed, fields, network, open, host>>
    BY <1>1, <1>b DEF TakeWifi, At, Crash, history
  <2>2. login' = [login EXCEPT ![t] = (partial = {})] /\ active' = active
    BY <1>1, <1>b DEF TakeWifi, Crash
  <2>3. login'[t]
    BY <1>0, <1>w, <2>2
  <2>4. Owns(t)' /\ open' = {}
    BY <1>0, <1>b, <2>1, <2>2, <2>3 DEF Owns, Tidy, fields
  <2> QED BY <1>b, <1>d, <2>1, <2>4
<1>2. CASE ResolveFail(t)
  <2>1. /\ pc[t] = "dns" /\ Goto(t, "delay")
        /\ UNCHANGED <<crashed, fields, network, active, login, open, host>>
    BY <1>2 DEF ResolveFail, At, history
  <2>2. Owns(t)' /\ open' = {}
    BY <1>0, <1>b, <2>1 DEF Owns, Tidy, fields
  <2> QED BY <1>b, <1>d, <2>1, <2>2
<1>3. CASE ResolveOk(t)
  <2>1. /\ pc[t] = "dns" /\ Goto(t, "tcp") /\ open = {} /\ arg[t] = t
        /\ UNCHANGED <<crashed, fields, network, active, arg, login, host>>
    BY <1>3, <1>b DEF ResolveOk, At, Tidy, Owns, history
  <2>2. PICK s \in Socket : open' = {s} /\ sock' = [sock EXCEPT ![t] = s]
    BY <1>3, <2>1 DEF ResolveOk
  <2>3. Owns(t)'
    BY <1>0, <1>b, <2>1, <2>2 DEF Owns, fields
  <2> QED BY <1>b, <1>d, <2>1, <2>3
<1>4. CASE TcpFail(t)
  <2>1. /\ pc[t] = "tcp" /\ Goto(t, "delay") /\ arg[t] = t /\ open = {sock[t]}
        /\ UNCHANGED <<crashed, fields, network, active, login, host>>
    BY <1>4, <1>b DEF TcpFail, At, Owns, history
  <2>2. open' = {}
    BY <1>4, <2>1 DEF TcpFail
  <2>3. Owns(t)'
    BY <1>0, <1>b, <2>1 DEF Owns, fields
  <2> QED BY <1>b, <1>d, <2>1, <2>2, <2>3
<1>5. CASE TcpOk(t)
  <2>1. /\ pc[t] = "tcp" /\ Goto(t, "connack") /\ client'.ipstack = t
        /\ open = {sock[t]}
        /\ UNCHANGED <<crashed, fields, network, active, login, sock, open, host>>
    BY <1>5, <1>b DEF TcpOk, At, Owns, history
  <2>2. Owns(t)'
    BY <1>0, <1>b, <2>1 DEF Owns, fields
  <2> QED BY <1>b, <1>d, <2>1, <2>2
<1>6. CASE Leave(t) /\ pc[t] \in Connected
  <2>1. /\ Goto(t, "delay") /\ open = {sock[t]} /\ open' = open \ {sock[t]}
        /\ UNCHANGED <<crashed, fields, network, active, login, host>>
    BY <1>6, <1>b DEF Leave, Owns, history
  <2>2. Owns(t)' /\ open' = {}
    BY <1>0, <1>b, <2>1 DEF Owns, fields
  <2> QED BY <1>b, <1>d, <2>1, <2>2
<1>7. CASE MqttAccept(t)
  <2>1. /\ pc[t] = "connack" /\ Goto(t, "drain")
        /\ client' = [client EXCEPT !.isconnected = TRUE]
        /\ UNCHANGED <<crashed, fields, network, active, login, sock, open, host>>
    BY <1>7, <1>b DEF MqttAccept, At
  <2>2. Owns(t)'
    BY <1>0, <1>b, <2>1 DEF Owns, fields
  <2> QED BY <1>b, <1>d, <2>1, <2>2
<1>8. CASE TakeRequest(t) \/ DrainEmpty(t) \/ SendOk(t)
           \/ SendFail(t) \/ YieldAgain(t)
  <2>1. /\ pc[t] \in Session
        /\ UNCHANGED <<crashed, fields, network, client, active, login, sock, open, host>>
    BY <1>8 DEF TakeRequest, DrainEmpty, SendOk, SendFail,
                YieldAgain, At, history
  <2>2. PICK l \in Session : Goto(t, l)
    BY <1>8 DEF TakeRequest, DrainEmpty, SendOk, SendFail, YieldAgain
  <2>3. active[t]
    BY <1>8, <1>b DEF TakeRequest, DrainEmpty, SendOk, SendFail, YieldAgain, At, Owns
  <2>4. Owns(t)'
    BY <1>0, <1>b, <2>1, <2>2, <2>3 DEF Owns, fields
  <2> QED BY <1>b, <1>d, <2>1, <2>2, <2>4
<1>11. CASE TakeDisconnect(t)
  <2>1. /\ pc[t] = "drain" /\ Goto(t, "yield")
        /\ UNCHANGED <<crashed, fields, network, client, login, sock, open, host>>
    BY <1>11 DEF TakeDisconnect, At, history
  <2>2. Owns(t)'
    BY <1>0, <1>b, <2>1 DEF Owns, fields
  <2> QED BY <1>b, <1>d, <2>1, <2>2
<1>9. CASE Retry(t)
  <2>1. /\ pc[t] = "delay" /\ Goto(t, "wait") /\ active[t]
        /\ UNCHANGED <<crashed, fields, network, active, open, host>>
    BY <1>9 DEF Retry, At, history
  <2>2. Owns(t)' /\ open' = {}
    BY <1>0, <1>b, <2>1 DEF Owns, Tidy, fields
  <2> QED BY <1>b, <1>d, <2>1, <2>2
<1>10. CASE End(t)
  <2>1. /\ pc[t] = "delay" /\ Goto(t, "none")
        /\ host' = IF host = "closing" THEN "idle" ELSE host
        /\ UNCHANGED <<crashed, fields, network, open>>
    BY <1>10 DEF End, At
  <2>2. \A u \in Task : pc'[u] = "none"
    BY <1>0, <1>b, <2>1
  <2>3. Live' = {} /\ open = {}
    BY <1>b, <2>1, <2>2 DEF Live, Tidy
  <2>4. mqtttask # t
    BY <1>10, <1>b DEF End, HandleInv, Handle
  <2>5. mqtttask = Null /\ host = "closing"
    BY <1>0, <1>b, <2>4 DEF Tidy, View
  <2>6. View'
    BY <1>b, <2>1, <2>3, <2>5 DEF View, fields
  <2>7. \A u \in Task : Owns(u)'
    BY <2>2 DEF Owns
  <2>8. Texts'
    BY <2>1, <2>5 DEF Tidy, Texts, fields
  <2> QED BY <1>b, <2>1, <2>3, <2>6, <2>7, <2>8 DEF Tidy
<1> QED BY <1>1, <1>2, <1>3, <1>4, <1>5, <1>6, <1>7, <1>8, <1>11, <1>9, <1>10, <1>c
        DEF mqtt_task, MqttRefuse, YieldLast, YieldDisconnected, At

(* Nothing crashes, so nothing restarts.                                   *)
LEMMA NextTidy ==
  TypeOK /\ HandleInv /\ Tidy /\ Patient /\ [Next]_vars => Tidy'
<1> SUFFICES ASSUME TypeOK, HandleInv, Tidy, Patient, [Next]_vars PROVE Tidy'
  OBVIOUS
<1>1. CASE GiveWifi
  BY <1>1 DEF GiveWifi, Tidy, View, Texts, Owns, Live, fields, tasks, history
<1>2. CASE Reboot
  BY <1>2 DEF Reboot, Tidy
<1>3. CASE UNCHANGED vars
  BY <1>3 DEF vars, Tidy, View, Texts, Owns, Live, fields, tasks, history
<1> QED BY <1>1, <1>2, <1>3, HostTidy, TaskTidy DEF Next

LEMMA TidyImplies ==
  TypeOK /\ Tidy => NoFault /\ AtMostOneTask /\ SessionIntegrity /\ NoLeak
<1> SUFFICES ASSUME TypeOK, Tidy
             PROVE  NoFault /\ AtMostOneTask /\ SessionIntegrity /\ NoLeak
  OBVIOUS
<1> USE DEF Holding, Connected, Session
<1>1. NoFault /\ AtMostOneTask
  BY DEF Tidy, View, NoFault, AtMostOneTask
<1>2. SessionIntegrity
  <2> SUFFICES ASSUME NEW t \in Task, pc[t] \in Session
               PROVE  /\ client = [isconnected |-> TRUE, ipstack |-> t]
                      /\ network = t /\ sock[t] \in open /\ callbacks /\ login[t]
    BY DEF SessionIntegrity
  <2>1. Owns(t)
    BY DEF Tidy
  <2>2. client.isconnected = TRUE /\ client.ipstack = t
    BY <2>1 DEF Owns, TypeOK
  <2> QED BY <2>1, <2>2 DEF Owns, TypeOK
<1>3. NoLeak
  <2>1. CASE \A t \in Task : pc[t] \notin Holding
    BY <2>1 DEF NoLeak, Tidy
  <2>2. CASE \E t \in Task : pc[t] \in Holding
    <3>1. PICK t \in Task : pc[t] \in Holding
      BY <2>2
    <3>2. open = {sock[t]}
      BY <3>1 DEF Tidy, Owns
    <3>3. \A u \in Task : pc[u] \in Holding => u = t
      BY <3>1 DEF Tidy, View, Live
    <3> QED BY <3>1, <3>2, <3>3 DEF NoLeak
  <2> QED BY <2>1, <2>2
<1> QED BY <1>1, <1>2, <1>3

LEMMA PatientTidy ==
  ASSUME Patient
  PROVE  Spec => [](TypeOK /\ HandleInv /\ Tidy)
<1>1. Init => TypeOK /\ HandleInv /\ Tidy
  <2>1. ASSUME Init PROVE Tidy
    <3>1. \A t \in Task : pc[t] = "none"
      BY <2>1 DEF Init
    <3>2. Live = {}
      BY <3>1 DEF Live
    <3>3. View
      BY <2>1, <3>2, SMT DEF Init, View, Live
    <3>4. \A t \in Task : Owns(t)
      BY <3>1 DEF Owns, Holding, Connected, Session
    <3>5. Texts
      BY <2>1 DEF Init, Texts
    <3> QED BY <2>1, <3>3, <3>4, <3>5 DEF Init, Tidy
  <2> QED BY <2>1, InitType DEF Init, HandleInv
<1>2. TypeOK /\ HandleInv /\ [Next]_vars => HandleInv'
  BY NextHandle
<1>3. TypeOK /\ HandleInv /\ Tidy /\ [Next]_vars => Tidy'
  BY NextTidy
<1> QED BY <1>1, <1>2, <1>3, NextType, PTL DEF Spec

(* For every number of tasks and sockets and every queue length, a patient *)
(* host never makes the firmware follow a null or dead pointer.            *)
THEOREM PatientNoFault ==
  ASSUME Patient
  PROVE  Spec => []NoFault
BY PatientTidy, TidyImplies, PTL

(* However often it repeats AT+MGCN and AT+MGDC, it never has two tasks on *)
(* the shared client.                                                      *)
THEOREM PatientOneTask ==
  ASSUME Patient
  PROVE  Spec => []AtMostOneTask
BY PatientTidy, TidyImplies, PTL

(* It finds every session working on its own connection, with whole        *)
(* credentials.                                                            *)
THEOREM PatientSession ==
  ASSUME Patient
  PROVE  Spec => []SessionIntegrity
BY PatientTidy, TidyImplies, PTL

(* And every socket is closed that is not in use.                          *)
THEOREM PatientNoLeak ==
  ASSUME Patient
  PROVE  Spec => []NoLeak
BY PatientTidy, TidyImplies, PTL

-----------------------------------------------------------------------------
(* The connection that the fields, the queue and the history denote keeps  *)
(* its order: proved of Connection, whose variables are named here as Conn *)
(* maps them.                                                              *)
ConnMessage == Conn!Request \cup {Conn!Alias, Conn!Disconnect}

(* In what waits and in what was served, each message by itself.           *)
Ordered(s) ==
  \A j \in 1 .. Len(s) : s[j] \in Conn!Request =>
    /\ s[j] \in mark .. nextId - 1
    /\ \A i \in 1 .. j - 1 : s[i] < s[j]

(* What waits comes behind what was served.                                *)
ComesBehind ==
  \A i \in 1 .. Len(taken), j \in 1 .. Len(psQueue) :
    psQueue[j] \in Conn!Request => taken[i] < psQueue[j]

AliasFirst ==
  alias => IF taken # << >> THEN taken[1] = Conn!Alias
           ELSE Phase = "up" /\ psQueue # << >> /\ psQueue[1] = Conn!Alias

ConnTypes ==
  /\ psQueue \in Seq(ConnMessage) /\ taken \in Seq(ConnMessage)
  /\ mark \in 1 .. nextId /\ nextId \in Nat \ {0}
  /\ Phase \in {"down", "up", "ending"}

ConnInv ==
  /\ ConnTypes
  /\ \A i \in 1 .. Len(taken) : taken[i] < nextId
  /\ \A i \in 1 .. Len(psQueue) : psQueue[i] < nextId
  /\ Phase # "down" => Ordered(taken) /\ Ordered(psQueue) /\ ComesBehind /\ AliasFirst

LEMMA RangeTop ==
  ASSUME NEW a \in Int, NEW b \in Int, NEW c \in Int, a <= b, b < c
  PROVE  b \in a .. c - 1
BY SMT

(* Adding behind a queue that may be full.                                 *)
LEMMA PutType ==
  ASSUME ConnTypes, NEW m \in ConnMessage, Conn!Put(m)
  PROVE  /\ psQueue' \in Seq(ConnMessage)
         /\ Len(psQueue') \in {Len(psQueue), Len(psQueue) + 1}
         /\ \A i \in 1 .. Len(psQueue) : psQueue'[i] = psQueue[i]
         /\ Len(psQueue') = Len(psQueue) + 1 => psQueue'[Len(psQueue) + 1] = m
<1>1. psQueue \in Seq(ConnMessage)
  BY DEF ConnTypes
<1>2. CASE Len(psQueue) < QueueLength
  <2>1. psQueue' = Append(psQueue, m)
    BY <1>2 DEF Conn!Put
  <2> QED BY <1>1, <2>1, SMT
<1>3. CASE ~(Len(psQueue) < QueueLength)
  <2>1. psQueue' = psQueue
    BY <1>3 DEF Conn!Put
  <2> QED BY <1>1, <2>1, SMT
<1> QED BY <1>2, <1>3

LEMMA TailWaiting ==
  ASSUME ConnTypes, psQueue # << >>, psQueue' = Tail(psQueue)
  PROVE  /\ psQueue' \in Seq(ConnMessage)
         /\ Head(psQueue) = psQueue[1] /\ Head(psQueue) \in ConnMessage
         /\ Len(psQueue) \in Nat \ {0} /\ Len(psQueue') = Len(psQueue) - 1
         /\ \A i \in 1 .. Len(psQueue') :
              i + 1 \in 1 .. Len(psQueue) /\ psQueue'[i] = psQueue[i + 1]
BY SMT DEF ConnTypes

LEMMA PutOrder ==
  ASSUME ConnInv, NEW m \in ConnMessage, Conn!Put(m),
         UNCHANGED <<Phase, taken, alias, mark>>,
         nextId' \in Nat \ {0}, nextId <= nextId', m < nextId',
         m \in Conn!Request => m = nextId
  PROVE  ConnInv'
<1>0. /\ psQueue \in Seq(ConnMessage) /\ taken \in Seq(ConnMessage)
      /\ mark \in 1 .. nextId /\ nextId \in Nat \ {0}
      /\ Phase \in {"down", "up", "ending"}
      /\ \A i \in 1 .. Len(taken) : taken[i] < nextId
      /\ \A i \in 1 .. Len(psQueue) : psQueue[i] < nextId
  BY DEF ConnInv, ConnTypes
<1>1. /\ psQueue' \in Seq(ConnMessage)
      /\ Len(psQueue') \in {Len(psQueue), Len(psQueue) + 1}
      /\ \A i \in 1 .. Len(psQueue) : psQueue'[i] = psQueue[i]
      /\ Len(psQueue') = Len(psQueue) + 1 => psQueue'[Len(psQueue) + 1] = m
  BY PutType DEF ConnInv
<1>m. Len(psQueue) \in Nat /\ Len(taken) \in Nat /\ ConnMessage \subseteq Int
  BY <1>0, LenProperties DEF ConnMessage, Conn!Request, Conn!Alias, Conn!Disconnect
<1>2. ConnTypes'
  BY <1>0, <1>1, SMT DEF ConnTypes
<1>3. \A i \in 1 .. Len(psQueue') :
        i \in 1 .. Len(psQueue) \/ (i = Len(psQueue) + 1 /\ psQueue'[i] = m)
  BY <1>1, <1>m, SMT
<1>n. /\ \A i \in 1 .. Len(psQueue) : psQueue[i] \in Int
      /\ \A i \in 1 .. Len(taken) : taken[i] \in Int
      /\ m \in Int /\ nextId \in Int /\ nextId' \in Int /\ mark \in Int /\ mark <= nextId
  <2>1. /\ \A i \in 1 .. Len(psQueue) : psQueue[i] \in ConnMessage
        /\ \A i \in 1 .. Len(taken) : taken[i] \in ConnMessage
    BY <1>0, ElementOfSeq
  <2>2. nextId \in Int /\ nextId' \in Int
    BY <1>0, SMT
  <2>3. mark \in Int /\ mark <= nextId
    BY <1>0, <2>2, SMT
  <2> QED BY <1>m, <2>1, <2>2, <2>3
<1>4. /\ \A i \in 1 .. Len(taken) : taken'[i] < nextId'
      /\ \A i \in 1 .. Len(psQueue') : psQueue'[i] < nextId'
  <2>1. \A i \in 1 .. Len(taken) : taken[i] < nextId'
    BY <1>0, <1>n, SMT
  <2>2. \A i \in 1 .. Len(psQueue) : psQueue[i] < nextId'
    BY <1>0, <1>n, SMT
  <2> QED BY <1>1, <1>3, <2>1, <2>2
<1>5. ASSUME Phase # "down"
      PROVE  Ordered(taken)' /\ Ordered(psQueue)' /\ ComesBehind' /\ AliasFirst'
  <2>0. Ordered(taken) /\ Ordered(psQueue) /\ ComesBehind /\ AliasFirst
    BY <1>5 DEF ConnInv
  <2>1. Ordered(taken)'
    <3> SUFFICES ASSUME NEW j \in 1 .. Len(taken), taken[j] \in Conn!Request
                 PROVE  /\ taken[j] \in mark .. nextId' - 1
                        /\ \A i \in 1 .. j - 1 : taken[i] < taken[j]
      BY DEF Ordered
    <3>1. taken[j] \in mark .. nextId - 1 /\ \A i \in 1 .. j - 1 : taken[i] < taken[j]
      BY <2>0 DEF Ordered
    <3> QED BY <1>0, <1>n, <3>1, SMT
  <2>2. Ordered(psQueue)'
    <3> SUFFICES ASSUME NEW j \in 1 .. Len(psQueue'), psQueue'[j] \in Conn!Request
                 PROVE  /\ psQueue'[j] \in mark .. nextId' - 1
                        /\ \A i \in 1 .. j - 1 : psQueue'[i] < psQueue'[j]
      BY DEF Ordered
    <3>1. CASE j \in 1 .. Len(psQueue)
      <4>1. psQueue'[j] = psQueue[j] /\ \A i \in 1 .. j - 1 : psQueue'[i] = psQueue[i]
        BY <1>1, <1>m, <3>1, SMT
      <4>2. psQueue[j] \in mark .. nextId - 1 /\ \A i \in 1 .. j - 1 : psQueue[i] < psQueue[j]
        BY <2>0, <3>1, <4>1 DEF Ordered
      <4>3. psQueue[j] \in mark .. nextId' - 1
        BY <1>0, <1>n, <4>2, SMT
      <4> QED BY <4>1, <4>2, <4>3
    <3>2. CASE j = Len(psQueue) + 1 /\ psQueue'[j] = m
      <4>1. m = nextId
        BY <3>2
      <4>2. m \in mark .. nextId' - 1
        BY <1>n, <4>1, RangeTop
      <4>3. \A i \in 1 .. j - 1 : psQueue'[i] = psQueue[i] /\ psQueue[i] < m
        BY <1>0, <1>1, <1>m, <3>2, <4>1, SMT
      <4> QED BY <3>2, <4>2, <4>3
    <3> QED BY <1>3, <3>1, <3>2
  <2>3. ComesBehind'
    <3> SUFFICES ASSUME NEW i \in 1 .. Len(taken), NEW j \in 1 .. Len(psQueue'),
                        psQueue'[j] \in Conn!Request
                 PROVE  taken[i] < psQueue'[j]
      BY DEF ComesBehind
    <3>1. CASE j \in 1 .. Len(psQueue)
      BY <1>1, <2>0, <3>1 DEF ComesBehind
    <3>2. CASE psQueue'[j] = m
      BY <1>0, <3>2
    <3> QED BY <1>3, <3>1, <3>2
  <2>4. AliasFirst'
    <3>1. psQueue # << >> => psQueue' # << >> /\ psQueue'[1] = psQueue[1]
      BY <1>0, <1>1, <1>m, SMT
    <3> QED BY <2>0, <3>1 DEF AliasFirst
  <2> QED BY <2>1, <2>2, <2>3, <2>4
<1> QED BY <1>2, <1>4, <1>5 DEF ConnInv

(* What is served goes from one end of the queue to the end of the log.    *)
LEMMA ServeOrder ==
  ASSUME ConnInv, Phase = "up", psQueue # << >>, psQueue' = Tail(psQueue),
         taken' = Append(taken, Head(psQueue)),
         UNCHANGED <<Phase, alias, nextId, mark>>
  PROVE  ConnInv'
<1>0. /\ psQueue \in Seq(ConnMessage) /\ taken \in Seq(ConnMessage)
      /\ mark \in 1 .. nextId /\ nextId \in Nat \ {0}
      /\ \A i \in 1 .. Len(taken) : taken[i] < nextId
      /\ \A i \in 1 .. Len(psQueue) : psQueue[i] < nextId
      /\ Ordered(taken) /\ Ordered(psQueue) /\ ComesBehind /\ AliasFirst
  BY DEF ConnInv, ConnTypes
<1>1. /\ psQueue' \in Seq(ConnMessage)
      /\ Head(psQueue) = psQueue[1] /\ Head(psQueue) \in ConnMessage
      /\ Len(psQueue) \in Nat \ {0} /\ Len(psQueue') = Len(psQueue) - 1
      /\ \A i \in 1 .. Len(psQueue') :
           i + 1 \in 1 .. Len(psQueue) /\ psQueue'[i] = psQueue[i + 1]
  BY TailWaiting DEF ConnInv
<1>2. /\ taken' \in Seq(ConnMessage) /\ Len(taken) \in Nat /\ Len(taken') = Len(taken) + 1
      /\ \A i \in 1 .. Len(taken) : taken'[i] = taken[i]
      /\ taken'[Len(taken) + 1] = psQueue[1]
  BY <1>0, <1>1, AppendProperties, SMT
<1>3. /\ 1 \in 1 .. Len(psQueue)
      /\ \A i \in 1 .. Len(taken') : i \in 1 .. Len(taken) \/ i = Len(taken) + 1
  BY <1>1, <1>2, SMT
<1>4. ConnTypes'
  BY <1>0, <1>1, <1>2 DEF ConnTypes, ConnInv
<1>5. /\ \A i \in 1 .. Len(taken') : taken'[i] < nextId
      /\ \A i \in 1 .. Len(psQueue') : psQueue'[i] < nextId
  BY <1>0, <1>1, <1>2, <1>3
<1>6. Ordered(taken)'
  <2> SUFFICES ASSUME NEW j \in 1 .. Len(taken'), taken'[j] \in Conn!Request
               PROVE  /\ taken'[j] \in mark .. nextId - 1
                      /\ \A i \in 1 .. j - 1 : taken'[i] < taken'[j]
    BY DEF Ordered
  <2>1. CASE j \in 1 .. Len(taken)
    <3>1. taken'[j] = taken[j] /\ \A i \in 1 .. j - 1 : taken'[i] = taken[i]
      BY <1>2, <2>1, SMT
    <3> QED BY <1>0, <2>1, <3>1 DEF Ordered
  <2>2. CASE j = Len(taken) + 1
    <3>1. taken'[j] = psQueue[1]
      BY <1>2, <2>2
    <3>2. psQueue[1] \in mark .. nextId - 1
      BY <1>0, <1>3, <3>1 DEF Ordered
    <3>3. \A i \in 1 .. j - 1 : i \in 1 .. Len(taken)
      BY <1>2, <2>2, SMT
    <3>4. \A i \in 1 .. j - 1 : taken'[i] < psQueue[1]
      BY <1>0, <1>2, <1>3, <3>1, <3>3 DEF ComesBehind
    <3> QED BY <3>1, <3>2, <3>4
  <2> QED BY <1>3, <2>1, <2>2
<1>7. Ordered(psQueue)'
  <2> SUFFICES ASSUME NEW j \in 1 .. Len(psQueue'), psQueue'[j] \in Conn!Request
               PROVE  /\ psQueue'[j] \in mark .. nextId - 1
                      /\ \A i \in 1 .. j - 1 : psQueue'[i] < psQueue'[j]
    BY DEF Ordered
  <2>1. psQueue'[j] = psQueue[j + 1] /\ j + 1 \in 1 .. Len(psQueue)
    BY <1>1
  <2>2. /\ psQueue[j + 1] \in mark .. nextId - 1
        /\ \A i \in 1 .. (j + 1) - 1 : psQueue[i] < psQueue[j + 1]
    BY <1>0, <2>1 DEF Ordered
  <2>3. \A i \in 1 .. j - 1 :
          i \in 1 .. Len(psQueue') /\ i + 1 \in 1 .. (j + 1) - 1
    BY <1>1, SMT
  <2>4. \A i \in 1 .. j - 1 : psQueue'[i] = psQueue[i + 1] /\ psQueue[i + 1] < psQueue[j + 1]
    BY <1>1, <2>2, <2>3
  <2> QED BY <2>1, <2>2, <2>4
<1>8. ComesBehind'
  <2> SUFFICES ASSUME NEW i \in 1 .. Len(taken'), NEW j \in 1 .. Len(psQueue'),
                      psQueue'[j] \in Conn!Request
               PROVE  taken'[i] < psQueue'[j]
    BY DEF ComesBehind
  <2>1. psQueue'[j] = psQueue[j + 1] /\ j + 1 \in 1 .. Len(psQueue)
    BY <1>1
  <2>2. CASE i \in 1 .. Len(taken)
    BY <1>0, <1>2, <2>1, <2>2 DEF ComesBehind
  <2>3. CASE i = Len(taken) + 1
    <3>1. 1 \in 1 .. (j + 1) - 1
      BY SMT
    <3>2. psQueue[1] < psQueue[j + 1]
      BY <1>0, <2>1, <3>1 DEF Ordered
    <3> QED BY <1>2, <2>1, <2>3, <3>2
  <2> QED BY <1>3, <2>2, <2>3
<1>9. AliasFirst'
  <2>1. taken' # << >>
    BY <1>2, SMT
  <2>2. CASE taken = << >>
    <3>1. taken'[1] = psQueue[1]
      BY <1>2, <2>2, SMT
    <3> QED BY <1>0, <2>1, <2>2, <3>1 DEF AliasFirst
  <2>3. CASE taken # << >>
    <3>1. taken'[1] = taken[1]
      BY <1>0, <1>2, <2>3, SMT
    <3> QED BY <1>0, <2>1, <2>3, <3>1 DEF AliasFirst
  <2> QED BY <2>2, <2>3
<1> QED BY <1>4, <1>5, <1>6, <1>7, <1>8, <1>9 DEF ConnInv

(* A disconnect only shortens what waits.  It is not the alias, so that    *)
(* was served.                                                             *)
LEMMA ServeDisconnectOrder ==
  ASSUME ConnInv, Conn!ServeDisconnect
  PROVE  ConnInv'
<1>0. /\ psQueue \in Seq(ConnMessage) /\ taken \in Seq(ConnMessage)
      /\ mark \in 1 .. nextId /\ nextId \in Nat \ {0}
      /\ \A i \in 1 .. Len(taken) : taken[i] < nextId
      /\ \A i \in 1 .. Len(psQueue) : psQueue[i] < nextId
      /\ Ordered(taken) /\ Ordered(psQueue) /\ ComesBehind /\ AliasFirst
  BY DEF ConnInv, ConnTypes, Conn!ServeDisconnect
<1>1. /\ psQueue' \in Seq(ConnMessage) /\ psQueue # << >>
      /\ Head(psQueue) = psQueue[1] /\ Head(psQueue) = Conn!Disconnect
      /\ \A i \in 1 .. Len(psQueue') :
           i + 1 \in 1 .. Len(psQueue) /\ psQueue'[i] = psQueue[i + 1]
      /\ Phase' = "ending" /\ UNCHANGED <<taken, alias, nextId, mark>>
  BY TailWaiting DEF ConnInv, Conn!ServeDisconnect
<1>2. ConnTypes'
  BY <1>0, <1>1 DEF ConnTypes
<1>3. Ordered(taken)'
  BY <1>0, <1>1 DEF Ordered
<1>4. Ordered(psQueue)'
  <2> SUFFICES ASSUME NEW j \in 1 .. Len(psQueue'), psQueue'[j] \in Conn!Request
               PROVE  /\ psQueue'[j] \in mark .. nextId - 1
                      /\ \A i \in 1 .. j - 1 : psQueue'[i] < psQueue'[j]
    BY <1>1 DEF Ordered
  <2>1. psQueue'[j] = psQueue[j + 1] /\ j + 1 \in 1 .. Len(psQueue)
    BY <1>1
  <2>2. /\ psQueue[j + 1] \in mark .. nextId - 1
        /\ \A i \in 1 .. (j + 1) - 1 : psQueue[i] < psQueue[j + 1]
    BY <1>0, <2>1 DEF Ordered
  <2>3. \A i \in 1 .. j - 1 :
          i \in 1 .. Len(psQueue') /\ i + 1 \in 1 .. (j + 1) - 1
    BY <1>1, LenProperties, SMT
  <2>4. \A i \in 1 .. j - 1 : psQueue'[i] = psQueue[i + 1] /\ psQueue[i + 1] < psQueue[j + 1]
    BY <1>1, <2>2, <2>3
  <2> QED BY <2>1, <2>2, <2>4
<1>5. ComesBehind'
  BY <1>0, <1>1 DEF ComesBehind
<1>6. AliasFirst'
  <2>1. Conn!Disconnect # Conn!Alias
    BY DEF Conn!Disconnect, Conn!Alias
  <2> QED BY <1>0, <1>1, <2>1 DEF AliasFirst
<1>7. /\ \A i \in 1 .. Len(taken') : taken'[i] < nextId'
      /\ \A i \in 1 .. Len(psQueue') : psQueue'[i] < nextId'
  BY <1>0, <1>1
<1> QED BY <1>2, <1>3, <1>4, <1>5, <1>6, <1>7 DEF ConnInv

(* A session begins with the alias or nothing.                             *)
LEMMA OpenOrder ==
  ASSUME ConnInv, Conn!Open
  PROVE  ConnInv'
<1>0. nextId \in Nat \ {0} /\ mark \in 1 .. nextId
  BY DEF ConnInv, ConnTypes
<1>1. /\ psQueue' = IF alias THEN <<Conn!Alias>> ELSE << >>
      /\ taken' = << >> /\ Phase' = "up" /\ mark' = nextId
      /\ UNCHANGED <<alias, nextId>>
  BY DEF Conn!Open
<1>2. /\ psQueue' \in Seq(ConnMessage) /\ Len(psQueue') \in {0, 1}
      /\ \A i \in 1 .. Len(psQueue') : i = 1 /\ psQueue'[i] = Conn!Alias
      /\ alias => psQueue' # << >> /\ psQueue'[1] = Conn!Alias
  <2>1. Conn!Alias \in ConnMessage
    BY DEF ConnMessage
  <2>2. CASE alias
    <3>1. psQueue' = <<Conn!Alias>>
      BY <1>1, <2>2
    <3> QED BY <2>1, <3>1, SMT
  <2>3. CASE ~alias
    <3>1. psQueue' = << >>
      BY <1>1, <2>3
    <3> QED BY <2>3, <3>1, SMT
  <2> QED BY <2>2, <2>3
<1>3. Conn!Alias \notin Conn!Request /\ Conn!Alias < nextId
  BY <1>0, SMT DEF Conn!Alias, Conn!Request
<1>4. taken' \in Seq(ConnMessage) /\ \A i \in 1 .. Len(taken') : FALSE
  BY <1>1, EmptySeq, SMT
<1>5. nextId \in 1 .. nextId
  BY <1>0, SMT
<1>6. ConnTypes'
  BY <1>0, <1>1, <1>2, <1>4, <1>5 DEF ConnTypes
<1>7. Ordered(taken)' /\ Ordered(psQueue)' /\ ComesBehind' /\ AliasFirst'
  BY <1>1, <1>2, <1>3, <1>4 DEF Ordered, ComesBehind, AliasFirst
<1> QED BY <1>1, <1>2, <1>3, <1>4, <1>6, <1>7 DEF ConnInv

LEMMA ConnNext == ConnInv /\ [Conn!Next]_Conn!vars => ConnInv'
<1> SUFFICES ASSUME ConnInv, [Conn!Next]_Conn!vars PROVE ConnInv'
  OBVIOUS
<1>0. /\ psQueue \in Seq(ConnMessage) /\ nextId \in Nat \ {0}
      /\ Phase \in {"down", "up", "ending"}
  BY DEF ConnInv, ConnTypes
<1>1. CASE Conn!SetUp
  <2>1. << >> \in Seq(ConnMessage) /\ \A i \in 1 .. Len(<< >>) : FALSE
    BY EmptySeq, SMT
  <2>2. ConnTypes' /\ Phase' = "down" /\ \A i \in 1 .. Len(psQueue') : psQueue'[i] < nextId
    BY <1>1, <2>1 DEF Conn!SetUp, ConnInv, ConnTypes
  <2> QED BY <1>1, <2>2 DEF Conn!SetUp, ConnInv
<1>2. CASE Conn!Ask
  <2>1. /\ nextId \in ConnMessage /\ nextId' \in Nat \ {0} /\ nextId <= nextId' /\ nextId < nextId'
    BY <1>0, <1>2, SMT DEF Conn!Ask, Conn!Request, ConnMessage
  <2> QED BY <1>2, <2>1, PutOrder DEF Conn!Ask
<1>3. CASE Conn!AskDisconnect
  <2>1. /\ Conn!Disconnect \in ConnMessage /\ Conn!Disconnect \notin Conn!Request
        /\ Conn!Disconnect < nextId /\ nextId <= nextId
    BY <1>0, SMT DEF Conn!Disconnect, Conn!Request, ConnMessage
  <2>2. nextId' = nextId
    BY <1>3 DEF Conn!AskDisconnect
  <2> QED BY <1>0, <1>3, <2>1, <2>2, PutOrder DEF Conn!AskDisconnect
<1>4. CASE Conn!Open
  BY <1>4, OpenOrder
<1>5. CASE Conn!Serve
  BY <1>5, ServeOrder DEF Conn!Serve
<1>6. CASE Conn!ServeDisconnect
  BY <1>6, ServeDisconnectOrder
<1>7. CASE Conn!Close
  BY <1>7 DEF Conn!Close, ConnInv, ConnTypes
<1>8. CASE UNCHANGED Conn!vars
  BY <1>8 DEF Conn!vars, ConnInv, ConnTypes, Ordered, ComesBehind, AliasFirst
<1> QED BY <1>1, <1>2, <1>3, <1>4, <1>5, <1>6, <1>7, <1>8 DEF Conn!Next

LEMMA ConnInitInv == Conn!Init => ConnInv
BY EmptySeq, SMT DEF Conn!Init, ConnInv, ConnTypes

(* Message by message, or over the whole log: the same order.              *)
LEMMA ConnImplies == ConnInv => Conn!InOrder
<1> SUFFICES ASSUME ConnInv, Phase # "down" PROVE Conn!InOrder
  BY DEF Conn!InOrder
<1>0. /\ psQueue \in Seq(ConnMessage) /\ taken \in Seq(ConnMessage)
      /\ mark \in 1 .. nextId /\ nextId \in Nat \ {0}
      /\ Ordered(taken) /\ Ordered(psQueue) /\ ComesBehind /\ AliasFirst
  BY DEF ConnInv, ConnTypes
<1> DEFINE log == taken \o psQueue
<1>1. /\ Len(taken) \in Nat /\ Len(psQueue) \in Nat
      /\ Len(log) = Len(taken) + Len(psQueue)
      /\ DOMAIN log = 1 .. Len(log)
      /\ \A i \in 1 .. Len(taken) : log[i] = taken[i]
      /\ \A i \in 1 .. Len(psQueue) : log[Len(taken) + i] = psQueue[i]
  <2>1. log \in Seq(ConnMessage) /\ Len(taken) \in Nat /\ Len(psQueue) \in Nat
    BY <1>0, ConcatProperties
  <2> QED BY <1>0, <2>1, ConcatProperties, LenProperties, SMT
<1> HIDE DEF log
<1>2. \A i \in DOMAIN log :
        \/ i \in 1 .. Len(taken) /\ log[i] = taken[i]
        \/ /\ i - Len(taken) \in 1 .. Len(psQueue)
           /\ log[i] = psQueue[i - Len(taken)]
  <2> TAKE i \in DOMAIN log
  <2>1. i \in 1 .. Len(taken) \/ i - Len(taken) \in 1 .. Len(psQueue)
    BY <1>1, SMT
  <2>2. Len(taken) + (i - Len(taken)) = i
    BY <1>1, SMT
  <2> QED BY <1>1, <2>1, <2>2
<1>3. Conn!Sorted(log)
  <2> SUFFICES ASSUME NEW i \in DOMAIN log, NEW j \in DOMAIN log, i < j,
                      log[j] \in Conn!Request
               PROVE  log[i] < log[j]
    BY DEF Conn!Sorted
  <2>1. CASE j \in 1 .. Len(taken) /\ log[j] = taken[j]
    <3>1. i \in 1 .. j - 1 /\ i \in 1 .. Len(taken)
      BY <1>1, <2>1, SMT
    <3> QED BY <1>0, <1>1, <2>1, <3>1 DEF Ordered
  <2>2. CASE j - Len(taken) \in 1 .. Len(psQueue) /\ log[j] = psQueue[j - Len(taken)]
    <3>1. CASE i \in 1 .. Len(taken) /\ log[i] = taken[i]
      BY <1>0, <2>2, <3>1 DEF ComesBehind
    <3>2. CASE i - Len(taken) \in 1 .. Len(psQueue) /\ log[i] = psQueue[i - Len(taken)]
      <4>1. i - Len(taken) \in 1 .. (j - Len(taken)) - 1
        BY <1>1, <2>2, <3>2, SMT
      <4> QED BY <1>0, <2>2, <3>2, <4>1 DEF Ordered
    <3> QED BY <1>2, <3>1, <3>2
  <2> QED BY <1>2, <2>1, <2>2
<1>4. \A i \in DOMAIN log : log[i] \in Conn!Request => log[i] >= mark
  <2> SUFFICES ASSUME NEW i \in DOMAIN log, log[i] \in Conn!Request PROVE log[i] >= mark
    OBVIOUS
  <2>1. log[i] \in mark .. nextId - 1
    BY <1>0, <1>2 DEF Ordered
  <2> QED BY <1>0, <2>1, SMT
<1> QED BY <1>0, <1>3, <1>4 DEF Conn!InOrder, AliasFirst, log

(* For any length of the queue: a session serves the alias first, and then *)
(* requests made since it began, each once and in the order they were made *)
(* (Microgear.c:282, 286, 293).                                            *)
THEOREM ServedInOrder == Conn!Spec => []Conn!InOrder
BY ConnInitInv, ConnNext, ConnImplies, PTL DEF Conn!Spec

-----------------------------------------------------------------------------
(* The tasks of a patient host are one connection.                         *)
LEMMA PhaseOfLive ==
  ASSUME TypeOK, Tidy, NEW t \in Task, pc[t] # "none"
  PROVE  Phase = IF pc[t] \notin Session THEN "down"
                 ELSE IF active[t] THEN "up" ELSE "ending"
<1>1. \A u \in Task : u # t => pc[u] = "none"
  BY DEF Tidy, View, Live
<1> QED BY <1>1 DEF Phase, Session

LEMMA ConnInit == Init => Conn!Init
<1> SUFFICES ASSUME Init PROVE Conn!Init
  OBVIOUS
<1>1. Phase = "down"
  BY DEF Init, Phase, Session
<1> QED BY <1>1 DEF Init, Conn!Init

(* An AT command is a set-up, a request, or nothing to the connection.     *)
LEMMA HostConn ==
  ASSUME TypeOK, Tidy, Patient, read_sr
  PROVE  [Conn!Next]_Conn!vars
<1> USE DEF Conn!Next, Conn!vars
<1>0. pc \in [Task -> Label] /\ active \in [Task -> BOOLEAN] /\ alias \in BOOLEAN
      /\ psQueue \in Seq(Message) /\ mqtttask \in Task \cup {Null}
  BY DEF TypeOK
<1>1. ASSUME host = "idle", UNCHANGED <<tasks, history>>, psQueue' \in {psQueue, << >>},
             alias' \in BOOLEAN
      PROVE  [Conn!Next]_Conn!vars
  <2>1. Phase = "down" /\ Phase' = Phase
    BY <1>1 DEF Tidy, View, Live, Phase, Session, tasks
  <2> QED BY <1>1, <2>1 DEF Conn!SetUp, history
<1>2. ASSUME NEW c \in SetUp, BeginSetUp(c) PROVE [Conn!Next]_Conn!vars
  <2>1. host = "idle"
    BY <1>2 DEF BeginSetUp, MaySetUp
  <2>2. alias' \in BOOLEAN
    BY <1>0, <1>2 DEF BeginSetUp
  <2> QED BY <1>1, <1>2, <2>1, <2>2 DEF BeginSetUp
<1>3. ~AbandonSetUp
  BY DEF AbandonSetUp
<1>4. ASSUME NEW a \in BOOLEAN, AT_MGIN(a) PROVE [Conn!Next]_Conn!vars
  <2>1. host = "idle"
    BY <1>4 DEF AT_MGIN, Complete, Tidy, Texts
  <2> QED BY <1>1, <1>4, <2>1 DEF AT_MGIN
<1>5. CASE AT_MGST
  <2>1. host = "idle"
    BY <1>5 DEF AT_MGST, Complete, Tidy, Texts
  <2> QED BY <1>0, <1>1, <1>5, <2>1 DEF AT_MGST
<1>6. CASE AT_MGCN
  <2>1. UNCHANGED <<psQueue, alias, nextId, taken, mark>>
    BY <1>6 DEF AT_MGCN
  <2>2. Phase' = Phase
    <3>1. CASE UNCHANGED tasks
      BY <3>1 DEF Phase, tasks
    <3>2. ASSUME mqtttask = Null, NEW t \in Task, CreateTask(t) PROVE Phase' = Phase
      <4>1. Live = {}
        BY <1>6, <3>2 DEF AT_MGCN, MayConnect, Tidy, View
      <4>2. \A u \in Task : pc[u] = "none"
        BY <4>1 DEF Live
      <4>3. \A u \in Task : pc'[u] \in {"none", "wait"}
        BY <1>0, <3>2, <4>2 DEF CreateTask
      <4> QED BY <4>2, <4>3 DEF Phase, Session
    <3> QED BY <1>6, <3>1, <3>2 DEF AT_MGCN
  <2> QED BY <2>1, <2>2
<1>7. CASE AT_MGDC
  <2>1. Enqueue(Disconnect) /\ UNCHANGED <<alias, tasks, nextId, taken, mark>>
    BY <1>7 DEF AT_MGDC, MayDisconnect, Tidy, View
  <2>2. Phase' = Phase
    BY <2>1 DEF Phase, tasks
  <2> QED BY <2>1, <2>2
          DEF Enqueue, Disconnect, Conn!AskDisconnect, Conn!Put, Conn!Disconnect
<1>8. CASE AT_Request
  <2>1. /\ Enqueue(nextId) /\ nextId \in Request /\ nextId' = nextId + 1
        /\ UNCHANGED <<alias, tasks, taken, mark>>
    BY <1>8 DEF AT_Request, MayRequest, Tidy, View, fields
  <2>2. Phase' = Phase
    BY <2>1 DEF Phase, tasks
  <2> QED BY <2>1, <2>2 DEF Enqueue, Request, Conn!Ask, Conn!Put, Conn!Request
<1> QED BY <1>2, <1>3, <1>4, <1>5, <1>6, <1>7, <1>8 DEF read_sr

(* A step of the task opens the session, serves it or closes it.           *)
LEMMA TaskConn ==
  ASSUME TypeOK, HandleInv, Tidy, Tidy', TypeOK', Patient, NEW t \in Task, mqtt_task(t)
  PROVE  [Conn!Next]_Conn!vars
<1> USE DEF Goto, Conn!Next, Conn!vars
<1>0. /\ pc \in [Task -> Label] /\ active \in [Task -> BOOLEAN]
      /\ ~crashed /\ ~crashed' /\ inited
  <2>1. pc[t] # "none"
    BY DEF mqtt_task, TakeWifi, ResolveFail, ResolveOk, TcpFail, TcpOk, MqttRefuse,
           MqttAccept, TakeDisconnect, TakeRequest, DrainEmpty, SendOk, SendFail,
           YieldAgain, YieldLast, YieldDisconnected, Retry, End, BadPointer, At
  <2> QED BY <2>1 DEF TypeOK, Tidy, Owns
<1>c. ~Crash
  BY <1>0 DEF Crash
<1>p. pc[t] # "none" => Phase = IF pc[t] \notin Session THEN "down"
                                ELSE IF active[t] THEN "up" ELSE "ending"
  BY PhaseOfLive
<1>n. pc'[t] # "none" => Phase' = IF pc'[t] \notin Session THEN "down"
                                  ELSE IF active'[t] THEN "up" ELSE "ending"
  <2>1. ASSUME pc'[t] # "none" PROVE \A u \in Task : u # t => pc'[u] = "none"
    BY <2>1 DEF Tidy, View, Live
  <2> QED BY <2>1 DEF Phase, Session
<1> USE DEF Label, Holding, Connected, Session
\* Outside of the session, or within it.
<1>1. ASSUME NEW l \in Label \ {"none"}, Goto(t, l), pc[t] # "none",
             l \in Session <=> pc[t] \in Session,
             UNCHANGED <<active, psQueue, alias, taken, nextId, mark>>
      PROVE  [Conn!Next]_Conn!vars
  <2>1. pc'[t] = l
    BY <1>0, <1>1
  <2>2. Phase' = Phase
    BY <1>1, <1>p, <1>n, <2>1
  <2> QED BY <1>1, <2>2
<1>2. CASE TakeWifi(t)
  <2>1. pc[t] = "wait" /\ UNCHANGED <<active, psQueue, alias, taken, nextId, mark>>
    BY <1>2, <1>c DEF TakeWifi, At, fields, history
  <2>2. PICK l \in {"dns", "delay"} : Goto(t, l)
    BY <1>2, <1>c DEF TakeWifi
  <2> QED BY <1>1, <2>1, <2>2
<1>3. CASE ResolveFail(t) \/ ResolveOk(t) \/ TcpFail(t) \/ TcpOk(t) \/ Retry(t)
  BY <1>1, <1>3 DEF ResolveFail, ResolveOk, TcpFail, TcpOk, Retry, At, fields, history
<1>4. CASE MqttRefuse(t)
  BY <1>1, <1>4 DEF MqttRefuse, Leave, At, fields, history
<1>5. CASE DrainEmpty(t) \/ SendOk(t) \/ SendFail(t) \/ YieldAgain(t)
  BY <1>1, <1>5 DEF DrainEmpty, SendOk, SendFail, YieldAgain, At, fields, history
<1>6. CASE MqttAccept(t)
  <2>1. /\ pc[t] = "connack" /\ Goto(t, "drain") /\ psQueue' = FirstQueue
        /\ taken' = << >> /\ mark' = nextId /\ UNCHANGED <<active, alias, nextId>>
    BY <1>6, <1>c DEF MqttAccept, At, fields
  <2>2. active[t]
    BY <2>1 DEF Tidy, Owns
  <2>3. Phase = "down" /\ Phase' = "up"
    BY <1>0, <1>p, <1>n, <2>1, <2>2
  <2> QED BY <2>1, <2>3 DEF FirstQueue, Alias, Conn!Open, Conn!Alias
<1>7. CASE TakeDisconnect(t)
  <2>1. /\ pc[t] = "drain" /\ Goto(t, "yield") /\ active' = [active EXCEPT ![t] = FALSE]
        /\ psQueue # << >> /\ Head(psQueue) = Disconnect /\ psQueue' = Tail(psQueue)
        /\ UNCHANGED <<alias, taken, nextId, mark>>
    BY <1>7 DEF TakeDisconnect, At, fields, history
  <2>2. active[t]
    BY <2>1 DEF Tidy, Owns
  <2>3. Phase = "up" /\ Phase' = "ending"
    BY <1>0, <1>p, <1>n, <2>1, <2>2
  <2> QED BY <2>1, <2>3 DEF Disconnect, Conn!ServeDisconnect, Conn!Disconnect
<1>8. CASE TakeRequest(t)
  <2>1. /\ pc[t] = "drain" /\ psQueue # << >> /\ Head(psQueue) # Disconnect
        /\ psQueue' = Tail(psQueue) /\ taken' = Append(taken, Head(psQueue))
        /\ UNCHANGED <<active, alias, nextId, mark>>
    BY <1>8 DEF TakeRequest, At, fields, history
  <2>2. PICK l \in {"send", "yield"} : Goto(t, l)
    BY <1>8 DEF TakeRequest
  <2>3. active[t]
    BY <2>1 DEF Tidy, Owns
  <2>4. Phase = "up" /\ Phase' = "up"
    BY <1>0, <1>p, <1>n, <2>1, <2>2, <2>3
  <2> QED BY <2>1, <2>4 DEF Disconnect, Conn!Serve, Conn!Disconnect
<1>9. CASE YieldLast(t) \/ YieldDisconnected(t)
  <2>1. /\ pc[t] = "yield" /\ Goto(t, "delay")
        /\ UNCHANGED <<psQueue, alias, taken, nextId, mark>>
    BY <1>9 DEF YieldLast, YieldDisconnected, Leave, At, fields, history
  <2>2. Phase # "down" /\ Phase' = "down"
    BY <1>0, <1>p, <1>n, <2>1
  <2> QED BY <2>1, <2>2 DEF Conn!Close
<1>10. CASE End(t)
  <2>1. /\ pc[t] = "delay" /\ Goto(t, "none")
        /\ UNCHANGED <<psQueue, alias, taken, nextId, mark>>
    BY <1>10 DEF End, At, fields
  <2>2. \A u \in Task : u # t => pc[u] = "none"
    BY <2>1 DEF Tidy, View, Live
  <2>3. \A u \in Task : pc'[u] = "none"
    BY <1>0, <2>1, <2>2
  <2>4. Phase = "down" /\ Phase' = "down"
    BY <1>p, <2>1, <2>3 DEF Phase
  <2> QED BY <2>1, <2>4
<1>11. ~BadPointer(t)
  BY <1>c DEF BadPointer
<1> QED BY <1>2, <1>3, <1>4, <1>5, <1>6, <1>7, <1>8, <1>9, <1>10, <1>11 DEF mqtt_task

(* For a patient host every step of the shield is a step of one connection *)
(* that comes and goes, whatever tasks it takes: so a session serves the   *)
(* alias first, then only requests made since it began, each once and in   *)
(* the host's order, and nothing behind a disconnect.                      *)
THEOREM PatientConnection ==
  ASSUME Patient
  PROVE  Spec => ImplementsConnection
<1> DEFINE Inv == TypeOK /\ HandleInv /\ Tidy
<1>1. Inv /\ Inv' /\ [Next]_vars => [Conn!Next]_Conn!vars
  <2> SUFFICES ASSUME Inv, Inv', [Next]_vars PROVE [Conn!Next]_Conn!vars
    OBVIOUS
  <2>1. CASE GiveWifi
    BY <2>1 DEF GiveWifi, Conn!vars, Phase, fields, tasks, history
  <2>2. CASE Reboot
    BY <2>2 DEF Reboot, Tidy
  <2>3. CASE UNCHANGED vars
    BY <2>3 DEF vars, Conn!vars, Phase, fields, tasks, history
  <2> QED BY <2>1, <2>2, <2>3, HostConn, TaskConn DEF Next
<1>2. Spec => []Inv
  BY PatientTidy
<1>3. Spec => Conn!Spec
  BY <1>1, <1>2, ConnInit, PTL DEF Spec, Conn!Spec
<1> QED BY <1>3, ServedInOrder, PTL DEF ImplementsConnection
=============================================================================
