------------------------------ MODULE TcpClient ------------------------------
(***************************************************************************)
(* One of the two TCP clients of user/user_main.c: conn1 with its commands *)
(* AT+CCS1, AT+CD1, AT+CR1 and AT+CRTA1 in read_sr, and the callbacks that *)
(* the SDK runs in its own task, which may preempt read_sr between any two *)
(* accesses to what they share.  conn2 differs in names and HeaderBit.     *)
(* The bytes are in ClientBuf.                                             *)
(*                                                                         *)
(* AT+CCS number n asks for host n and port n, and host n has address n.   *)
(***************************************************************************)
EXTENDS ClientBuf, FiniteSets

CONSTANTS MaxConnect, \* bound: how many AT+CCS the host sends
          PushMode,   \* the numbers ATP may store, whatever they are
          HeaderBit   \* the bit of the AT+CRTA header (32; 64 for conn2)

ASSUME BoundAssumption == MaxConnect \in Nat
ASSUME ModeAssumption == 1 \in PushMode
ASSUME HeaderAssumption == HeaderBit \in Nat \ {0}

VARIABLES
  conn1,       \* the struct espconn: [state, remote_ip, remote_port]
  HostResolve_Ip1, \* the address a cached lookup returns
  ccs,         \* where read_sr is in AT+CCS
  lookups,     \* commands whose DNS lookup is under way
  link,        \* the TCP connection: [n, ip, port, closing]
  push_mode,   \* set by ATP
  told, sent,  \* the last header printed, and the bytes that followed
  issued,      \* number of the last AT+CCS
  answered,    \* commands that were answered
  silent,      \* commands that ended without an answer
  owed,        \* answers the host waits for, as far as it can count
  hasty,       \* history: the last AT+CCS did not wait for an answer
  misled,      \* history: an error of an open connection looked like one
  stopped      \* history: AT+CD was sent, with no answer owed, and no AT+CCS since

socket == <<conn1, HostResolve_Ip1, ccs, lookups, link>>
data == <<ring, pull, bytes, exposed, told, sent>>
host == <<issued, answered, silent, owed, hasty, misled, stopped>>
vars == <<socket, push_mode, data, host>>

Command == 1 .. MaxConnect
State == {"NONE", "WAIT", "CONNECT", "CLOSE"}
NoLink == [n |-> 0, ip |-> 0, port |-> 0, closing |-> FALSE]
NoHeader == 0

user_init ==
  /\ conn1 = [state |-> "NONE", remote_ip |-> 0, remote_port |-> 0]
  /\ HostResolve_Ip1 = 0 /\ ccs = "idle"
  /\ lookups = {} /\ link = NoLink
  /\ push_mode = 1
  /\ BufInit /\ told = NoHeader /\ sent = 0
  /\ issued = 0 /\ answered = {} /\ silent = {} /\ owed = 0
  /\ hasty = FALSE /\ misled = FALSE /\ stopped = FALSE

-----------------------------------------------------------------------------
(* What the host makes of an answer, and of its absence.                   *)
OneLess(k) == IF k = 0 THEN 0 ELSE k - 1

Answer(n) ==
  /\ answered' = answered \cup {n}
  /\ owed' = OneLess(owed)
  /\ UNCHANGED <<issued, silent, hasty, misled, stopped>>

NoAnswer(n) ==
  /\ silent' = silent \cup {n}
  /\ owed' = OneLess(owed)
  /\ UNCHANGED <<issued, answered, hasty, misled, stopped>>

(* The switches on conn1.state connect in two of its values.               *)
Ready == conn1.state \in {"NONE", "CLOSE"}

(* The SDK starts a connection to what conn1 holds, or returns an error    *)
(* that the code ignores: no address, no memory, already connecting.       *)
espconn_connect(n, ip, port) ==
  \/ /\ link = NoLink
     /\ link' = [n |-> n, ip |-> ip, port |-> port, closing |-> FALSE]
     /\ conn1' = [state |-> "WAIT", remote_ip |-> ip, remote_port |-> port]
     /\ UNCHANGED host
  \/ /\ conn1' = [conn1 EXCEPT !.remote_ip = ip]
     /\ NoAnswer(n)
     /\ UNCHANGED link

-----------------------------------------------------------------------------
(* AT+CCS1 "<HOST>",<PORT>: the port is stored, then the name looked up.   *)
Idle == ccs = "idle" /\ left = 0

AskCommand(n) ==
  /\ issued' = n
  /\ hasty' = (owed > 0)
  /\ stopped' = FALSE
  /\ UNCHANGED misled

(* The address was in the cache.                                           *)
LookupFound ==
  /\ Idle /\ issued < MaxConnect
  /\ AskCommand(issued + 1)
  /\ conn1' = [conn1 EXCEPT !.remote_port = issued + 1]
  /\ HostResolve_Ip1' = issued + 1
  /\ ccs' = "found"
  /\ owed' = owed + 1
  /\ UNCHANGED <<lookups, link, push_mode, data, answered, silent>>

(* Mutant: whatever is not an address is reported as an error.             *)
LookupReported ==
  /\ Idle /\ issued < MaxConnect
  /\ AskCommand(issued + 1)
  /\ conn1' = [conn1 EXCEPT !.remote_port = issued + 1]
  /\ lookups' = lookups \cup {issued + 1}
  /\ answered' = answered \cup {issued + 1}
  /\ UNCHANGED <<HostResolve_Ip1, ccs, link, push_mode, data, owed, silent>>

(* The name server has to be asked.                                        *)
LookupStarted ==
  /\ Idle /\ issued < MaxConnect
  /\ AskCommand(issued + 1)
  /\ conn1' = [conn1 EXCEPT !.remote_port = issued + 1]
  /\ lookups' = lookups \cup {issued + 1}
  /\ owed' = owed + 1
  /\ UNCHANGED <<HostResolve_Ip1, ccs, link, push_mode, data, answered, silent>>

(* The SDK refused to look the name up.                                    *)
LookupRefused ==
  /\ Idle /\ issued < MaxConnect
  /\ AskCommand(issued + 1)
  /\ conn1' = [conn1 EXCEPT !.remote_port = issued + 1]
  /\ silent' = silent \cup {issued + 1}
  /\ UNCHANGED <<HostResolve_Ip1, ccs, lookups, link, push_mode, data, answered, owed>>

(* Mutant: the memcpy of the address is forgotten.                         *)
CopySkipped ==
  /\ ccs = "found"
  /\ ccs' = "copied"
  /\ UNCHANGED <<conn1, HostResolve_Ip1, lookups, link, push_mode, data, host>>

CopyAddress ==
  /\ ccs = "found"
  /\ conn1' = [conn1 EXCEPT !.remote_ip = HostResolve_Ip1]
  /\ ccs' = "copied"
  /\ UNCHANGED <<HostResolve_Ip1, lookups, link, push_mode, data, host>>

(* Mutant: the switch has no case for a connection under way.              *)
SwitchWithoutWait ==
  /\ ccs = "copied"
  /\ \/ /\ Ready
        /\ ccs' = "connect"
        /\ UNCHANGED host
     \/ /\ ~Ready
        /\ ccs' = "idle"
        /\ IF conn1.state = "WAIT" THEN UNCHANGED host ELSE Answer(issued)
  /\ UNCHANGED <<conn1, HostResolve_Ip1, lookups, link, push_mode, data>>

SwitchOnState ==
  /\ ccs = "copied"
  /\ \/ /\ Ready
        /\ ccs' = "connect"
        /\ UNCHANGED host
     \/ /\ ~Ready
        /\ ccs' = "idle"
        /\ Answer(issued)
  /\ UNCHANGED <<conn1, HostResolve_Ip1, lookups, link, push_mode, data>>

Connect ==
  /\ ccs = "connect"
  /\ espconn_connect(issued, conn1.remote_ip, conn1.remote_port)
  /\ ccs' = "idle"
  /\ UNCHANGED <<HostResolve_Ip1, lookups, push_mode, data>>

(* ResolveDNS_for_conn1, in the task of the SDK.  The line it prints       *)
(* depends on the mode, and other modes than 0 and 1 print none.           *)
ResolveNothing(n) ==
  /\ n \in lookups
  /\ lookups' = lookups \ {n}
  /\ \/ push_mode \in {0, 1} /\ Answer(n)
     \/ push_mode \notin {0, 1} /\ NoAnswer(n)
  /\ UNCHANGED <<conn1, HostResolve_Ip1, ccs, link, push_mode, data>>

ResolveAddress(n) ==
  /\ n \in lookups
  /\ lookups' = lookups \ {n}
  /\ \/ /\ Ready
        /\ espconn_connect(n, n, conn1.remote_port)
     \/ /\ ~Ready
        /\ conn1' = [conn1 EXCEPT !.remote_ip = n]
        /\ Answer(n)
        /\ UNCHANGED link
  /\ UNCHANGED <<HostResolve_Ip1, ccs, push_mode, data>>

-----------------------------------------------------------------------------
(* The other callbacks of the SDK.                                         *)
connectCB1 ==
  /\ conn1.state = "WAIT"
  /\ conn1' = [conn1 EXCEPT !.state = "CONNECT"]
  /\ Answer(link.n)
  /\ UNCHANGED <<HostResolve_Ip1, ccs, lookups, link, push_mode, data>>

Gone ==
  /\ conn1' = [conn1 EXCEPT !.state = "CLOSE"]
  /\ link' = NoLink
  /\ UNCHANGED <<HostResolve_Ip1, ccs, lookups, push_mode, data>>

(* The attempt failed.                                                     *)
errorCB1 ==
  /\ conn1.state = "WAIT"
  /\ Gone
  /\ Answer(link.n)

(* An open connection broke: the host sees the same line as for an attempt. *)
ErrorOpen ==
  /\ conn1.state = "CONNECT"
  /\ Gone
  /\ owed' = OneLess(owed)
  /\ misled' = (misled \/ owed > 0)
  /\ UNCHANGED <<issued, answered, silent, hasty, stopped>>

disconnectCB1 ==
  /\ conn1.state = "CONNECT"
  /\ Gone
  /\ UNCHANGED host

recv_cb1 ==
  /\ conn1.state = "CONNECT"
  /\ AddByte
  /\ UNCHANGED <<socket, push_mode, told, sent, host>>

-----------------------------------------------------------------------------
(* AT+CD1.  What it does to an attempt under way is up to the SDK.         *)
Stop == stopped' = (owed = 0) /\ UNCHANGED <<issued, answered, hasty, misled>>

espconn_disconnect ==
  /\ Idle
  /\ Stop
  /\ \/ /\ conn1.state = "CONNECT"
        /\ link' = [link EXCEPT !.closing = TRUE]
        /\ UNCHANGED <<conn1, silent, owed>>
     \/ /\ conn1.state = "WAIT"
        /\ link' = NoLink
        /\ conn1' = [conn1 EXCEPT !.state = "CLOSE"]
        /\ silent' = silent \cup {link.n}
        /\ owed' = OneLess(owed)
     \/ /\ conn1.state # "CONNECT"
        /\ UNCHANGED <<conn1, link, silent, owed>>
  /\ UNCHANGED <<HostResolve_Ip1, ccs, lookups, push_mode, data>>

-----------------------------------------------------------------------------
(* AT+CR1 and AT+CRTA1 <SIZE_TO_READ>.                                     *)
ToRead(sending_bytes) ==
  IF elements > sending_bytes THEN sending_bytes ELSE elements

(* Mutant: the header tells what was asked for.                            *)
HeaderAsked(count, sending_bytes) == HeaderBit + sending_bytes

(* HeaderBit | count                                                       *)
Header(count, sending_bytes) ==
  IF (count \div HeaderBit) % 2 = 1 THEN count ELSE count + HeaderBit

ReadBegin(sending_bytes, arduino) ==
  /\ Idle /\ elements # 0
  /\ left' = ToRead(sending_bytes)
  /\ told' = IF arduino THEN Header(ToRead(sending_bytes), sending_bytes)
                        ELSE NoHeader
  /\ sent' = 0
  /\ UNCHANGED <<socket, push_mode, ring, place, reg, c, bytes, exposed, host>>

(* The loop over the bytes.                                                *)
ReadByte ==
  /\ PullStep
  /\ sent' = IF place = "print" THEN sent + 1 ELSE sent
  /\ UNCHANGED <<socket, push_mode, told, host>>

(* ATP <MODE>: what atoi makes of it is stored before it is looked at.     *)
PUSHMODE ==
  /\ Idle
  /\ push_mode' \in PushMode
  /\ UNCHANGED <<socket, data, host>>

-----------------------------------------------------------------------------
read_sr ==
  \/ LookupFound \/ LookupStarted \/ LookupRefused
  \/ CopyAddress \/ SwitchOnState \/ Connect
  \/ espconn_disconnect
  \/ \E k \in 0 .. BufLen + 1, arduino \in BOOLEAN : ReadBegin(k, arduino)
  \/ ReadByte \/ PUSHMODE

Callback ==
  \/ \E n \in Command : ResolveNothing(n) \/ ResolveAddress(n)
  \/ connectCB1 \/ errorCB1 \/ ErrorOpen \/ disconnectCB1
  \/ recv_cb1

Next == read_sr \/ Callback

Spec == user_init /\ [][Next]_vars

(* read_sr runs whenever it can; the SDK ends every lookup and every       *)
(* attempt, by a timeout if need be.                                       *)
FairSpec ==
  /\ Spec
  /\ WF_vars(CopyAddress) /\ WF_vars(SwitchOnState) /\ WF_vars(Connect)
  /\ WF_vars(ReadByte)
  /\ \A n \in Command : WF_vars(ResolveNothing(n) \/ ResolveAddress(n))
  /\ WF_vars(connectCB1 \/ errorCB1)

-----------------------------------------------------------------------------
(* The buffer is in its bounds, a link exists exactly while the state says *)
(* so, and the other variables keep their types.                           *)
TypeOK ==
  /\ BufTypeOK
  /\ conn1 \in [state : State, remote_ip : 0 .. MaxConnect, remote_port : 0 .. MaxConnect]
  /\ HostResolve_Ip1 \in 0 .. MaxConnect
  /\ ccs \in {"idle", "found", "copied", "connect"}
  /\ lookups \subseteq Command
  /\ link \in [n : 0 .. MaxConnect, ip : 0 .. MaxConnect, port : 0 .. MaxConnect,
               closing : BOOLEAN]
  /\ link # NoLink <=> conn1.state \in {"WAIT", "CONNECT"}
  /\ push_mode \in PushMode
  /\ sent \in 0 .. BufLen /\ told \in Nat
  /\ issued \in 0 .. MaxConnect
  /\ answered \subseteq Command /\ silent \subseteq Command
  /\ owed \in 0 .. MaxConnect
  /\ {hasty, misled, stopped} \subseteq BOOLEAN

(* An AT+CCS, of a host that waits for each answer before the next one,    *)
(* connects to its own host and port, never to the address of one command  *)
(* and the port of another, and no earlier command connects behind its     *)
(* back.  remote_ip and remote_port are written at different times, the    *)
(* first by a callback.                                                    *)
OneTarget ==
  [][link' \notin {link, NoLink, [link EXCEPT !.closing = TRUE]} =>
       \/ hasty' \/ misled'
       \/ link'.n = issued' /\ link'.ip = issued' /\ link'.port = issued']_vars

(* Once AT+CD was sent, with every answer received, the client neither     *)
(* stays connected nor connects again until the next AT+CCS.               *)
StopHonoured ==
  stopped /\ ~misled => link = NoLink \/ link.closing

(* Every AT+CCS is answered - by OK, by Error, or by "Unable to address    *)
(* from" when a lookup failed in push mode 1 - unless the SDK refused it,  *)
(* AT+CD ended it, or its lookup failed while push_mode was neither 0 nor  *)
(* 1 (user_main.c:93-97, 222), whatever state the connection was in.       *)
Answered ==
  \A n \in Command : issued >= n ~> n \in answered \cup silent

(* As many bytes of the buffer follow a header of AT+CRTA as it tells,     *)
(* though more may arrive while they are printed, as long as they are      *)
(* fewer than its bit.  (In push mode 1 recv_cb1 prints a text of its own  *)
(* among them.)                                                            *)
HeaderTells ==
  left = 0 /\ told # NoHeader /\ sent < HeaderBit => told = HeaderBit + sent
=============================================================================
