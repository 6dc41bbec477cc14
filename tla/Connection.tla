------------------------------ MODULE Connection ------------------------------
(***************************************************************************)
(* What microgear_connect promises the application: one connection to the  *)
(* broker, that comes and goes.  Requests wait in a short queue, a session *)
(* begins with the alias and serves them one at a time, and what asks for  *)
(* a disconnect ends it.  Tasks, handles, sockets and pointers are not     *)
(* part of it; Microgear implements it for a patient host.                 *)
(***************************************************************************)
EXTENDS Integers, Sequences

CONSTANTS Length, \* requests that may wait
          Last    \* bound: how many requests are made

VARIABLES phase,   \* "down", "up", or "ending" once a disconnect was served
          pending, \* what waits
          served,  \* what the last session served, in order
          named,   \* there is an alias
          next,    \* the number of the next request
          first    \* the number of the first request of the last session

vars == <<phase, pending, served, named, next, first>>

Alias == 0
Disconnect == -1
Request == 1 .. Last

(* A full queue drops what is added.                                       *)
Put(m) == pending' = IF Len(pending) < Length THEN Append(pending, m) ELSE pending

Init ==
  /\ phase = "down"
  /\ pending = << >> /\ served = << >>
  /\ named = FALSE
  /\ next = 1 /\ first = 1

(* Setting up is for a connection that is down.                            *)
SetUp ==
  /\ phase = "down"
  /\ named' \in BOOLEAN
  /\ pending' \in {pending, << >>}
  /\ UNCHANGED <<phase, served, next, first>>

Ask ==
  /\ next \in Request
  /\ Put(next)
  /\ next' = next + 1
  /\ UNCHANGED <<phase, served, named, first>>

AskDisconnect ==
  /\ Put(Disconnect)
  /\ UNCHANGED <<phase, served, named, next, first>>

(* What was asked for while there was no session is forgotten.             *)
Open ==
  /\ phase = "down"
  /\ phase' = "up"
  /\ pending' = IF named THEN <<Alias>> ELSE << >>
  /\ served' = << >>
  /\ first' = next
  /\ UNCHANGED <<named, next>>

Serve ==
  /\ phase = "up" /\ pending # << >> /\ Head(pending) # Disconnect
  /\ pending' = Tail(pending)
  /\ served' = Append(served, Head(pending))
  /\ UNCHANGED <<phase, named, next, first>>

ServeDisconnect ==
  /\ phase = "up" /\ pending # << >> /\ Head(pending) = Disconnect
  /\ pending' = Tail(pending)
  /\ phase' = "ending"
  /\ UNCHANGED <<served, named, next, first>>

Close ==
  /\ phase # "down"
  /\ phase' = "down"
  /\ UNCHANGED <<pending, served, named, next, first>>

Next ==
  \/ SetUp \/ Ask \/ AskDisconnect
  \/ Open \/ Serve \/ ServeDisconnect \/ Close

Spec == Init /\ [][Next]_vars

-----------------------------------------------------------------------------
(* Requests are behind everything that came earlier.                       *)
Sorted(s) ==
  \A i, j \in DOMAIN s : i < j /\ s[j] \in Request => s[i] < s[j]

(* A session serves the alias first and then only requests made since it   *)
(* began, each once and in the order they were made; what still waits goes *)
(* on where it stopped (Microgear.c:282, 286, 293).                        *)
InOrder ==
  phase # "down" =>
    /\ Sorted(served \o pending)
    /\ \A i \in DOMAIN (served \o pending) :
         (served \o pending)[i] \in Request => (served \o pending)[i] >= first
    /\ named => IF served # << >> THEN served[1] = Alias
                ELSE phase = "up" /\ pending # << >> /\ pending[1] = Alias
=============================================================================
