-------------------------------- MODULE Wifi --------------------------------
(***************************************************************************)
(* include/wifi_task.h and the AT+CW command of user/user_main.c: three    *)
(* tasks of the same priority that share the globals ssid and password and *)
(* the binary semaphores SetWifi and WifiReady, over the station interface *)
(* of the SDK.  The scheduler may switch between any two statements.       *)
(*                                                                         *)
(* A name and its password are the number of the command that brought      *)
(* them; 0 is the empty string.                                            *)
(***************************************************************************)
EXTENDS Naturals

CONSTANTS MaxCommand, \* bound: how many AT+CW commands the host begins
          MaxRetries  \* polls of the connection status per command (30)

ASSUME CommandAssumption == MaxCommand \in Nat
ASSUME RetriesAssumption == MaxRetries \in Nat

VARIABLES
  ssid, password, \* the globals of var.h
  setWifi,        \* the binary semaphore SetWifi
  wifiReady,      \* the binary semaphore WifiReady
  cw,             \* where read_sr is in AT+CW
  issued,         \* number of the last AT+CW begun
  task,           \* where wifi_task is
  local,          \* the ssid it has copied
  retries,        \* its loop counter
  config,         \* the station configuration of the SDK
  status,         \* wifi_station_get_connect_status()
  give,           \* where give_wifi_semaphore is
  overlapped,     \* history: an AT+CW began before the last was taken over
  futile          \* history: WifiReady was taken so often since the link went

credentials == <<ssid, password, cw, issued, overlapped>>
station == <<config, status>>
vars == <<credentials, setWifi, wifiReady, task, local, retries, station, give, futile>>

Command == 0 .. MaxCommand
Refused == {"wrong_password", "no_ap_found", "connect_fail"}
Status == Refused \cup {"idle", "connecting", "got_ip"}

Init ==
  /\ ssid = 0 /\ password = 0
  /\ setWifi = FALSE /\ wifiReady = FALSE
  /\ cw = "idle" /\ issued = 0
  /\ task = "poll" /\ local = 0 /\ retries = 0
  /\ config = [ssid |-> 0, password |-> 0] /\ status = "idle"
  /\ give = "check"
  /\ overlapped = FALSE /\ futile = 0

-----------------------------------------------------------------------------
(* AT+CW "<SSID>","<PASS>" in read_sr.                                     *)
CwBegin ==
  /\ cw = "idle" /\ issued < MaxCommand
  /\ issued' = issued + 1
  /\ ssid' = 0 /\ password' = 0
  /\ cw' = "ssid"
  /\ overlapped' = (overlapped \/ setWifi \/ task \in {"ssid", "password"})
  /\ UNCHANGED <<setWifi, wifiReady, task, local, retries, station, give, futile>>

(* Mutant: the semaphore is given with the name, before the password.      *)
CwSsidGives ==
  /\ cw = "ssid"
  /\ ssid' = issued
  /\ cw' = "password"
  /\ setWifi' = TRUE
  /\ UNCHANGED <<password, issued, overlapped, wifiReady, task, local, retries,
                 station, give, futile>>

CwSsid ==
  /\ cw = "ssid"
  /\ ssid' = issued
  /\ cw' = "password"
  /\ UNCHANGED <<password, issued, overlapped, setWifi, wifiReady, task, local,
                 retries, station, give, futile>>

CwPassword ==
  /\ cw = "password"
  /\ password' = issued
  /\ setWifi' = TRUE
  /\ cw' = "idle"
  /\ UNCHANGED <<ssid, issued, overlapped, wifiReady, task, local, retries,
                 station, give, futile>>

(* The serial queue is empty before the command is complete.               *)
CwCut ==
  /\ cw # "idle"
  /\ cw' = "idle"
  /\ UNCHANGED <<ssid, password, issued, overlapped, setWifi, wifiReady, task,
                 local, retries, station, give, futile>>

read_sr == CwBegin \/ CwSsid \/ CwPassword \/ CwCut

-----------------------------------------------------------------------------
(* wifi_task.                                                              *)
TakeSetWifi ==
  /\ task = "poll" /\ setWifi
  /\ setWifi' = FALSE
  /\ task' = "ssid"
  /\ UNCHANGED <<credentials, wifiReady, local, retries, station, give, futile>>

CopySsid ==
  /\ task = "ssid"
  /\ local' = ssid
  /\ task' = "password"
  /\ UNCHANGED <<credentials, setWifi, wifiReady, retries, station, give, futile>>

(* Mutant: the semaphore is cleared after the copy, not before.            *)
CopyPasswordClears ==
  /\ task = "password"
  /\ setWifi' = FALSE
  /\ config' = [ssid |-> local, password |-> password]
  /\ status' \in {status, "connecting"}
  /\ retries' = MaxRetries
  /\ task' = "test"
  /\ UNCHANGED <<credentials, wifiReady, local, give, futile>>

(* wifi_station_set_config and wifi_station_connect, which may leave an    *)
(* established link as it is.                                              *)
CopyPassword ==
  /\ task = "password"
  /\ config' = [ssid |-> local, password |-> password]
  /\ status' \in {status, "connecting"}
  /\ retries' = MaxRetries
  /\ task' = "test"
  /\ UNCHANGED <<credentials, setWifi, wifiReady, local, give, futile>>

(* Mutant: one poll too many.                                              *)
TestStatusOnceMore ==
  /\ task = "test"
  /\ task' = IF status # "got_ip" /\ retries >= 0 THEN "status" ELSE "report"
  /\ UNCHANGED <<credentials, setWifi, wifiReady, local, retries, station, give, futile>>

TestStatus ==
  /\ task = "test"
  /\ task' = IF status # "got_ip" /\ retries > 0 THEN "status" ELSE "report"
  /\ UNCHANGED <<credentials, setWifi, wifiReady, local, retries, station, give, futile>>

ReadStatus ==
  /\ task = "status"
  /\ \/ status \in Refused /\ task' = "report" /\ UNCHANGED retries
     \/ status \notin Refused /\ task' = "test" /\ retries' = retries - 1
  /\ UNCHANGED <<credentials, setWifi, wifiReady, local, station, give, futile>>

(* "CONNECTED" or nothing, and a pause.                                    *)
Report ==
  /\ task = "report"
  /\ task' = "poll"
  /\ UNCHANGED <<credentials, setWifi, wifiReady, local, retries, station, give, futile>>

wifi_task == TakeSetWifi \/ CopySsid \/ CopyPassword \/ TestStatus \/ ReadStatus \/ Report

-----------------------------------------------------------------------------
(* give_wifi_semaphore: the status is read, then the semaphore is given.   *)
(* Mutant: it does not look at the status.                                 *)
CheckLinkAlways ==
  /\ give = "check"
  /\ give' = "give"
  /\ UNCHANGED <<credentials, setWifi, wifiReady, task, local, retries, station, futile>>

CheckLink ==
  /\ give = "check" /\ status = "got_ip"
  /\ give' = "give"
  /\ UNCHANGED <<credentials, setWifi, wifiReady, task, local, retries, station, futile>>

(* Mutant: no loop around the give.                                        *)
GiveOnce ==
  /\ give = "give"
  /\ wifiReady' = TRUE
  /\ give' = "ended"
  /\ UNCHANGED <<credentials, setWifi, task, local, retries, station, futile>>

Give ==
  /\ give = "give"
  /\ wifiReady' = TRUE
  /\ give' = "check"
  /\ UNCHANGED <<credentials, setWifi, task, local, retries, station, futile>>

give_wifi_semaphore == CheckLink \/ Give

(* An mqtt_task that waits takes the semaphore and tries to connect.       *)
TakeWifiReady ==
  /\ wifiReady
  /\ wifiReady' = FALSE
  /\ futile' = IF status = "got_ip" THEN futile ELSE futile + 1
  /\ UNCHANGED <<credentials, setWifi, task, local, retries, station, give>>

-----------------------------------------------------------------------------
(* The station interface of the SDK.                                       *)
Join ==
  /\ status \in {"connecting"} \cup Refused
  /\ status' \in Refused \cup {"got_ip", "connecting"}
  /\ status' # status
  /\ futile' = IF status' = "got_ip" THEN 0 ELSE futile
  /\ UNCHANGED <<credentials, setWifi, wifiReady, task, local, retries, config, give>>

LoseLink ==
  /\ status = "got_ip"
  /\ status' = "connecting"
  /\ UNCHANGED <<credentials, setWifi, wifiReady, task, local, retries, config, give, futile>>

Next == read_sr \/ wifi_task \/ give_wifi_semaphore \/ TakeWifiReady \/ Join \/ LoseLink

Spec == Init /\ [][Next]_vars

(* Both tasks only ever wait for a delay or poll without waiting.          *)
FairSpec == Spec /\ WF_vars(wifi_task) /\ WF_vars(give_wifi_semaphore)

-----------------------------------------------------------------------------
(* The loop counter stays between 0 and its start, so the int8_t of        *)
(* wifi_task.h:25 does not wrap; the rest keeps its type.                  *)
TypeOK ==
  /\ ssid \in Command /\ password \in Command /\ issued \in Command
  /\ setWifi \in BOOLEAN /\ wifiReady \in BOOLEAN /\ overlapped \in BOOLEAN
  /\ cw \in {"idle", "ssid", "password"}
  /\ task \in {"poll", "ssid", "password", "test", "status", "report"}
  /\ local \in Command
  /\ retries \in 0 .. MaxRetries
  /\ config \in [ssid : Command, password : Command]
  /\ status \in Status
  /\ give \in {"check", "give"}
  /\ futile \in Nat

(* While every AT+CW begins only after wifi_task has copied what the one   *)
(* before it left, the station is never configured with a name and a       *)
(* password of two different commands (wifi_task.h:16-18 copies two        *)
(* globals that read_sr writes one after the other).                       *)
Untorn == overlapped \/ config.ssid = config.password

(* Whatever overlaps, the station ends up with the last command: once the  *)
(* host is done and its last AT+CW was complete, the configuration becomes *)
(* and stays that of this command, although SetWifi is binary, wifi_task   *)
(* may be in its retry loop, and earlier copies may have been torn.        *)
LastCommandApplied ==
  <>[](issued > 0 /\ cw = "idle" /\ ssid = issued /\ password = issued)
    => <>[](config = [ssid |-> issued, password |-> issued])

(* WifiReady outlives the link: after a loss it lets an mqtt_task try to   *)
(* connect in vain, but at most twice, once with the token that was left   *)
(* and once with one given on a status read before the loss                *)
(* (wifi_task.h:72-73).                                                    *)
FutileBounded == futile <= 2

(* While the link stays up an mqtt_task that waits gets the semaphore      *)
(* again and again.                                                        *)
WaiterServed == <>[](status = "got_ip") => []<>wifiReady
=============================================================================
