---------------------------- MODULE WifiProofs ----------------------------
(***************************************************************************)
(* Type correctness of Wifi, the bound on futile connection attempts and   *)
(* the integrity of the station configuration, for any number of commands  *)
(* and retries.                                                            *)
(***************************************************************************)
EXTENDS Wifi, TLAPS

-----------------------------------------------------------------------------
(* Every variable keeps its type: in particular the retry counter of       *)
(* wifi_task.h:25-42 stays between 0 and its start.  A poll is only made   *)
(* after the counter was found positive, which TypeOK alone does not say.  *)
PollsLeft == task = "status" => retries > 0

TypeInv == TypeOK /\ PollsLeft

LEMMA TypeInit == Init => TypeInv
<1> SUFFICES ASSUME Init PROVE TypeInv
  OBVIOUS
<1>1. 0 \in Command /\ 0 \in 0 .. MaxRetries /\ 0 \in Nat
  BY CommandAssumption, RetriesAssumption DEF Command
<1>2. config \in [ssid : Command, password : Command]
  BY <1>1 DEF Init
<1>3. status \in Status
  BY DEF Init, Status
<1> QED BY <1>1, <1>2, <1>3 DEF Init, TypeInv, TypeOK, PollsLeft

LEMMA TypeNext == TypeInv /\ [Next]_vars => TypeInv'
<1> SUFFICES ASSUME TypeInv, [Next]_vars PROVE TypeInv'
  OBVIOUS
<1> USE DEF TypeInv, TypeOK, PollsLeft, credentials, station
<1>1. CASE CwBegin
  <2>1. issued + 1 \in Command /\ 0 \in Command
    BY <1>1, CommandAssumption DEF CwBegin, Command
  <2> QED BY <1>1, <2>1 DEF CwBegin
<1>2. CASE CwSsid BY <1>2 DEF CwSsid
<1>3. CASE CwPassword BY <1>3 DEF CwPassword
<1>4. CASE CwCut BY <1>4 DEF CwCut
<1>5. CASE TakeSetWifi BY <1>5 DEF TakeSetWifi
<1>6. CASE CopySsid BY <1>6 DEF CopySsid
<1>7. CASE CopyPassword
  <2>1. config' \in [ssid : Command, password : Command]
    BY <1>7 DEF CopyPassword
  <2>2. retries' \in 0 .. MaxRetries
    BY <1>7, RetriesAssumption DEF CopyPassword
  <2>3. status' \in Status
    BY <1>7 DEF CopyPassword, Status
  <2> QED BY <1>7, <2>1, <2>2, <2>3 DEF CopyPassword
<1>8. CASE TestStatus BY <1>8, RetriesAssumption DEF TestStatus
<1>9. CASE ReadStatus BY <1>9, RetriesAssumption DEF ReadStatus
<1>10. CASE Report BY <1>10 DEF Report
<1>11. CASE CheckLink BY <1>11 DEF CheckLink
<1>12. CASE Give BY <1>12 DEF Give
<1>13. CASE TakeWifiReady
  <2>1. futile' \in Nat
    BY <1>13 DEF TakeWifiReady
  <2> QED BY <1>13, <2>1 DEF TakeWifiReady
<1>14. CASE Join
  <2>1. status' \in Status /\ futile' \in Nat
    BY <1>14 DEF Join, Status
  <2> QED BY <1>14, <2>1 DEF Join
<1>15. CASE LoseLink
  <2>1. status' \in Status
    BY <1>15 DEF LoseLink, Status
  <2> QED BY <1>15, <2>1 DEF LoseLink
<1>16. CASE UNCHANGED vars BY <1>16 DEF vars
<1> QED
  BY <1>1, <1>2, <1>3, <1>4, <1>5, <1>6, <1>7, <1>8, <1>9, <1>10, <1>11, <1>12,
     <1>13, <1>14, <1>15, <1>16
     DEF Next, read_sr, wifi_task, give_wifi_semaphore

(* Every variable keeps its type, for any number of commands and retries   *)
(* (wifi_task.h:25-42: the retry counter never goes below 0).              *)
THEOREM TypeCorrect == Spec => []TypeOK
<1>1. TypeInv => TypeOK
  BY DEF TypeInv
<1> QED BY <1>1, TypeInit, TypeNext, PTL DEF Spec

-----------------------------------------------------------------------------
(* Once the link is lost every token was made before: one may lie in the   *)
(* semaphore and give_wifi_semaphore may be about to give another, and a   *)
(* futile attempt uses one up.                                             *)
Tokens == (IF wifiReady THEN 1 ELSE 0) + (IF give = "give" THEN 1 ELSE 0)

FutileInv ==
  /\ TypeInv
  /\ status = "got_ip" => futile = 0
  /\ status # "got_ip" => futile + Tokens <= 2

LEMMA FutileNext == FutileInv /\ [Next]_vars => FutileInv'
<1> SUFFICES ASSUME FutileInv, [Next]_vars PROVE FutileInv'
  OBVIOUS
<1>0. TypeInv'
  BY TypeNext DEF FutileInv
<1>t. futile \in Nat /\ wifiReady \in BOOLEAN /\ give \in {"check", "give"}
  BY DEF FutileInv, TypeInv, TypeOK
<1> USE DEF FutileInv, Tokens
<1>1. CASE UNCHANGED <<status, wifiReady, give, futile>>
  BY <1>0, <1>1
<1>2. CASE CopyPassword
  BY <1>0, <1>t, <1>2 DEF CopyPassword
<1>3. CASE CheckLink
  BY <1>0, <1>t, <1>3 DEF CheckLink, credentials, station
<1>4. CASE Give
  BY <1>0, <1>t, <1>4 DEF Give, credentials, station
<1>5. CASE TakeWifiReady
  BY <1>0, <1>t, <1>5 DEF TakeWifiReady, credentials, station
<1>6. CASE Join
  BY <1>0, <1>t, <1>6 DEF Join, Refused, credentials
<1>7. CASE LoseLink
  BY <1>0, <1>t, <1>7 DEF LoseLink, credentials
<1>8. ASSUME read_sr \/ TakeSetWifi \/ CopySsid \/ TestStatus \/ ReadStatus \/ Report
             \/ UNCHANGED vars
      PROVE  UNCHANGED <<status, wifiReady, give, futile>>
  BY <1>8 DEF read_sr, CwBegin, CwSsid, CwPassword, CwCut, TakeSetWifi, CopySsid,
              TestStatus, ReadStatus, Report, vars, credentials, station
<1> QED
  BY <1>1, <1>2, <1>3, <1>4, <1>5, <1>6, <1>7, <1>8
     DEF Next, wifi_task, give_wifi_semaphore

(* WifiReady outlives the link, but lets an mqtt_task connect in vain at   *)
(* most twice, in every execution (wifi_task.h:70-80).                     *)
THEOREM FutileAttemptsBounded == Spec => []FutileBounded
<1>1. Init => FutileInv
  BY TypeInit DEF Init, FutileInv, Tokens
<1>2. FutileInv => FutileBounded
  BY DEF FutileInv, TypeInv, TypeOK, FutileBounded, Tokens
<1> QED BY <1>1, <1>2, FutileNext, PTL DEF Spec

-----------------------------------------------------------------------------
(* As long as no two commands overlapped, from the give of SetWifi to the  *)
(* copy of the password the globals belong to one command and read_sr does *)
(* not touch them.                                                         *)
Pending == setWifi \/ task \in {"ssid", "password"}

UntornInv ==
  /\ cw = "password" => ssid = issued
  /\ ~overlapped =>
       /\ Pending => cw = "idle" /\ ssid = password
       /\ task = "password" => local = ssid
       /\ config.ssid = config.password

LEMMA UntornNext == TypeInv /\ UntornInv /\ [Next]_vars => UntornInv'
<1> SUFFICES ASSUME TypeInv, UntornInv, [Next]_vars PROVE UntornInv'
  OBVIOUS
<1> USE DEF UntornInv, Pending, credentials, station
<1>1. CASE CwBegin BY <1>1 DEF CwBegin, TypeInv, TypeOK
<1>2. CASE CwSsid BY <1>2 DEF CwSsid
<1>3. CASE CwPassword BY <1>3 DEF CwPassword
<1>4. CASE CwCut BY <1>4 DEF CwCut
<1>5. CASE TakeSetWifi BY <1>5 DEF TakeSetWifi
<1>6. CASE CopySsid BY <1>6 DEF CopySsid
<1>7. CASE CopyPassword BY <1>7 DEF CopyPassword
<1>8. CASE UNCHANGED <<ssid, password, setWifi, cw, issued, local, config, overlapped>>
           /\ (task' \in {"ssid", "password"} => task' = task)
  BY <1>8
<1>9. ASSUME TestStatus \/ ReadStatus \/ Report \/ give_wifi_semaphore \/ TakeWifiReady
             \/ Join \/ LoseLink \/ UNCHANGED vars
      PROVE  /\ UNCHANGED <<ssid, password, setWifi, cw, issued, local, config, overlapped>>
             /\ task' \in {"ssid", "password"} => task' = task
  BY <1>9 DEF TestStatus, ReadStatus, Report, give_wifi_semaphore, CheckLink, Give,
              TakeWifiReady, Join, LoseLink, vars
<1> QED
  BY <1>1, <1>2, <1>3, <1>4, <1>5, <1>6, <1>7, <1>8, <1>9 DEF Next, read_sr, wifi_task

(* The station is never configured with the name of one command and the    *)
(* password of another, as long as every AT+CW begins after wifi_task has  *)
(* taken over the one before (wifi_task.h:13-18, user_main.c:238-258).     *)
THEOREM ConfigurationUntorn == Spec => []Untorn
<1>1. Init => UntornInv
  BY DEF Init, UntornInv, Pending
<1>2. UntornInv => Untorn
  BY DEF UntornInv, Untorn
<1> QED BY <1>1, <1>2, TypeInit, TypeNext, UntornNext, PTL DEF Spec
=============================================================================
