----------------------------- MODULE MCMicrogear -----------------------------
(* TLC instances of Microgear: a patient host, any host, and a disconnect.  *)
EXTENDS Microgear, TLC

(* Which stack and which socket number is used makes no difference.         *)
Symmetry == Permutations(Task) \cup Permutations(Socket)

(* What steers an impatient host and the tasks: no guard of theirs reads    *)
(* partial, login, host, taken or mark.                                     *)
Steering ==
  <<crashed, setup, inited, token, appid, alias, callbacks, mqtttask, network, client,
    psQueue, wifiReady, pc, active, arg, sock, open, nextId>>
=============================================================================
