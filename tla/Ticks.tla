-------------------------------- MODULE Ticks --------------------------------
(***************************************************************************)
(* The timers of Microgear/MQTTClient/MQTTESP8266.c: a time is a value of  *)
(* the tick counter of FreeRTOS, an unsigned number that wraps.            *)
(***************************************************************************)
EXTENDS Integers

CONSTANT Half \* half of the counter's range (2^31)

ASSUME HalfAssumption == Half \in Nat \ {0}

Modulus == 2 * Half
Tick == 0 .. Modulus - 1

Plus(t, d) == IF t + d < Modulus THEN t + d ELSE t + d - Modulus

(* countdown_ms: the end_time of a timer started at tick now.              *)
countdown(now, timeout) == Plus(now, timeout)

(* timer->end_time - now, unsigned and then taken as int32_t.              *)
(* Mutant: the difference is taken of signed numbers.                      *)
SignedLeft(end_time, now) == end_time - now

left(end_time, now) ==
  LET d == IF end_time >= now THEN end_time - now ELSE end_time - now + Modulus
  IN  IF d < Half THEN d ELSE d - Modulus

expired(end_time, now) == left(end_time, now) < 0

left_ms(end_time, now) == IF expired(end_time, now) THEN 0 ELSE left(end_time, now)
=============================================================================
