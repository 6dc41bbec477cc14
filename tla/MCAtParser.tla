----------------------------- MODULE MCAtParser -----------------------------
(* Instances of AtParser: one line of every kind of format of              *)
(* include/user_main.h:14-50, the words nobody compares with as "?".       *)
EXTENDS AtParser

Quoted == <<"Quote", "Data", "Quote">>
Also == <<"Comma">> \o Quoted
Documented ==
  {[word |-> w, body |-> << >>] : w \in {"?", "AT+MGCN"}}
  \cup {[word |-> "ATE", body |-> <<"Data">>],
        [word |-> "AT+CP1 ", body |-> Quoted],
        [word |-> "AT+CCS1 ", body |-> Quoted \o <<"Comma", "Data">>],
        [word |-> "AT+MGCN", body |-> <<"?">>],
        [word |-> "AT+MGP ", body |-> Quoted \o Also],
        [word |-> "AT+MGC ", body |-> Quoted \o Also],
        [word |-> "AT+MGWF ", body |-> <<"Zero">> \o Also \o Also],
        [word |-> "AT+MGWF ", body |-> <<"One">> \o Also \o Also \o Also]}

(* A publish with an empty payload.                                        *)
EmptyPayload ==
  {[word |-> "AT+MGP ", body |-> Quoted \o <<"Comma", "Quote", "Quote">>]}
=============================================================================
