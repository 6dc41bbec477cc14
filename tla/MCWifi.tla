------------------------------- MODULE MCWifi -------------------------------
(* Instance of Wifi for model checking.                                    *)
EXTENDS Wifi
=============================================================================
