--------------------------------- MODULE MCWlan ---------------------------------
(* TLC instance of Wlan. *)
EXTENDS Wlan
===============================================================================
