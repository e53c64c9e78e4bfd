-------------------------------- MODULE MCMqtt --------------------------------
(* TLC instance of Mqtt. *)
EXTENDS Mqtt
===============================================================================
