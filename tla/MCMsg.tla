-------------------------------- MODULE MCMsg --------------------------------
(* TLC instance of Msg: the result a cleared record holds, a scan that found *)
(* nothing, and ticks that wrap soon after the window has closed.            *)
EXTENDS Msg

MCResults == {"ITEM_1", "NONE"}
MCItem1 == "ITEM_1"
==============================================================================
