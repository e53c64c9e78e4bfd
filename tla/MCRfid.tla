-------------------------------- MODULE MCRfid --------------------------------
(* TLC instance of RfidScan: a known tag, and none. *)
EXTENDS RfidScan

MCPayloads == {<<4, 1, 9, 226, 0, 48, 17, 0, 2>>, NoTag}
===============================================================================
