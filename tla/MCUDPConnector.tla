--------------------------- MODULE MCUDPConnector ---------------------------
(***************************************************************************)
(* A connector with a small pool, one default endpoint and short intervals.*)
(***************************************************************************)
EXTENDS UDPConnector

CONSTANT p1

OneDefault == <<p1>>
==============================================================================
