------------------------ MODULE MCScheduledCommands ------------------------
(***************************************************************************)
(* Three commands at the times 0, 2 and 5, or without a time.  The time-out*)
(* has three bits: seen from the time 0 or 1, the command at 5 is too far  *)
(* ahead for it, from then on it is not.                                   *)
(***************************************************************************)
EXTENDS ScheduledCommands

CONSTANTS c1, c2, c3
==============================================================================
