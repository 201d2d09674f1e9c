---------------------------- MODULE MCRendezvous ----------------------------
(***************************************************************************)
(* Two clients that come new, or one that joins two that have met.         *)
(***************************************************************************)
EXTENDS Rendezvous

TwoMeetOrOneJoins ==
    {[met |-> {}, new |-> {"a", "b"}], [met |-> {"a", "b"}, new |-> {"c"}]}
==============================================================================
