------------------------------ MODULE PeerTable ------------------------------
(***************************************************************************)
(* What a connector promises of its table of endpoints, without threads,   *)
(* buffers, locks and clocks: an endpoint is never forgotten, a punch makes*)
(* the connector connected only when it is that of a known endpoint, and   *)
(* connected it stays.  UDPConnector implements this specification;        *)
(* Rendezvous composes several of these tables.                            *)
(***************************************************************************)
CONSTANT Addresses

VARIABLE table

Tables == [endpoints : SUBSET Addresses, connected : BOOLEAN]

Fresh == [endpoints |-> {}, connected |-> FALSE]

\* AddEndpoint.
Learned(t, p) == [t EXCEPT !.endpoints = @ \cup {p}]

\* Counts a punch whoever it is from.
HeardAnybody(t, p) == [t EXCEPT !.connected = TRUE]

\* A punch; that of an unknown endpoint is ignored.
Heard(t, p) == IF p \in t.endpoints THEN [t EXCEPT !.connected = TRUE] ELSE t

Init == table = Fresh

Next == \E p \in Addresses : table' \in {Learned(table, p), Heard(table, p)}

Spec == Init /\ [][Next]_table
==============================================================================
