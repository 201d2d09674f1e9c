----------------------------- MODULE Rendezvous -----------------------------
(***************************************************************************)
(* Connectors that meet through the matchmaking server.  Each registers    *)
(* until it has heard a known peer, adds the addresses the server answers  *)
(* with, punches every endpoint again and again, and listens to punches    *)
(* (UDPConnector::Update).  The network loses, repeats and reorders; a     *)
(* connector may be started anew, at its old address or at another.        *)
(*                                                                         *)
(* A connector is its PeerTable: that buffers, locks and clocks let it do  *)
(* what is done here, and nothing else to the table, is what the runs of   *)
(* UDPConnector show.                                                      *)
(***************************************************************************)
EXTENDS Integers, FiniteSets

CONSTANTS
    Clients,
    Sessions,     \* who takes part: the clients that have met, and those that come new
    Restarting,   \* bound: the clients that may be started anew, if they come new
    MaxRestarts,  \* bound: how often that happens, all together
    MaxFaults     \* bound: how many messages the network loses or repeats

ASSUME RendezvousAssumption ==
    /\ Sessions \subseteq [met : SUBSET Clients, new : SUBSET Clients]
    /\ Restarting \subseteq Clients
    /\ {MaxRestarts, MaxFaults} \subseteq Nat

\* Where a client is reached: a host and a port, which a restart may change.
Addresses == (Clients \X {0}) \cup (Restarting \X (1 .. MaxRestarts))

VARIABLES
    session,
    table,     \* table[c]: the endpoints of connector c, and _connected
    address,   \* address[c]: where c is reached
    restarts, faults,
    network,   \* the messages that may still arrive, any number of times
    known,     \* the addresses registered with the matchmaking server
    missed     \* one of more than two may have missed an answer: it was lost, or
               \* a client was started anew

vars == <<session, table, address, restarts, faults, network, known, missed>>

Peer == INSTANCE PeerTable WITH table <- table

Register(a) == [what |-> "register", from |-> a]
Answer(a, b) == [what |-> "answer", to |-> a, about |-> b]
Punch(a, b) == [what |-> "punch", from |-> a, to |-> b]

Members == session.met \cup session.new

\* Those that have met before the others come.
Met(c) == [endpoints |-> {<<d, 0>> : d \in session.met \ {c}}, connected |-> TRUE]

Init ==
    /\ session \in Sessions
    /\ table = [c \in Clients |-> IF c \in session.met THEN Met(c) ELSE Peer!Fresh]
    /\ address = [c \in Clients |-> <<c, 0>>]
    /\ restarts = 0 /\ faults = 0
    /\ network = {}
    /\ known = {<<c, 0>> : c \in session.met}
    /\ missed = FALSE

Send(messages) == network' = network \cup messages

\* The message m arrives, perhaps not for the last time, and is answered.
Receive(m, messages) ==
    /\ m \in network
    /\ \/ network' = (network \ {m}) \cup messages /\ UNCHANGED faults
       \/ /\ faults < MaxFaults
          /\ faults' = faults + 1
          /\ Send(messages)

------------------------------------------------------------------------------
(* What a connector does on its own: one round of Update.                  *)

\* _useMM && !_connected, and the register interval has passed.
SendRegister(c) ==
    /\ ~table[c].connected
    /\ Send({Register(address[c])})
    /\ UNCHANGED <<session, table, address, restarts, faults, known, missed>>

\* The heartbeat interval of an endpoint has passed.
SendHeartbeat(c, p) ==
    /\ p \in table[c].endpoints
    /\ Send({Punch(address[c], p)})
    /\ UNCHANGED <<session, table, address, restarts, faults, known, missed>>

------------------------------------------------------------------------------
(* What arrives.                                                           *)

\* AddEndpoint and its punches.
HearAnswer(c, p) ==
    /\ table' = [table EXCEPT ![c] = Peer!Learned(@, p)]
    /\ Receive(Answer(address[c], p), {Punch(address[c], p)})
    /\ UNCHANGED <<session, address, restarts, known, missed>>

HearPunch(c, p) ==
    /\ Receive(Punch(p, address[c]), {})
    /\ table' = [table EXCEPT ![c] = Peer!Heard(@, p)]
    /\ UNCHANGED <<session, address, restarts, known, missed>>

\* The server tells the new client of the ones it knows, and them of it.
ServerAnswers(a) ==
    /\ known' = known \cup {a}
    /\ Receive(Register(a), UNION {{Answer(a, b), Answer(b, a)} : b \in known \ {a}})
    /\ UNCHANGED <<session, table, address, restarts, missed>>

Lose(m) ==
    /\ faults < MaxFaults
    /\ faults' = faults + 1
    /\ m \in network
    /\ network' = network \ {m}
    /\ missed' = (missed \/ (m.what = "answer" /\ Cardinality(Members) > 2))
    /\ UNCHANGED <<session, table, address, restarts, known>>

\* The program ends and is started again, with a table of its own.
Restart(c) ==
    /\ c \in Restarting \cap session.new
    /\ restarts < MaxRestarts
    /\ restarts' = restarts + 1
    /\ table' = [table EXCEPT ![c] = Peer!Fresh]
    /\ address' \in {address, [address EXCEPT ![c] = <<c, restarts + 1>>]}
    /\ missed' = (missed \/ Cardinality(Members) > 2)
    /\ UNCHANGED <<session, faults, network, known>>

Next ==
    \/ \E c \in Members :
           \/ SendRegister(c)
           \/ \E p \in Addresses : SendHeartbeat(c, p)
           \/ \E p \in Addresses : HearAnswer(c, p) \/ HearPunch(c, p)
           \/ Restart(c)
    \/ \E a \in Addresses : ServerAnswers(a)
    \/ \E m \in network : Lose(m)

\* The intervals of a running connector pass, and what is sent again and again
\* arrives again and again.  That a connector goes on sending heartbeats is what
\* HeartbeatsGoOn of UDPConnector says, under the conditions it names.
Fairness ==
    /\ \A c \in Clients : WF_vars(c \in Members /\ SendRegister(c))
    /\ \A c \in Clients : \A p \in {q \in Addresses : q[1] # c} :
           /\ WF_vars(SendHeartbeat(c, p))
           /\ WF_vars(HearAnswer(c, p))
           /\ WF_vars(HearPunch(c, p))
    /\ \A a \in Addresses : WF_vars(ServerAnswers(a))

Spec == Init /\ [][Next]_vars
FairSpec == Spec /\ Fairness

------------------------------------------------------------------------------
KnowEachOther ==
    \A c, d \in Members : c # d => address[d] \in table[c].endpoints
AllConnected == \A c \in Members : table[c].connected

\* Between two connectors no loss, no repetition and no restart can prevent it that
\* in the end each knows the other's address and is connected.  Of more than two each
\* is connected in the end; but it stops asking the server as soon as it hears one
\* peer, and the others it knows for certain only as long as no answer of the server
\* is lost and nobody is started anew.
AllMeet == <>[](AllConnected /\ (~missed => KnowEachOther))
==============================================================================
