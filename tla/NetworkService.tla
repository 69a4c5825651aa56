---------------------------- MODULE NetworkService ----------------------------
(***************************************************************************)
(* How messages get from the network stack of one node to another's        *)
(* (sim/stack/qnos_network_service.py, and the ports and tables that       *)
(* run/stack/run.py, stack.py, qnos.py and netstack.py set up for it).     *)
(*                                                                         *)
(* Every pair of end nodes gets ports, and entries in the two services'    *)
(* tables, before anything starts.  A message leaves through the out port  *)
(* of its peer; the service, which waits for output on any of its ports    *)
(* with one combined event, reads it and asks the routing service to carry *)
(* it; at the other end it is put on the in port of its origin.            *)
(***************************************************************************)
EXTENDS Integers, Sequences, FiniteSets

CONSTANTS
    Nodes,
    Talks,          \* the pairs <<n, p>> such that n sends to p
    MaxMsgs         \* bound: messages of each pair

ASSUME NetworkServiceAssumption ==
    /\ IsFiniteSet(Nodes)
    /\ Talks \subseteq {t \in Nodes \X Nodes : t[1] # t[2]}
    /\ MaxMsgs \in Nat

VARIABLES
    unregistered,   \* pairs of end nodes that the set-up has still to connect
    toName,         \* node_id_name_mapping and _port_to_name: peers of each service
    listensTo,      \* the ports in the service's combined event, fixed at its start
    outPort,        \* outPort[<<n, p>>]: queue of the port peer_out_p of node n
    events,         \* the port events node n's service has still to handle, in order
    routed,         \* routed[<<n, p>>]: requests underway from n to p
    inBuffer,       \* inBuffer[<<n, p>>]: what p's listener has got from n
    sent,           \* messages sent from n to p; they are numbered 1, 2, ...
    received,       \* received[<<n, p>>]: those p's network stack has taken
    fault           \* exception that ended the simulation

setup == <<unregistered, toName, listensTo>>
queues == <<outPort, events, routed, inBuffer>>
vars == <<setup, queues, sent, received, fault>>

Init ==
    /\ unregistered = {pair \in SUBSET Nodes : Cardinality(pair) = 2}
    /\ toName = [n \in Nodes |-> {}]
    /\ listensTo = [n \in Nodes |-> {}]
    /\ outPort = [t \in Talks |-> <<>>]
    /\ events = [n \in Nodes |-> <<>>]
    /\ routed = [t \in Talks |-> <<>>]
    /\ inBuffer = [t \in Talks |-> <<>>]
    /\ sent = [t \in Talks |-> 0]
    /\ received = [t \in Talks |-> <<>>]
    /\ fault = "none"

\* _setup_network: peers are registered with ports and services, pair by pair.
RegisterPeer(pair) ==
    /\ unregistered' = unregistered \ {pair}
    /\ toName' = [n \in Nodes |-> toName[n] \cup IF n \in pair THEN pair \ {n} ELSE {}]
    /\ UNCHANGED <<listensTo, queues, sent, received, fault>>

\* network.start(): run builds the combined event from the ports it then has.
Start(n) ==
    /\ unregistered = {}
    /\ listensTo[n] = {}
    /\ toName[n] # {}
    /\ listensTo' = [listensTo EXCEPT ![n] = toName[n]]
    /\ UNCHANGED <<unregistered, toName, queues, sent, received, fault>>

\* _run: the protocols of the stack start when the network has started.
Running ==
    /\ fault = "none"
    /\ \A n \in Nodes : listensTo[n] # {}

\* Netstack._send_peer_msg, forwarded from port to port to the service's.
SendPeerMsg(n, p) ==
    /\ Running
    /\ sent[<<n, p>>] < MaxMsgs
    /\ sent' = [sent EXCEPT ![<<n, p>>] = @ + 1]
    /\ outPort' = [outPort EXCEPT ![<<n, p>>] = Append(@, sent[<<n, p>>] + 1)]
    /\ events' = [events EXCEPT ![n] = IF p \in listensTo[n] THEN Append(@, p) ELSE @]
    /\ UNCHANGED <<setup, routed, inBuffer, received, fault>>

\* Mutant of ForwardOutput: of the ports that triggered only the first is read.
ForwardOutputFirst(n) ==
    \E k \in 1 .. Len(events[n]) :
        LET t == <<n, Head(events[n])>>
        IN  /\ fault = "none"
            /\ Cardinality({events[n][i] : i \in 1 .. k}) = k
            /\ routed' = [routed EXCEPT ![t] = Append(@, Head(outPort[t]))]
            /\ outPort' = [outPort EXCEPT ![t] = Tail(@)]
            /\ events' = [events EXCEPT ![n] = SubSeq(@, k + 1, Len(@))]
            /\ UNCHANGED <<setup, inBuffer, sent, received, fault>>

\* run wakes for one event, or for events of several ports at once, reads one
\* message from the port of each and hands it to the routing service.
ForwardOutput(n) ==
    \E k \in 1 .. Len(events[n]) :
        LET woken == {events[n][i] : i \in 1 .. k}
            Woken(t) == t[1] = n /\ t[2] \in woken
        IN  /\ fault = "none"
            /\ Cardinality(woken) = k
            /\ routed' = [t \in Talks |->
                   IF Woken(t) THEN Append(routed[t], Head(outPort[t])) ELSE routed[t]]
            /\ outPort' = [t \in Talks |->
                   IF Woken(t) THEN Tail(outPort[t]) ELSE outPort[t]]
            /\ events' = [events EXCEPT ![n] = SubSeq(@, k + 1, Len(@))]
            /\ UNCHANGED <<setup, inBuffer, sent, received, fault>>

\* The routing service delivers a request to the service at p, which puts the
\* message on the in port of the origin.
ReceiveQnosMessage(n, p) ==
    LET t == <<n, p>>
        known == n \in toName[p]
    IN  /\ fault = "none"
        /\ routed[t] # <<>>
        /\ routed' = [routed EXCEPT ![t] = Tail(@)]
        /\ inBuffer' = IF known THEN [inBuffer EXCEPT ![t] = Append(@, Head(routed[t]))]
                                ELSE inBuffer
        /\ fault' = IF known THEN fault ELSE "RuntimeError"
        /\ UNCHANGED <<setup, outPort, events, sent, received>>

\* Netstack._receive_peer_msg
ReceivePeerMsg(n, p) ==
    LET t == <<n, p>>
    IN  /\ fault = "none"
        /\ inBuffer[t] # <<>>
        /\ inBuffer' = [inBuffer EXCEPT ![t] = Tail(@)]
        /\ received' = [received EXCEPT ![t] = Append(@, Head(inBuffer[t]))]
        /\ UNCHANGED <<setup, outPort, events, routed, sent, fault>>

Next ==
    \/ \E pair \in unregistered : RegisterPeer(pair)
    \/ \E n \in Nodes : Start(n) \/ ForwardOutput(n)
    \/ \E t \in Talks :
           \/ SendPeerMsg(t[1], t[2])
           \/ ReceiveQnosMessage(t[1], t[2])
           \/ ReceivePeerMsg(t[1], t[2])

\* The simulator runs until no event is left, and routes every request; a
\* network stack that waits for a peer's message takes it.
Fairness ==
    /\ \A n \in Nodes : WF_vars(Start(n)) /\ WF_vars(ForwardOutput(n))
    /\ \A t \in Talks : WF_vars(ReceiveQnosMessage(t[1], t[2]))
                        /\ WF_vars(ReceivePeerMsg(t[1], t[2]))

Spec == Init /\ [][Next]_vars /\ Fairness

-----------------------------------------------------------------------------
(* Correctness.                                                              *)

\* Whatever the messages of several nodes and peers do in one instant, the
\* services make a FIFO channel for each direction that loses nothing and
\* delivers to the peer meant only: what the network stacks rely on.
Channel == INSTANCE PeerChannel
    WITH channel <- [t \in Talks |-> inBuffer[t] \o routed[t] \o outPort[t]]

Implements == Channel!Spec
=============================================================================
