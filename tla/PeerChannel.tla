------------------------------ MODULE PeerChannel ------------------------------
(***************************************************************************)
(* What the network stacks rely on when they talk to their peers: between  *)
(* any two nodes there is a channel in each direction that keeps messages  *)
(* in order, loses none and delivers none to anybody else.                 *)
(***************************************************************************)
EXTENDS Integers, Sequences

CONSTANTS Talks         \* the pairs <<n, p>> of nodes that n sends to p

VARIABLES
    channel,    \* channel[n, p]: messages underway from n to p
    sent,       \* messages sent from n to p
    received    \* received[n, p]: those p has taken, in the order it took them

vars == <<channel, sent, received>>

Init ==
    /\ channel = [t \in Talks |-> <<>>]
    /\ sent = [t \in Talks |-> 0]
    /\ received = [t \in Talks |-> <<>>]

Send(t) ==
    /\ channel' = [channel EXCEPT ![t] = Append(@, sent[t] + 1)]
    /\ sent' = [sent EXCEPT ![t] = @ + 1]
    /\ UNCHANGED received

Receive(t) ==
    /\ channel[t] # <<>>
    /\ channel' = [channel EXCEPT ![t] = Tail(@)]
    /\ received' = [received EXCEPT ![t] = Append(@, Head(channel[t]))]
    /\ UNCHANGED sent

Next == \E t \in Talks : Send(t) \/ Receive(t)

\* A receiver that goes on receiving gets what is underway.
Spec == Init /\ [][Next]_vars /\ \A t \in Talks : WF_vars(Receive(t))
=============================================================================
