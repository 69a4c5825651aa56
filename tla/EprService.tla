----------------------------- MODULE EprService -----------------------------
(***************************************************************************)
(* What the network stacks of all nodes promise together.                  *)
(*                                                                         *)
(* A session is a create request of one application and the receive        *)
(* request of another that it meets.  The two network stacks first agree   *)
(* on the number of pairs (the creator's), then deliver the pairs to both  *)
(* ends.  A network stack works on one request at a time, in the order its *)
(* processor submitted them.                                               *)
(***************************************************************************)
EXTENDS Integers

VARIABLES
    sessions,   \* the sessions of the applications; never changes
    agreed,     \* agreed[s]: pairs both ends will get, 0 until they agreed
    got         \* got[s][e]: pairs delivered at end e

vars == <<sessions, agreed, got>>

Ends == {"creator", "receiver"}
Other(e) == IF e = "creator" THEN "receiver" ELSE "creator"

\* A session: the two nodes, the requests' positions in their programs, and
\* what the creator asked for.
NodeOf(s, e) == IF e = "creator" THEN s.creator ELSE s.receiver
RequestOf(s, e) == IF e = "creator" THEN s.create ELSE s.receive

DoneAt(s, e) == agreed[s] > 0 /\ got[s][e] = agreed[s]

\* Everything that the node at end e of s was asked for before s.
EarlierDone(s, e) ==
    \A t \in sessions, f \in Ends :
        (NodeOf(t, f) = NodeOf(s, e) /\ RequestOf(t, f) < RequestOf(s, e))
            => DoneAt(t, f)

Init ==
    /\ agreed = [s \in sessions |-> 0]
    /\ got = [s \in sessions |-> [e \in Ends |-> 0]]

Agree(s) ==
    /\ agreed[s] = 0
    /\ \A e \in Ends : EarlierDone(s, e)
    /\ agreed' = [agreed EXCEPT ![s] = s.number]
    /\ UNCHANGED <<sessions, got>>

\* A kept pair is delivered as soon as it exists, so no end is ever ahead of
\* the other by more than the pair being delivered.
DeliverPair(s, e) ==
    /\ s.type = "CK"
    /\ got[s][e] < agreed[s]
    /\ got[s][e] =< got[s][Other(e)]
    /\ got' = [got EXCEPT ![s][e] = @ + 1]
    /\ UNCHANGED <<sessions, agreed>>

\* Measured pairs are delivered all at once.
DeliverOutcomes(s, e) ==
    /\ s.type = "MD"
    /\ got[s][e] < agreed[s]
    /\ got' = [got EXCEPT ![s][e] = agreed[s]]
    /\ UNCHANGED <<sessions, agreed>>

Next ==
    \E s \in sessions :
        \/ Agree(s)
        \/ \E e \in Ends : DeliverPair(s, e) \/ DeliverOutcomes(s, e)

Spec == Init /\ [][Next]_vars
=============================================================================
