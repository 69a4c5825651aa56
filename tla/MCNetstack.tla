----------------------------- MODULE MCNetstack -----------------------------
(***************************************************************************)
(* Netstack with programs of two and three nodes.  The matching ones are   *)
(* generated from a list of sessions, in the order in which they are to    *)
(* happen: each node submits its requests in that order.                   *)
(***************************************************************************)
EXTENDS Netstack, SequencesExt

CONSTANTS A, B, C

Epr(role, peer, type, num) ==
    [op |-> "epr", role |-> role, peer |-> peer, type |-> type, number |-> num]
Wait(i, pairs) == [op |-> "wait", epr |-> i, pairs |-> pairs]
Free == [op |-> "free"]

\* The sessions that n takes part in, and its request for one of them.
Of(n, list) == SelectSeq(list, LAMBDA s : n \in {s.creator, s.receiver})
RequestFor(n, s) ==
    IF n = s.creator THEN Epr("create", s.receiver, s.type, s.number)
    ELSE Epr("recv", s.creator, s.type, s.number)

\* Request i's results: each pair is awaited and freed, or all at once.
UsePairs(i, s, each) ==
    IF s.type = "MD" THEN <<Wait(i, s.number)>>
    ELSE IF each THEN FlattenSeq([k \in 1 .. s.number |-> <<Wait(i, k), Free>>])
    ELSE <<Wait(i, s.number)>> \o [k \in 1 .. s.number |-> Free]

\* One request after the other.
Length(s, each) == 1 + Len(UsePairs(1, s, each))
Start(list, k, each) ==
    1 + SumFunction([j \in 1 .. k - 1 |-> Length(list[j], each)])
Blocking(n, sessions, each) ==
    LET list == Of(n, sessions)
    IN  FlattenSeq([k \in DOMAIN list |->
            <<RequestFor(n, list[k])>> \o
            UsePairs(Start(list, k, each), list[k], each)])

\* All requests first, then their results.
Pipelined(n, sessions) ==
    LET list == Of(n, sessions)
    IN  [k \in DOMAIN list |-> RequestFor(n, list[k])] \o
        FlattenSeq([k \in DOMAIN list |-> UsePairs(k, list[k], TRUE)])

Session(c, r, type, num) ==
    [creator |-> c, receiver |-> r, type |-> type, number |-> num]
Types == {"CK", "MD"}

\* Two sessions of up to two pairs on one link, in either direction.
TwoNodes == {<<Session(A, B, t, k), Session(c, IF c = A THEN B ELSE A, u, l)>> :
                t, u \in Types, k, l \in 1 .. 2, c \in {A, B}}
\* Three sessions around a triangle.
ThreeNodes == {<<Session(A, B, t, 1), Session(B, C, u, 2), Session(c, d, v, 1)>> :
                  t, u, v \in Types, <<c, d>> \in {<<A, C>>, <<C, A>>}}

\* An MD request submitted while a kept pair is not freed may crash.
Safe(list) == \A k \in DOMAIN list : list[k].type = "CK" => 
                  \A j \in k + 1 .. Len(list) : list[j].type = "CK"

MatchedPrograms ==
    {[matched |-> TRUE, code |-> [n \in Nodes |-> Blocking(n, list, TRUE)]] :
        list \in TwoNodes \cup ThreeNodes}
    \cup {[matched |-> TRUE, code |-> [n \in Nodes |-> Pipelined(n, list)]] :
        list \in {l \in TwoNodes \cup ThreeNodes : Safe(l)}}

\* Requests that do not match up: both nodes create, three nodes create in a
\* circle, a type without handler, an MD request without a free qubit, and two
\* pairs awaited with one communication qubit.
Mismatched(a, b, c) == [n \in Nodes |-> IF n = A THEN a ELSE IF n = B THEN b ELSE c]
OtherPrograms ==
    {[matched |-> FALSE, code |-> code] : code \in {
        Mismatched(<<Epr("create", B, "CK", 1)>>, <<Epr("create", A, "MD", 2)>>, <<>>),
        Mismatched(<<Epr("create", B, "CK", 1), Epr("recv", C, "CK", 1)>>,
                   <<Epr("create", C, "CK", 1), Epr("recv", A, "CK", 1)>>,
                   <<Epr("create", A, "CK", 1), Epr("recv", B, "CK", 1)>>),
        Mismatched(<<Epr("create", B, "R", 1)>>, <<Epr("recv", A, "R", 1)>>, <<>>),
        Mismatched(<<Epr("create", B, "CK", 1), Epr("create", B, "MD", 1)>>,
                   <<Epr("recv", A, "CK", 1), Epr("recv", A, "MD", 1)>>, <<>>)}}
    \cup {[matched |-> FALSE, code |-> [n \in Nodes |->
             Blocking(n, <<Session(A, B, "CK", 2)>>, FALSE)]]}

MCPrograms == MatchedPrograms \cup OtherPrograms
=============================================================================
