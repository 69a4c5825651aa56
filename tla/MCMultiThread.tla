---------------------------- MODULE MCMultiThread ----------------------------
(***************************************************************************)
(* Programs for the multi-threaded runtime: alice and bob on nodes of      *)
(* their own, dave on alice's.                                             *)
(***************************************************************************)
EXTENDS MultiThread

MCNodes == {"alice", "bob"}
MCApps == {"alice", "bob", "dave"}
MCNodeOf == [a \in MCApps |-> IF a = "dave" THEN "alice" ELSE a]

Sck(id, peer, peerId) == [id |-> id, peer |-> peer, peerId |-> peerId]
OpInit == [kind |-> "init", arg |-> 0, block |-> TRUE]
Open(sck) == [kind |-> "open", arg |-> sck, block |-> TRUE]
Flush(s) == [kind |-> "subroutine", arg |-> s, block |-> TRUE]
FlushAsync(s) == [kind |-> "subroutine", arg |-> s, block |-> FALSE]
Join == [kind |-> "join"]
Stop == [kind |-> "stop", arg |-> 0, block |-> TRUE]

Gate == [kind |-> "gate"]
Store(array) == [kind |-> "store", array |-> array]
Wait(array) == [kind |-> "wait", array |-> array]
Create(sck, array) == [kind |-> "create", sck |-> sck, array |-> array]
Recv(sck, array) == [kind |-> "recv", sck |-> sck, array |-> array]

ToBob == Sck(0, "bob", 0)
ToAlice == Sck(0, "alice", 0)
ToBobCrossed == Sck(1, "bob", 2)
ToAliceCrossed == Sck(2, "alice", 1)

MCCode ==
    "gates" :> <<Gate, Gate>>
 @@ "first" :> <<Store(0), Wait(1)>>
 @@ "second" :> <<Store(1), Wait(0)>>
 @@ "create" :> <<Create(ToBob, 0), Wait(0)>>
 @@ "recv" :> <<Recv(ToAlice, 0), Wait(0)>>
 @@ "createBack" :> <<Create(ToAlice, 1), Wait(1)>>
 @@ "recvBack" :> <<Recv(ToBob, 1), Wait(1)>>
 @@ "createCrossed" :> <<Create(ToBobCrossed, 2), Wait(2)>>
 @@ "recvCrossed" :> <<Recv(ToAliceCrossed, 2), Wait(2)>>

Run(ops, rounds, delays, orderly) ==
    [code |-> [a \in DOMAIN ops |-> <<OpInit>> \o ops[a] \o <<Stop>>],
     nodes |-> {MCNodeOf[a] : a \in DOMAIN ops}, rounds |-> rounds,
     delays |-> delays, orderly |-> orderly]

MCPrograms == {
    \* blocking programs, again
    Run("alice" :> <<Open(ToBob), Flush("create")>> @@
        "bob" :> <<Open(ToAlice), Flush("recv")>>, 2, TRUE, TRUE),
    \* two subroutines that need each other (tests/test_async_scenarios.py)
    Run("alice" :> <<FlushAsync("first"), FlushAsync("second"), Join>>, 1, FALSE, TRUE),
    \* equal messages
    Run("alice" :> <<FlushAsync("gates"), Flush("gates"), Join>>, 1, TRUE, TRUE),
    \* a subroutine that the stop message may overtake
    Run("alice" :> <<FlushAsync("gates")>>, 1, TRUE, TRUE),
    \* pairs in both directions at once
    Run("alice" :> <<Open(ToBob), FlushAsync("create"), Flush("recvBack"), Join>> @@
        "bob" :> <<Open(ToAlice), FlushAsync("createBack"), Flush("recv"), Join>>, 1, FALSE, TRUE),
    \* two sockets between the same nodes
    Run("alice" :> <<Open(ToBob), Open(ToBobCrossed), Flush("create"), Flush("createCrossed")>> @@
        "bob" :> <<Open(ToAlice), Open(ToAliceCrossed), Flush("recvCrossed"), Flush("recv")>>,
        1, FALSE, TRUE),
    \* the same of two programs on one node, which may be opened in either order
    Run("alice" :> <<Open(ToBob)>> @@
        "dave" :> <<Open(ToBobCrossed)>> @@
        "bob" :> <<Open(ToAlice), Open(ToAliceCrossed)>>, 1, FALSE, FALSE)}
=============================================================================
