----------------------------- MODULE MCRoutines -----------------------------
(***************************************************************************)
(* Routines on four nodes in a line, with the programs of                  *)
(* examples/applications (teleport, distributed_gate, qkd) and             *)
(* examples/advanced/ghz, one after another on the same sockets and in     *)
(* both directions.                                                        *)
(***************************************************************************)
EXTENDS Routines

MCNodes == {"alice", "bob", "charlie", "david"}

Step(role, down, up, corr) ==
    <<[role |-> role, down |-> down, up |-> up, do_corrections |-> corr]>>

\* What each node calls when a runs `first` and b runs `second`.
Pair(first, second, a, b) ==
    [n \in MCNodes |->
        CASE n = a -> Step(first, a, b, FALSE)
          [] n = b -> Step(second, a, b, FALSE)
          [] OTHER -> <<>>]
Teleport(a, b) == Pair("send", "recv", a, b)
Gate(a, b) == Pair("control", "target", a, b)
Qkd(a, b) == Pair("init", "peer", a, b)

\* A GHZ state along `line`.
Ghz(line, corr) ==
    [n \in MCNodes |->
        IF \E i \in DOMAIN line : line[i] = n
          THEN LET i == CHOOSE i \in DOMAIN line : line[i] = n
               IN  CASE i = 1 -> Step("start", n, line[2], corr)
                     [] i = Len(line) -> Step("end", line[i - 1], n, corr)
                     [] OTHER -> Step("middle", line[i - 1], line[i + 1], corr)
          ELSE <<>>]

p ++ q == [n \in MCNodes |-> p[n] \o q[n]]

Line == <<"alice", "bob", "charlie", "david">>
Back == <<"david", "charlie", "bob", "alice">>

\* All sequences of two on the link of alice and bob; GHZ states twice along the
\* line, the second perhaps backwards; state transfer over two links; mixtures.
OnLink ==
    {Teleport("alice", "bob"), Teleport("bob", "alice"), Gate("alice", "bob"),
     Gate("bob", "alice"), Ghz(<<"alice", "bob">>, TRUE), Ghz(<<"bob", "alice">>, FALSE)}

MCPrograms ==
    {p ++ q : p, q \in OnLink}
    \cup {Ghz(Line, b) ++ Ghz(next, c) : next \in {Line, Back}, b, c \in BOOLEAN}
    \cup {Teleport("alice", "bob") ++ Teleport("bob", "charlie") ++ Ghz(Line, TRUE),
          Ghz(Line, TRUE) ++ Gate("charlie", "bob") ++ Teleport("bob", "alice"),
          Qkd("alice", "bob"),
          Gate("charlie", "bob") ++ Qkd("bob", "alice")}
=============================================================================
