---------------------------- MODULE MCSingleThread ----------------------------
(* Pairs of programs for the single-threaded runtime.                         *)
EXTENDS SingleThread

MCNodes == {"alice", "bob"}
MCPeer == [n \in MCNodes |-> IF n = "alice" THEN "bob" ELSE "alice"]
MCSockets == {1, 2}

Sub(kind, socket) == [kind |-> kind, socket |-> socket]
MCSubroutines ==
    "quick" :> Sub("quick", 0) @@ "gates" :> Sub("slow", 0)
 @@ "create" :> Sub("create", 1) @@ "recv" :> Sub("recv", 1)

EnterOp == Op("enter", 0, <<>>)
ExitOp == Op("exit", 0, <<>>)
SetupOp(s) == Op("setup", s, <<>>)
FlushOp(x, sockets) == Op("flush", x, sockets)
SendOp(i) == Op("send", i, <<>>)
RecvOp == Op("recv", 0, <<>>)

Run(alice, bob, orderly) ==
    [code |-> "alice" :> alice @@ "bob" :> bob, rounds |-> 2, orderly |-> orderly]

MCPrograms == {
    \* examples/advanced/raw_subroutines: the hosts set up the sockets themselves
    Run(<<EnterOp, SetupOp(1), FlushOp("create", <<>>)>>,
        <<EnterOp, SetupOp(1), FlushOp("recv", <<>>), FlushOp("gates", <<>>)>>, TRUE),
    \* connections that open their sockets; a pair, then messages both ways
    Run(<<EnterOp, FlushOp("create", <<1>>), SendOp(1), SendOp(2), RecvOp, ExitOp>>,
        <<EnterOp, FlushOp("recv", <<1>>), RecvOp, RecvOp, SendOp(1), ExitOp>>, TRUE),
    \* local programs; bob leaves a message unread
    Run(<<EnterOp, FlushOp("quick", <<>>), SendOp(1), SendOp(2), ExitOp>>,
        <<EnterOp, FlushOp("gates", <<>>), RecvOp, FlushOp("quick", <<>>), ExitOp>>, TRUE),
    \* a message and a result reach bob's host in the same instant
    Run(<<EnterOp, SendOp(1), FlushOp("gates", <<>>), SendOp(2)>>,
        <<EnterOp, FlushOp("quick", <<>>), RecvOp, RecvOp>>, TRUE),
    \* sockets opened in opposite orders
    Run(<<EnterOp, FlushOp("quick", <<1, 2>>), ExitOp>>,
        <<EnterOp, FlushOp("quick", <<2, 1>>), ExitOp>>, FALSE)}
=============================================================================
