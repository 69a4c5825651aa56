------------------------------- MODULE MCExamples -------------------------------
EXTENDS Examples

\* Variables that are not given.
Unset ==
    [v \in {"p1", "p2", "m", "m0", "m1", "m2", "angle", "delta1", "delta2", "alpha", "beta",
            "theta1", "theta2", "r1", "r2", "dummy", "signal", "epr_meas", "target_meas",
            "corr", "result", "r0", "free1", "free2", "num_epr", "num_test_bits"} |-> 0]
Empty == [v \in {"test", "target_outcomes", "recv_msg", "raw_key", "received", "bit_msg"} |-> <<>>]
Zeros == [v \in {"msg", "basis", "remote_basis", "outcome", "outcomes", "bits_received",
                 "player1_outcomes"} |-> <<0, 0, 0>>]
With0(e) == e @@ Unset @@ Empty @@ Zeros
               @@ [v \in {"trap"} |-> FALSE] @@ [v \in {"continue", "player1_row"} |-> 1]

App(name, input) == [name |-> name, input |-> [n \in DOMAIN input |-> With0(input[n])]]
Nothing == [v \in {} |-> 0]

Blind(name, S) == {App(name, [client |-> c, server |-> Nothing]) : c \in S}
Angles == 0 .. 3

BlindApps ==
    Blind("bqc", [alpha : {1}, beta : {1, 3}, theta1 : Angles, theta2 : Angles, r1 : Bits, r2 : Bits])
    \cup Blind("bqc_trap", [alpha : {1}, beta : {1, 3}, theta1 : {1, 2}, theta2 : {1, 2},
                            r1 : Bits, r2 : Bits, trap : BOOLEAN, dummy : {1, 2}])
    \cup Blind("bqc_nv", [alpha : {1}, beta : {3}, theta1 : {0, 3}, theta2 : {1, 2},
                          r1 : Bits, r2 : Bits, trap : BOOLEAN, dummy : {1, 2}])
    \cup Blind("raw_bqc", {Nothing})
    \cup Blind("bqc_5_2", [alpha : Angles, beta : Angles])
    \cup Blind("bqc_5_3", [theta1 : Angles])
    \cup Blind("bqc_5_4", [alpha : Angles, theta1 : Angles, r1 : Bits])

NvApps == {App("nv_meas", [n \in {"nv", "peer"} |-> [electron |-> b]]) : b \in BOOLEAN}

States == [theta : 0 .. 2, phi : Angles]

TransferApps ==
    {App(name, [sender |-> e, receiver |-> Nothing]) : name \in {"teleport", "use_teleport"}, e \in States}
    \cup {App("cnot", [controller |-> e, target |-> f @@ [gate |-> "cnot"]]) :
              e \in States, f \in {s \in States : s.theta + s.phi <= 2}}
    \cup {App("use_cnot", [controller |-> e, target |-> f @@ [gate |-> gate]]) :
              e \in {s \in States : s.phi <= 1}, f \in {s \in States : s.theta + s.phi = 1},
              gate \in {"cnot", "cphase"}}

AliceBob(name, S, T) == {App(name, [alice |-> a, bob |-> b]) : a \in S, b \in T}
Sizes(epr, test) == {[num_epr |-> epr, num_test_bits |-> test]}

PairApps ==
    AliceBob("qkd", Sizes(2, 1), Sizes(2, 1))
    \cup AliceBob("use_qkd", {[num_epr |-> 2, num_test_bits |-> 1, bit_msg |-> <<b>>] : b \in Bits},
                  {Nothing})
    \cup AliceBob("pad", {[message |-> s] : s \in {<<1>>} \cup [1 .. 2 -> Bits]}, {Nothing})
    \cup AliceBob("basics", {Nothing}, {Nothing})
    \cup AliceBob("output", Sizes(3, 0), Sizes(3, 0))
    \cup AliceBob("raw_pairs", {[num_pairs |-> 3]}, {[num_pairs |-> 3]})
    \cup {App(name, [n \in {"client", "server"} |-> [in |-> b, num_pairs |-> 2]]) :
             name \in {"keep", "measure"}, b \in {"X", "Y", "Z"}}
    \cup {App("swap", [n \in {"alice", "bob", "charlie"} |-> Nothing]),
          App("ghz", [n \in {"start", "middle", "end"} |-> Nothing])}

SquareApps ==
    {App("square", [player1 |-> [row |-> i], player2 |-> [col |-> j]]) : i, j \in 1 .. 3}

MCApps == NvApps \cup BlindApps \cup TransferApps \cup PairApps \cup SquareApps
===============================================================================
