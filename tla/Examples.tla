-------------------------------- MODULE Examples --------------------------------
(***************************************************************************)
(* The programs of src/examples, step by step.  Their variables keep the   *)
(* names they have there; e are the variables of the node whose steps an   *)
(* operator gives.                                                         *)
(*                                                                         *)
(* Angles are multiples of a quarter turn, so states stay within what      *)
(* Stabilizer describes; 2 is math.pi.                                     *)
(***************************************************************************)
EXTENDS Applications

Bits == {0, 1}

\* A message whose text does not matter.
Signal == 1

-----------------------------------------------------------------------------
(* Blind quantum computation: the client has the server measure two qubits   *)
(* at angles that hide alpha and beta behind theta and r.                    *)

MeasXY(q, angle, var) == <<Rot("Z", q, angle), H(q), MeasureQ(q, var)>>

RemoteStatePreparation(q, theta, var) == <<Create("server", q)>> \o MeasXY(q, theta, var)

\* math.pow(-1, k)
Sign(k) == 1 - 2 * (k % 2)

Delta1(alpha, e) == (alpha - e.theta1 + 2 * (e.p1 + e.r1)) % 4
Delta2NoSign(beta, e) == (beta - e.theta2 + 2 * (e.p2 + e.r2)) % 4
Delta2(beta, e) == (Sign(e.m1 + e.r1) * beta - e.theta2 + 2 * (e.p2 + e.r2)) % 4

\* applications/bqc
AppClient(e) ==
    << Flush(RemoteStatePreparation("q1", e.theta1, "p1")
             \o RemoteStatePreparation("q2", e.theta2, "p2")),
       ToSend("server", Delta1(e.alpha, e)),
       ToReceive("server", "m1"),
       ToSend("server", Delta2(e.beta, e)),
       ToReceive("server", "m2") >>

AppServer(e) ==
    << Flush(<<Recv("client", "q1"), Recv("client", "q2"), Two("cphase", "q1", "q2")>>),
       ToReceive("client", "angle"),
       Flush(MeasXY("q1", e.angle, "m1")),
       ToSend("client", e.m1),
       ToReceive("client", "angle"),
       Flush(<<Rot("Z", "q2", e.angle), H("q2")>>),
       Flush(<<MeasureQ("q2", "m2")>>),
       ToSend("client", e.m2) >>

\* advanced/bqc: the client may prepare a dummy state instead, as a trap.
\* Whether qubit i is the dummy of a trap round.
Dummy(e, i) == e.trap /\ e.dummy = i

ClientAngles(e) ==
    << ToSend("server", Delta1(IF Dummy(e, 2) THEN 0 ELSE e.alpha, e)),
       ToReceive("server", "m1"),
       ToSend("server", IF Dummy(e, 1) THEN (-e.theta2 + 2 * (e.p2 + e.r2)) % 4
                        ELSE Delta2(e.beta, e)) >>

TrapClient(e) ==
    << Flush(<<Create("server", "epr1")>>
             \o Only(~Dummy(e, 2), <<Rot("Z", "epr1", e.theta2), H("epr1")>>)
             \o <<MeasureQ("epr1", "p2"), Create("server", "epr2")>>
             \o Only(~Dummy(e, 1), <<Rot("Z", "epr2", e.theta1), H("epr2")>>)
             \o <<MeasureQ("epr2", "p1")>>) >>
    \o ClientAngles(e)

TrapServer(e) ==
    << Flush(<<Recv("client", "epr1"), Recv("client", "epr2"), Two("cphase", "epr2", "epr1")>>),
       ToReceive("client", "delta1"),
       Flush(MeasXY("epr2", e.delta1, "m1")),
       ToSend("client", e.m1),
       ToReceive("client", "delta2"),
       Flush(MeasXY("epr1", e.delta2, "m2")) >>

\* The same on NV hardware: one request for both pairs, whose outcomes are stored in
\* an array in the order in which the pairs come.
NvClient(e) ==
    LET PostCreate(index) ==
            Only(index = 0 /\ ~Dummy(e, 2), <<Rot("Z", "q", e.theta2), H("q")>>)
            \o Only(index = 1 /\ ~Dummy(e, 1), <<Rot("Z", "q", e.theta1), H("q")>>)
            \o <<MeasureInto("q", "outcomes", index + 1)>>
    IN  << Flush(<<Create("server", "q")>> \o PostCreate(0)
                 \o <<Create("server", "q")>> \o PostCreate(1)),
           Let("p1", e.outcomes[2]),
           Let("p2", e.outcomes[1]) >>
        \o ClientAngles(e)

NvServer(e) ==
    << Flush(<<Recv("client", "epr1"), Recv("client", "epr2"), Two("cphase", "epr2", "epr1")>>),
       ToReceive("client", "delta1"),
       Flush(MeasXY("epr2", e.delta1, "m1")),
       ToSend("client", e.m1),
       ToReceive("client", "delta2"),
       Flush(MeasXY("epr1", e.delta2, "m2")) >>

\* advanced/partial_bqc: figure 5.2, the computation without hiding.
Client52(e) ==
    << ToSend("server", e.alpha),
       ToReceive("server", "m1"),
       ToSend("server", IF e.m1 = 1 THEN (-e.beta) % 4 ELSE e.beta) >>

Server52(e) ==
    << ToReceive("client", "alpha"),
       Flush(<<NewQubit("electron"), NewQubit("carbon"), H("carbon"), H("electron"),
               Two("cphase", "electron", "carbon")>>
             \o MeasXY("electron", e.alpha, "m1")),
       ToSend("client", e.m1),
       ToReceive("client", "beta"),
       Flush(MeasXY("carbon", e.beta, "m2")) >>

\* Figure 5.3, remote state preparation.
Client53(e) == << Flush(<<Create("server", "epr")>> \o MeasXY("epr", e.theta1, "p1")) >>
Server53(e) == << Flush(<<Recv("client", "epr"), H("epr"), MeasureQ("epr", "m2")>>) >>

\* Figure 5.4, one qubit measured blindly.
Client54(e) ==
    << Flush(<<Create("server", "epr")>> \o MeasXY("epr", e.theta1, "p1")),
       ToSend("server", Delta1(e.alpha, e)) >>

Server54(e) ==
    << Flush(<<Recv("client", "epr")>>),
       ToReceive("client", "delta1"),
       Flush(MeasXY("epr", e.delta1, "m2")) >>

\* advanced/raw_subroutines: the first qubits of the computation, with alpha, beta and
\* all angles zero, in subroutines written by hand for NV hardware.  The hosts of the
\* single-threaded runtime only submit them (SingleThread).
RawMeasure(q, var) == <<Rot("Y", q, 1), Rot("X", q, 2), MeasureQ(q, var)>>

RawBqcClient(e) ==
    << Flush(<<Create("server", 0)>> \o RawMeasure(0, "p1")
             \o <<Create("server", 0)>> \o RawMeasure(0, "p2")) >>

RawBqcServer(e) ==
    << Flush(<<Recv("client", 0), NewQubit(1),
               Rot("Y", 0, 1), CRot("Y", 0, 1, 3), Rot("X", 0, 3), CRot("X", 0, 1, 1), Free(0),
               Recv("client", 0),
               Rot("Y", 1, 1), CRot("X", 0, 1, 1), Rot("Z", 0, 3), Rot("X", 1, 3), Rot("Y", 1, 3)>>),
       Flush(RawMeasure(0, "m1")),
       Flush(RawMeasure(1, "m2")) >>

-----------------------------------------------------------------------------
(* Teleportation and distributed gates.                                      *)

\* set_qubit_state of the SDK: on the Bloch sphere.
SetQubitState(q, e) == <<Rot("Y", q, e.theta), Rot("Z", q, e.phi)>>

\* A qubit is prepared in the first flush of the routine that uses it.
Prepared(q, e, routine) ==
    <<Flush(<<NewQubit(q)>> \o SetQubitState(q, e) \o routine[1].ops)>> \o Tail(routine)

\* teleport_send: measure the qubit and half a pair in the Bell basis.
TeleportSend(q, e) ==
    << Flush(<<Create("receiver", "epr"), Two("cnot", q, "epr"), H(q),
               MeasureQ(q, "m1"), MeasureQ("epr", "m2")>>),
       ToSend("receiver", <<e.m1, e.m2>>) >>

CorrectionsSwapped(m) == Only(m[1] = 1, <<X("epr")>>) \o Only(m[2] = 1, <<Z("epr")>>)
Corrections(m) == Only(m[2] = 1, <<X("epr")>>) \o Only(m[1] = 1, <<Z("epr")>>)

TeleportRecv(e) ==
    << Flush(<<Recv("sender", "epr")>>),
       ToReceive("sender", "msg"),
       Flush(Corrections(e.msg)) >>

\* applications/teleport, with the routine
UseTeleportSender(e) == Prepared("q", e, TeleportSend("q", e))
UseTeleportReceiver(e) == TeleportRecv(e)

\* and without it.
TeleportSender(e) ==
    << Flush(<<NewQubit("q")>> \o SetQubitState("q", e)
             \o <<Create("receiver", "epr"), Two("cnot", "q", "epr"), H("q"),
                  MeasureQ("q", "m1"), MeasureQ("epr", "m2")>>),
       ToSend("receiver", <<e.m1, e.m2>>) >>
TeleportReceiver(e) ==
    << Flush(<<Recv("sender", "epr")>>),
       ToReceive("sender", "msg"),
       Flush(Only(e.msg[2] = 1, <<X("epr")>>) \o Only(e.msg[1] = 1, <<Z("epr")>>)) >>

\* applications/distributed_gate: a CNOT over a pair.
Controller(e) ==
    << Flush(<<Create("target", "epr")>>),
       Flush(<<NewQubit("ctrl")>> \o SetQubitState("ctrl", e)),
       ToReceive("target", "signal"),
       Flush(<<Two("cnot", "ctrl", "epr"), MeasureQ("epr", "epr_meas")>>),
       ToSend("target", e.epr_meas),
       ToReceive("target", "target_meas"),
       Flush(Only(e.target_meas = 1, <<Z("ctrl")>>)),
       ToSend("target", Signal) >>

Target(e) ==
    << Flush(<<Recv("controller", "epr")>>),
       Flush(<<NewQubit("target")>> \o SetQubitState("target", e)),
       ToSend("controller", Signal),
       ToReceive("controller", "m"),
       Flush(Only(e.m = 1, <<X("epr")>>) \o <<Two("cnot", "epr", "target")>>),
       Flush(<<H("epr"), MeasureQ("epr", "epr_meas")>>),
       ToSend("controller", e.epr_meas),
       ToReceive("controller", "signal") >>

\* The routines for a CNOT and a CPhase gate over a pair: they differ in the gate that
\* the target's half of the pair controls.
DistributedControl(q, e) ==
    << Flush(<<Create("target", "epr"), Two("cnot", q, "epr"), MeasureQ("epr", "epr_meas")>>),
       ToSend("target", e.epr_meas),
       ToReceive("target", "target_meas"),
       Flush(Only(e.target_meas = 1, <<Z(q)>>)) >>

DistributedTarget(gate, q, e) ==
    << Flush(<<Recv("controller", "epr")>>),
       ToReceive("controller", "m"),
       Flush(Only(e.m = 1, <<X("epr")>>)
             \o <<Two(gate, "epr", q), H("epr"), MeasureQ("epr", "epr_meas")>>),
       ToSend("controller", e.epr_meas) >>

UseController(e) == Prepared("ctrl", e, DistributedControl("ctrl", e))
UseTarget(e) == Prepared("target", e, DistributedTarget(e.gate, "target", e))

\* tutorial/4.3_multi-node: Alice joins her pairs with Bob and Charlie.
SwapAlice(e) ==
    << ToSend("bob", Signal),
       ToSend("charlie", Signal),
       Flush(<<Create("bob", "qb"), Create("charlie", "qc"), Two("cnot", "qb", "qc"), H("qb"),
               MeasureQ("qb", "m2"), MeasureQ("qc", "m1")>>),
       ToSend("charlie", e.m2),
       ToSend("charlie", e.m1) >>

SwapBob(e) ==
    << ToReceive("alice", "signal"),
       Flush(<<Recv("alice", "q"), MeasureQ("q", "result")>>) >>

SwapCharlie(e) ==
    << ToReceive("alice", "signal"),
       Flush(<<Recv("alice", "q")>>),
       ToReceive("alice", "m2"),
       ToReceive("alice", "m1"),
       Flush(Only(e.m1 = 1, <<X("q")>>) \o Only(e.m2 = 1, <<Z("q")>>)
             \o <<MeasureQ("q", "result")>>) >>

\* advanced/ghz: create_ghz with corrections, for nodes in a line; `down` and `up` are
\* the neighbours, "" at the ends.
CreateGhz(down, up, e) ==
    LET corr == (e.corr + e.m) % 2 IN
    CASE down = "" ->
           << ToReceive(up, "signal"), Flush(<<Create(up, "q")>>), ToSend(up, 0) >>
      [] up = "" ->
           << ToSend(down, Signal), Flush(<<Recv(down, "q")>>),
              ToReceive(down, "corr"), Flush(Only(e.corr = 1, <<X("q")>>)) >>
      [] OTHER ->
           << ToSend(down, Signal), ToReceive(up, "signal"),
              Flush(<<Recv(down, "q"), Create(up, "q_up"), Two("cnot", "q", "q_up"),
                      MeasureQ("q_up", "m")>>),
              ToReceive(down, "corr"), ToSend(up, corr),
              Flush(Only(e.corr = 1, <<X("q")>>)) >>

GhzProgram(node_names, n, e) ==
    LET i == CHOOSE j \in DOMAIN node_names : node_names[j] = n
    IN  CreateGhz(IF i > 1 THEN node_names[i - 1] ELSE "",
                  IF i < Len(node_names) THEN node_names[i + 1] ELSE "", e)
        \o <<Flush(<<MeasureQ("q", "result")>>)>>

-----------------------------------------------------------------------------
(* Key distribution, and messages hidden with what pairs give.               *)

\* applications/qkd.  The initiating node is "alice".
PeerOf(n) == IF n = "alice" THEN "bob" ELSE "alice"
MakeWith(n, q) == IF n = "alice" THEN Create("bob", q) ELSE Recv("alice", q)

\* One flush per pair; each node draws its bases at random.
DistributeStates(n, e) ==
    <<ToChoose("basis", [1 .. e.num_epr -> Bits])>>
    \o [i \in 1 .. e.num_epr |->
           Flush(<<MakeWith(n, "q")>> \o Only(e.basis[i] = 1, <<H("q")>>)
                 \o <<MeasureInto("q", "outcome", i)>>)]

ExchangeReceivesFirst(n, value, var) ==
    <<ToReceive(PeerOf(n), var), ToSend(PeerOf(n), value)>>

\* Initiating nodes send first.
Exchange(n, value, var) ==
    IF n = "alice" THEN <<ToSend("bob", value), ToReceive("bob", var)>>
                   ELSE <<ToReceive("alice", var), ToSend("alice", value)>>

FilterBases(n, e) == Exchange(n, e.basis, "remote_basis")

SameBasis(e) == {i \in 1 .. e.num_epr : e.basis[i] = e.remote_basis[i]}

\* random.sample: some of them, in any order.
Samples(S, k) ==
    LET size == IF k < Cardinality(S) THEN k ELSE Cardinality(S)
    IN  {f \in [1 .. size -> S] : \A i, j \in 1 .. size : f[i] = f[j] => i = j}

\* The initiating node chooses the test pairs, and sends its outcomes last.
EstimateErrorRate(n, e) ==
    LET test_outcomes == [i \in DOMAIN e.test |-> e.outcome[e.test[i]]] IN
    IF n = "alice"
    THEN << ToChoose("test", Samples(SameBasis(e), e.num_test_bits)),
            ToSend("bob", e.test),
            ToReceive("bob", "target_outcomes"),
            ToSend("bob", test_outcomes) >>
    ELSE << ToReceive("alice", "test"),
            ToSend("alice", test_outcomes),
            ToReceive("alice", "target_outcomes") >>

RawKeyAll(e) == [i \in 1 .. e.num_epr |-> e.outcome[i]]

RawKey(e) ==
    LET kept == SameBasis(e) \ ToSet(e.test)
    IN  [i \in 1 .. Cardinality(kept) |-> e.outcome[SetToSortSeq(kept, <)[i]]]

AliceQkd(e) ==
    DistributeStates("alice", e)
    \o <<ToReceive("bob", "signal")>>
    \o FilterBases("alice", e) \o EstimateErrorRate("alice", e)
    \o <<Let("raw_key", RawKey(e))>>

BobQkd(e) ==
    DistributeStates("bob", e)
    \o <<ToSend("alice", Signal)>>
    \o FilterBases("bob", e) \o EstimateErrorRate("bob", e)
    \o <<Let("raw_key", RawKey(e))>>

\* QKDRoutine has the same steps, without waiting for all qubits to be measured.
QkdRoutine(n, e) ==
    DistributeStates(n, e) \o FilterBases(n, e) \o EstimateErrorRate(n, e)
    \o <<Let("raw_key", RawKey(e))>>

Xor(s, t) == [i \in DOMAIN t |-> (s[i] + t[i]) % 2]
\* The message made as long as the key.
Padded(msg, length) == [i \in 1 .. length |-> IF i <= Len(msg) THEN msg[i] ELSE 0]

\* If the key is shorter than the message the program raises; its peer then waits.
\* The first bit of each byte, which ASCII makes 0 and the receiver sets to 0, is left
\* out of bit_msg.
KeySender(e) ==
    << ToSend("bob", e.num_epr), ToSend("bob", e.num_test_bits) >>
    \o QkdRoutine("alice", e)
    \o Only(Len(e.raw_key) >= Len(e.bit_msg),
            <<ToSend("bob", Xor(e.raw_key, Padded(e.bit_msg, Len(e.raw_key))))>>)

KeyReceiver(e) ==
    << ToReceive("alice", "num_epr"), ToReceive("alice", "num_test_bits") >>
    \o QkdRoutine("bob", e)
    \o << ToReceive("alice", "recv_msg"), Let("bit_msg", Xor(e.raw_key, e.recv_msg)) >>

\* tutorial/3.2_logging: each bit is sent with one that tells whether more will come.
PadAlice(e) ==
    LET Round(i) ==
            << Flush(<<Create("bob", "q1"), Create("bob", "q2"), H("q1"), H("q2"),
                       MeasureQ("q1", "m1"), MeasureQ("q2", "m2")>>),
               ToSend("bob", <<(e.message[i] + e.m1) % 2,
                               ((IF i < Len(e.message) THEN 1 ELSE 0) + e.m2) % 2>>) >>
    IN  FlattenSeq([i \in DOMAIN e.message |-> Round(i)])

PadBob(e) ==
    LET Round(i) ==
            << Flush(<<Recv("alice", "q1"), Recv("alice", "q2"), H("q1"), H("q2"),
                       MeasureQ("q1", "m1"), MeasureQ("q2", "m2")>>),
               ToReceive("alice", "bits_received"),
               Let("received", Append(e.received, (e.bits_received[1] + e.m1) % 2)),
               Let("continue", (e.bits_received[2] + e.m2) % 2) >>
        done == Len(e.received) + (IF e.continue = 1 THEN 1 ELSE 0)
    IN  FlattenSeq([i \in 1 .. done |-> Round(i)])

-----------------------------------------------------------------------------
(* The magic square: each player measures three observables of two qubits.   *)

StrategyUnsigned ==
    LET Square(p, q) ==
            Observable(Nontrivial([x \in {"q1", "q2"} |-> IF x = "q1" THEN p ELSE q]), 0)
    IN  << <<Square("X", "I"), Square("X", "X"), Square("I", "X")>>,
           <<Square("X", "Z"), Square("Y", "Y"), Square("Z", "X")>>,
           <<Square("I", "Z"), Square("Z", "Z"), Square("Z", "I")>> >>

Strategy ==
    LET Square(p, q, sign) ==
            Observable(Nontrivial([x \in {"q1", "q2"} |-> IF x = "q1" THEN p ELSE q]), sign)
    IN  << <<Square("X", "I", 0), Square("X", "X", 0), Square("I", "X", 0)>>,
           <<Square("X", "Z", 1), Square("Y", "Y", 0), Square("Z", "X", 1)>>,
           <<Square("I", "Z", 0), Square("Z", "Z", 0), Square("Z", "I", 0)>> >>

FreeBoth == Flush(<<MeasureQ("q1", "free1"), MeasureQ("q2", "free2")>>)

Player1(e) ==
    << Flush(<<Create("player2", "q1"), Create("player2", "q2")>>),
       ToSend("player2", Signal),
       Flush(<<Parity(Strategy[e.row][1], "m0")>>),
       Flush(<<Parity(Strategy[e.row][2], "m1")>>),
       Flush(<<Parity(Strategy[e.row][3], "m2")>>),
       ToSend("player2", Signal),
       FreeBoth,
       ToSend("player2", e.row),
       ToSend("player2", <<e.m0, e.m1, e.m2>>) >>

\* The first two flushes are not yielded from, so all measurements are in the third.
Player2(e) ==
    << Flush(<<Recv("player1", "q1"), Recv("player1", "q2")>>),
       ToReceive("player1", "signal"),
       ToReceive("player1", "signal"),
       Flush(<<Parity(Strategy[1][e.col], "m0"), Parity(Strategy[2][e.col], "m1"),
               Parity(Strategy[3][e.col], "m2")>>),
       FreeBoth,
       ToReceive("player1", "player1_row"),
       ToReceive("player1", "player1_outcomes") >>

\* The square that Player2 returns has both outcomes where row and column meet.
Square(e) == [mine |-> <<e.m0, e.m1, e.m2>>[e.player1_row], other |-> e.player1_outcomes[e.col]]

-----------------------------------------------------------------------------
(* Pairs that are measured.                                                  *)

\* advanced/link_layer: one request for all pairs, measured as they come.
PostCreate(e, i) ==
    Only(e.in = "X", <<H("q")>>) \o Only(e.in = "Y", <<K("q")>>)
    \o <<MeasureInto("q", "outcome", i)>>
KeepClient(e) ==
    <<Flush(FlattenSeq([i \in 1 .. e.num_pairs |-> <<Create("server", "q")>> \o PostCreate(e, i)]))>>
KeepServer(e) ==
    <<Flush(FlattenSeq([i \in 1 .. e.num_pairs |-> <<Recv("client", "q")>> \o PostCreate(e, i)]))>>

\* advanced/raw_subroutines: the same, in a loop of a subroutine written by hand.
RawPairs(make, e) ==
    <<Flush(FlattenSeq([i \in 1 .. e.num_pairs |-> <<make, MeasureInto(0, "outcome", i)>>]))>>
RawAlice(e) == RawPairs(Create("bob", 0), e)
RawBob(e) == RawPairs(Recv("alice", 0), e)

\* The same with pairs that the network stacks measure.
MeasureDirectly(make, i) == <<make, MeasureInto("q", "outcome", i)>>
MeasureClient(e) ==
    <<Flush(FlattenSeq([i \in 1 .. e.num_pairs |-> MeasureDirectly(Create("server", "q"), i)]))>>
MeasureServer(e) ==
    <<Flush(FlattenSeq([i \in 1 .. e.num_pairs |-> MeasureDirectly(Recv("client", "q"), i)]))>>

\* tutorial/1_Basics: a message and a pair; Alice also makes a pair of her own.
BasicsAlice(e) ==
    << ToSend("bob", Signal),
       Flush(<<Create("bob", "q"), H("q"), MeasureInto("q", "outcome", 1)>>),
       Flush(<<NewQubit("local0"), NewQubit("local1"), H("local0"), Two("cnot", "local0", "local1"),
               MeasureQ("local0", "r0"), MeasureQ("local1", "r1")>>) >>
BasicsBob(e) ==
    << ToReceive("alice", "signal"),
       Flush(<<Recv("alice", "q"), H("q"), MeasureInto("q", "outcome", 1)>>) >>

\* tutorial/3.1_output: a flush for each round.
OutputAlice(e) ==
    [i \in 1 .. e.num_epr |->
        Flush(<<Create("bob", "q"), H("q"), MeasureInto("q", "outcome", i)>>)]
OutputBob(e) ==
    [i \in 1 .. e.num_epr |->
        Flush(<<Recv("alice", "q"), H("q"), MeasureInto("q", "outcome", i)>>)]

-----------------------------------------------------------------------------
(* What the NV processor does to measure a carbon, which only the electron,  *)
(* qubit 0, can be.  Its carbon 1 is half of a pair, and so may its electron *)
(* be: whatever holds for these holds for any state of them.                 *)

Init0(q) == <<Free(q), NewQubit(q)>>

MoveElectronToCarbon(carbon) ==
    Init0(carbon) \o <<Rot("Y", 0, 1), CRot("Y", 0, carbon, -1), Rot("X", 0, -1), CRot("X", 0, carbon, 1)>>

MoveCarbonToElectron(carbon) ==
    Init0(0) \o <<Rot("Y", 0, 1), CRot("Y", 0, carbon, -1), Rot("X", 0, -1), CRot("X", 0, carbon, 1),
                  Rot("Y", 0, -1)>>

\* An electron in use is first moved to a free carbon.
InterpretMeas(carbon, e) ==
    (IF e.electron THEN MoveElectronToCarbon(2) ELSE <<>>)
    \o MoveCarbonToElectron(carbon) \o <<Free(carbon), MeasureQ(0, "m")>>

-----------------------------------------------------------------------------
(* Which programs run together.                                              *)

Line == <<"start", "middle", "end">>

Program(name, n, e) ==
    CASE name = "bqc" -> (IF n = "client" THEN AppClient(e) ELSE AppServer(e))
      [] name = "bqc_trap" -> (IF n = "client" THEN TrapClient(e) ELSE TrapServer(e))
      [] name = "bqc_nv" -> (IF n = "client" THEN NvClient(e) ELSE NvServer(e))
      [] name = "bqc_5_2" -> (IF n = "client" THEN Client52(e) ELSE Server52(e))
      [] name = "bqc_5_3" -> (IF n = "client" THEN Client53(e) ELSE Server53(e))
      [] name = "bqc_5_4" -> (IF n = "client" THEN Client54(e) ELSE Server54(e))
      [] name = "raw_bqc" -> (IF n = "client" THEN RawBqcClient(e) ELSE RawBqcServer(e))
      [] name = "raw_pairs" -> (IF n = "alice" THEN RawAlice(e) ELSE RawBob(e))
      [] name = "teleport" -> (IF n = "sender" THEN TeleportSender(e) ELSE TeleportReceiver(e))
      [] name = "use_teleport" ->
             (IF n = "sender" THEN UseTeleportSender(e) ELSE UseTeleportReceiver(e))
      [] name = "cnot" -> (IF n = "controller" THEN Controller(e) ELSE Target(e))
      [] name = "use_cnot" -> (IF n = "controller" THEN UseController(e) ELSE UseTarget(e))
      [] name = "swap" -> (CASE n = "alice" -> SwapAlice(e) [] n = "bob" -> SwapBob(e)
                             [] n = "charlie" -> SwapCharlie(e))
      [] name = "ghz" -> GhzProgram(Line, n, e)
      [] name = "qkd" -> (IF n = "alice" THEN AliceQkd(e) ELSE BobQkd(e))
      [] name = "use_qkd" -> (IF n = "alice" THEN KeySender(e) ELSE KeyReceiver(e))
      [] name = "pad" -> (IF n = "alice" THEN PadAlice(e) ELSE PadBob(e))
      [] name = "square" -> (IF n = "player1" THEN Player1(e) ELSE Player2(e))
      [] name = "keep" -> (IF n = "client" THEN KeepClient(e) ELSE KeepServer(e))
      [] name = "measure" -> (IF n = "client" THEN MeasureClient(e) ELSE MeasureServer(e))
      [] name = "nv_meas" ->
             (IF n = "nv"
              THEN <<Flush(<<Recv("peer", 1)>> \o Only(e.electron, <<Recv("peer", 0)>>)
                           \o InterpretMeas(1, e))>>
              ELSE <<Flush(<<Create("nv", "q1")>> \o Only(e.electron, <<Create("nv", "q0")>>))>>)
      [] name = "basics" -> (IF n = "alice" THEN BasicsAlice(e) ELSE BasicsBob(e))
      [] name = "output" -> (IF n = "alice" THEN OutputAlice(e) ELSE OutputBob(e))

-----------------------------------------------------------------------------
(* Correctness, once all programs have returned.                             *)

Returned == \A n \in Nodes : Ended(n)
Plus(q, sign) == {Identity, Observable(On("X", {q}), sign)}

\* What the server measures is what it would measure without the client's angles and
\* bits to hide behind, whatever these are and whatever was measured before; where
\* alpha and beta leave a choice, nothing is claimed.  In a trap round the outcome at
\* the qubit that is not the dummy tells whether the server is honest.  The subroutines
\* written by hand prepare the same two qubits.
BlindComputation ==
    LET client == env["client"]
        server == env["server"]
        Hidden == client.alpha % 2 = 1 /\ client.beta % 2 = 1
        outcome == IF client.alpha = client.beta THEN 0 ELSE 1
    IN  /\ app.name = "raw_bqc" /\ Ended("client") /\ pc["server"] = 2 /\ op["server"] = 1 =>
               state = CPhase(With(Plus(<<"server", 0>>, client.p2), Plus(<<"server", 1>>, client.p1)),
                              <<"server", 0>>, <<"server", 1>>)
        /\ Returned =>
            /\ app.name \in {"bqc", "bqc_trap", "bqc_nv"} =>
                   /\ ~client.trap /\ Hidden => server.m2 = (outcome + client.r2) % 2
                   /\ Dummy(client, 1) => server.m2 = (client.p1 + client.r2) % 2
                   /\ Dummy(client, 2) => server.m1 = (client.p2 + client.r1) % 2
            /\ app.name = "bqc_5_2" /\ Hidden => server.m2 = outcome
            /\ app.name = "bqc_5_3" /\ client.theta1 % 2 = 0 =>
                   server.m2 = (client.theta1 \div 2 + client.p1) % 2
            /\ app.name = "bqc_5_4" /\ client.alpha % 2 = 0 =>
                   server.m2 = (client.alpha \div 2 + client.r1) % 2

\* get_reference_state
ReferenceState(q, e) ==
    LET Axis(p) == Observable(On(p, {q}), 0)
    IN  Turn(Turn(Zero(q), Axis("Y"), e.theta), Axis("Z"), e.phi)

\* A teleported qubit arrives in the state it was sent in, and a CNOT or CPhase over a
\* pair does what the gate does to any two qubits: no outcome is left uncorrected.  A
\* carbon that an NV node measures by way of its electron gives the outcome that the
\* carbon would have given, and the electron's own qubit is unharmed in its new place.
Transferred ==
    Returned =>
        /\ app.name = "nv_meas" =>
               LET q1 == Observable(On("Z", {<<"peer", "q1">>}), env["nv"].m)
               IN  state = With({Identity, q1},
                                IF env["nv"].electron THEN Pair(<<"peer", "q0">>, <<"nv", 2>>)
                                                      ELSE NoQubits)
        /\ app.name \in {"teleport", "use_teleport"} =>
               state = ReferenceState(<<"receiver", "epr">>, env["sender"])
        /\ app.name \in {"cnot", "use_cnot"} =>
               LET ctrl == <<"controller", "ctrl">>
                   target == <<"target", "target">>
                   before == With(ReferenceState(ctrl, env["controller"]),
                                  ReferenceState(target, env["target"]))
               IN  state = IF env["target"].gate = "cnot" THEN CNot(before, ctrl, target)
                                                          ELSE CPhase(before, ctrl, target)

\* Without noise both ends of a pair give the same key, message or outcomes (opposite
\* ones in the Y basis), also over a chain of pairs or a GHZ state.
SameOutcomes ==
    Returned =>
        /\ app.name = "qkd" => env["alice"].raw_key = env["bob"].raw_key
        /\ app.name = "use_qkd" /\ Len(env["alice"].raw_key) >= Len(env["alice"].bit_msg) =>
               env["bob"].bit_msg = Padded(env["alice"].bit_msg, Len(env["bob"].raw_key))
        /\ app.name = "pad" => env["bob"].received = env["alice"].message
        /\ app.name \in {"basics", "output", "raw_pairs"} => env["alice"].outcome = env["bob"].outcome
        /\ app.name = "basics" => env["alice"].r0 = env["alice"].r1
        /\ app.name = "swap" => env["bob"].result = env["charlie"].result
        /\ app.name = "ghz" => \A n, m \in Nodes : env[n].result = env[m].result
        /\ app.name \in {"keep", "measure"} =>
               \A i \in 1 .. env["client"].num_pairs :
                   (env["client"].outcome[i] = env["server"].outcome[i])
                   <=> ~(app.name = "keep" /\ env["client"].in = "Y")

\* The players always win: the row is even, the column odd, and both have the same
\* outcome where they meet, although the second measures all of its qubits at once.
SquareWon ==
    Returned /\ app.name = "square" =>
        LET row == env["player1"]
            col == env["player2"]
        IN  /\ (row.m0 + row.m1 + row.m2) % 2 = 0
            /\ (col.m0 + col.m1 + col.m2) % 2 = 1
            /\ Square(col).mine = Square(col).other

\* Messages and pairs are awaited in an order that both ends follow: every program
\* returns, and has received all that it was sent - but for a key that turned out
\* shorter than the message, which raises.
Raised == app.name = "use_qkd" /\ Ended("alice") /\ Len(env["alice"].raw_key) < Len(env["alice"].bit_msg)
Completion ==
    <>(\/ Returned /\ \A n, m \in Nodes : chan[n][m] = <<>>
       \/ Raised)
=============================================================================
