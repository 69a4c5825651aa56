------------------------------ MODULE Applications ------------------------------
(***************************************************************************)
(* Programs of several nodes as the program interface of the stack runs    *)
(* them (sim/stack/program.py): generators that send and receive classical *)
(* messages, and flush the quantum operations they have queued, which the  *)
(* node then executes while the program waits.                             *)
(*                                                                         *)
(* What a program does next may depend on what it has received and         *)
(* measured: Code(x, n, e) are the steps of node n of application x when   *)
(* its variables are e.  Steps that are done do not change any more.       *)
(*                                                                         *)
(* An EPR pair is made in one step when both nodes have got to it, which   *)
(* is what EprService promises of the network stacks.  Pairs are perfect.  *)
(***************************************************************************)
EXTENDS Stabilizer

CONSTANTS
    Apps,           \* [name, input]: input[n] are the initial variables of node n
    Code(_, _, _)

VARIABLES
    app,            \* the application that is run; never changes
    env,            \* env[n]: the variables of n's program
    pc, op,         \* the step n is at; in a flush also the operation
    chan,           \* chan[n][m]: messages from n to m
    state           \* of all qubits; a qubit is <<node, name>>

vars == <<app, env, pc, op, chan, state>>

Nodes == DOMAIN app.input

Init ==
    /\ app \in Apps
    /\ env = app.input
    /\ pc = [n \in Nodes |-> 1]
    /\ op = [n \in Nodes |-> 1]
    /\ chan = [n \in Nodes |-> [m \in Nodes |-> <<>>]]
    /\ state = NoQubits

Steps(n) == Code(app.name, n, env[n])
Ended(n) == pc[n] > Len(Steps(n))

\* The step of this kind that n is at, if any.
Now(n, kinds) ==
    LET steps == Steps(n)
    IN  IF pc[n] > Len(steps) THEN {} ELSE {s \in {steps[pc[n]]} : s.kind \in kinds}

Assign(e, var, i, value) ==
    IF i = 0 THEN [e EXCEPT ![var] = value] ELSE [e EXCEPT ![var][i] = value]

-----------------------------------------------------------------------------
(* The program itself.                                                       *)

Send(n, step) ==
    /\ step.kind = "send"
    /\ chan' = [chan EXCEPT ![n][step.peer] = Append(@, step.value)]
    /\ pc' = [pc EXCEPT ![n] = @ + 1]
    /\ UNCHANGED <<app, env, op, state>>

Receive(n, step) ==
    /\ step.kind = "receive"
    /\ chan[step.peer][n] # <<>>
    /\ env' = [env EXCEPT ![n] = Assign(@, step.var, 0, Head(chan[step.peer][n]))]
    /\ chan' = [chan EXCEPT ![step.peer][n] = Tail(@)]
    /\ pc' = [pc EXCEPT ![n] = @ + 1]
    /\ UNCHANGED <<app, op, state>>

\* A random choice, or a value that is kept.
Choose(n, step) ==
    /\ step.kind = "choose"
    /\ \E value \in step.from : env' = [env EXCEPT ![n] = Assign(@, step.var, 0, value)]
    /\ pc' = [pc EXCEPT ![n] = @ + 1]
    /\ UNCHANGED <<app, op, chan, state>>

-----------------------------------------------------------------------------
(* A flush: the operations queued since the last one, one after the other.   *)

Executes(n, ops, kind) == op[n] <= Len(ops) /\ ops[op[n]].kind = kind

\* An observable of qubits that n names.
OfNode(n, obs) == Observable([q \in {n} \X DOMAIN obs.pauli |-> obs.pauli[q[2]]], obs.sign)

Applied(g, o, n) ==
    CASE o.gate = "init" -> With(g, Zero(<<n, o.q>>))
      [] o.gate = "cphase" -> CPhase(g, <<n, o.q>>, <<n, o.r>>)
      [] o.gate = "cnot" -> CNot(g, <<n, o.q>>, <<n, o.r>>)
      [] o.gate = "turn" -> Turn(g, OfNode(n, o.axis), o.quarters)
      [] OTHER -> Gate(g, o.gate, <<n, o.q>>)

\* Gates of two nodes act on different qubits: all up to the next measurement or
\* pair may as well be one step.
Gates(n, ops) ==
    /\ Executes(n, ops, "gate")
    /\ LET last == CHOOSE i \in op[n] .. Len(ops) :
                       /\ \A j \in op[n] .. i : ops[j].kind = "gate"
                       /\ i < Len(ops) => ops[i + 1].kind # "gate"
       IN  /\ state' = FoldLeft(LAMBDA g, o : Applied(g, o, n), state, SubSeq(ops, op[n], last))
           /\ op' = [op EXCEPT ![n] = last + 1]
    /\ UNCHANGED <<app, env, pc, chan>>

\* A measured qubit is given back; one of which a parity is measured is kept.
Measure(n, ops) ==
    /\ Executes(n, ops, "measure")
    /\ LET o == ops[op[n]]
           obs == OfNode(n, o.obs)
       IN  \E m \in Outcomes(state, obs) :
               LET after == Measured(state, obs, m)
               IN  /\ state' = IF o.keeps THEN after ELSE Without(after, DOMAIN obs.pauli)
                   /\ env' = [env EXCEPT ![n] = Assign(@, o.var, o.index, m)]
    /\ op' = [op EXCEPT ![n] = @ + 1]
    /\ UNCHANGED <<app, pc, chan>>

\* A qubit may also be given back as it is.
FreeQubit(n, ops) ==
    /\ Executes(n, ops, "free")
    /\ state' = Without(state, {<<n, ops[op[n]].q>>})
    /\ op' = [op EXCEPT ![n] = @ + 1]
    /\ UNCHANGED <<app, env, pc, chan>>

MakePair(n, ops) ==
    /\ Executes(n, ops, "create")
    /\ LET o == ops[op[n]]
           m == o.peer
       IN  \E flush \in Now(m, {"flush"}) :
               LET p == flush.ops[op[m]]
               IN  /\ Executes(m, flush.ops, "recv") /\ p.peer = n
                   /\ state' = With(state, Pair(<<n, o.q>>, <<m, p.q>>))
                   /\ op' = [op EXCEPT ![n] = @ + 1, ![m] = @ + 1]
    /\ UNCHANGED <<app, env, pc, chan>>

EndFlush(n, ops) ==
    /\ op[n] > Len(ops)
    /\ pc' = [pc EXCEPT ![n] = @ + 1]
    /\ op' = [op EXCEPT ![n] = 1]
    /\ UNCHANGED <<app, env, chan, state>>

Next ==
    \E n \in Nodes :
        \/ \E step \in Now(n, {"send", "receive", "choose"}) :
               Send(n, step) \/ Receive(n, step) \/ Choose(n, step)
        \/ \E flush \in Now(n, {"flush"}) :
               \/ Gates(n, flush.ops) \/ Measure(n, flush.ops) \/ FreeQubit(n, flush.ops)
               \/ MakePair(n, flush.ops) \/ EndFlush(n, flush.ops)

\* The simulator runs until no event is left.
FairSpec == Init /\ [][Next]_vars /\ WF_vars(Next)

-----------------------------------------------------------------------------
(* How programs are written down.                                            *)

ToSend(peer, value) == [kind |-> "send", peer |-> peer, value |-> value]
ToReceive(peer, var) == [kind |-> "receive", peer |-> peer, var |-> var]
ToChoose(var, from) == [kind |-> "choose", var |-> var, from |-> from]
Let(var, value) == ToChoose(var, {value})
Flush(ops) == [kind |-> "flush", ops |-> ops]

Create(peer, q) == [kind |-> "create", peer |-> peer, q |-> q]
Recv(peer, q) == [kind |-> "recv", peer |-> peer, q |-> q]
MeasureInto(q, var, i) ==
    [kind |-> "measure", obs |-> Observable(On("Z", {q}), 0), keeps |-> FALSE, var |-> var, index |-> i]
MeasureQ(q, var) == MeasureInto(q, var, 0)
Parity(obs, var) == [kind |-> "measure", obs |-> obs, keeps |-> TRUE, var |-> var, index |-> 0]
Free(q) == [kind |-> "free", q |-> q]

One(gate, q) == [kind |-> "gate", gate |-> gate, q |-> q]
NewQubit(q) == One("init", q)
H(q) == One("H", q)
K(q) == One("K", q)
X(q) == One("X", q)
Z(q) == One("Z", q)
\* Angles are in quarters of a turn.
Rotation(axis, angle) == [kind |-> "gate", gate |-> "turn", axis |-> axis, quarters |-> angle % 4]
Rot(p, q, angle) == Rotation(Observable(On(p, {q}), 0), angle)
\* A rotation of r whose direction q controls.
CRot(p, q, r, angle) == Rotation(Observable((q :> "Z") @@ (r :> p), 0), angle)
Two(gate, q, r) == [kind |-> "gate", gate |-> gate, q |-> q, r |-> r]
Only(condition, ops) == IF condition THEN ops ELSE <<>>
=============================================================================
