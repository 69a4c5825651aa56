------------------------------ MODULE SingleThread ------------------------------
(***************************************************************************)
(* The single-threaded runtime (run/singlethread, nqasm/singlethread): a   *)
(* host protocol and a QNodeOS protocol for each of two programs, the      *)
(* listeners of their ports, and run_protocols, which runs the programs    *)
(* for some rounds.                                                        *)
(*                                                                         *)
(* A protocol runs without interruption until it yields: `turn` lists the  *)
(* protocols that run, the first before the others.  What else is done in  *)
(* an instant - messages that arrive, signals of listeners - is done in an *)
(* order that the simulator chooses; only then does time go on.            *)
(***************************************************************************)
EXTENDS Integers, Sequences, FiniteSets, SequencesExt

CONSTANTS
    Nodes,
    Peer,           \* Peer[n]: the other node
    Sockets,        \* the pairs of EPR sockets
    Subroutines,    \* Subroutines[x]: what x does, [kind, socket]
    Programs        \* what may be run: [code, rounds, orderly], the ops of each node
                    \* and whether sockets are opened in an order that can work

\* A host's program: `enter` and `exit` of a connection, `setup` of a socket by
\* the host itself, `flush` of a subroutine by a connection with these sockets,
\* `send` and `recv` of classical messages.
Op(kind, arg, sockets) == [kind |-> kind, arg |-> arg, sockets |-> sockets]

IsOp(op) ==
    /\ op = Op(op.kind, op.arg, op.sockets)
    /\ op.sockets \in Seq(Sockets)
    /\ \/ op.kind \in {"enter", "exit", "recv"}
       \/ op.kind = "setup" /\ op.arg \in Sockets
       \/ op.kind = "flush" /\ op.arg \in DOMAIN Subroutines
       \/ op.kind = "send" /\ op.arg \in Nat

\* Two programs that are each other's peer.
ASSUME SingleThreadAssumption ==
    /\ IsFiniteSet(Nodes)
    /\ Peer \in [Nodes -> Nodes] /\ \A n \in Nodes : Peer[Peer[n]] = n
    /\ \A p \in Programs : \A n \in Nodes :
          /\ p.code[n] \in Seq(Range(p.code[n]))
          /\ \A i \in DOMAIN p.code[n] : IsOp(p.code[n][i])

\* A program has one connection: it enters it before it uses it, exits it after.
Talks(op) == op.kind \in {"enter", "flush", "exit"}
OneConnection(code) ==
    \A i \in DOMAIN code : Talks(code[i]) =>
        /\ \E j \in DOMAIN code : code[j].kind = "enter"
        /\ \A j \in DOMAIN code : /\ code[j].kind = "enter" => j =< i
                                  /\ code[j].kind = "exit" => i =< j

\* A subroutine that makes or uses a pair names a socket of its connection, or one
\* that the host has set up before.
SocketsNamed(code) ==
    \A i \in DOMAIN code :
        LET sub == Subroutines[code[i].arg]
        IN  code[i].kind = "flush" /\ sub.kind \in {"create", "recv"} =>
                \/ sub.socket \in Range(code[i].sockets)
                \/ \E j \in 1 .. i - 1 : code[j].kind = "setup" /\ code[j].arg = sub.socket

\* The messages that a program sends are called 1, 2, ...
Numbered(code) ==
    \A i \in DOMAIN code : code[i].kind = "send" =>
        code[i].arg = Cardinality({j \in 1 .. i : code[j].kind = "send"})

ASSUME ProgramsAssumption ==
    \A p \in Programs : \A n \in Nodes :
        OneConnection(p.code[n]) /\ SocketsNamed(p.code[n]) /\ Numbered(p.code[n])

\* Listeners: HostPeerListener, ResultsListener, QNodeOsListener.
Listeners == Nodes \X {"peer", "result", "host"}
Protocols == Nodes \X {"Host", "QNodeOs"}

VARIABLES
    program,        \* what is run; never changes
    main,           \* run_protocols: "start", "run", "end" or "raised"
    round,
    turn,           \* protocols that are to run now, in this order
    at,             \* what protocol p does: at[p] = <<"receive", l>> if it wants a message
                    \* of its listener l, "await" if it has yielded for it, "woken" after
    pc,             \* pc[n]: the position in n's program
    opened,         \* _epr_sck_status: the sockets that are opened
    current,        \* the message that the QNodeOS protocol handles
    got,            \* the classical messages that the programs have received
    finished,       \* finished[n]: HostProtocol._result, named by its round
    results,        \* run_protocols: the results of all rounds
    wire, port,     \* messages on the way to a listener, and at its port
    buffer,         \* its buffer
    signals,        \* events it has scheduled that are still pending
    on,             \* listeners that are started
    sentNow,        \* messages sent to a listener since time last went on
    circuits,       \* the halves of circuits, <<node, sockets, round of the setup>>
    pairs,          \* pairs[s]: pairs that the receiver at sockets s has not used yet
    handled,        \* handled[n]: messages handled in this round
    fault

hostvars == <<pc, opened, got, finished>>
qnosvars == <<current, circuits, pairs, handled>>
channels == <<wire, port, buffer, signals, on, sentNow>>
mainvars == <<program, main, round, results>>
vars == <<mainvars, turn, at, hostvars, qnosvars, channels, fault>>

Nothing == [kind |-> "none", arg |-> 0, sockets |-> <<>>]

Init ==
    /\ program \in Programs
    /\ main = "start"
    /\ round = 0
    /\ turn = <<>>
    /\ at = [p \in Protocols |-> <<"off", "">>]
    /\ pc = [n \in Nodes |-> 0]
    /\ opened = [n \in Nodes |-> {}]
    /\ current = [n \in Nodes |-> Nothing]
    /\ got = [n \in Nodes |-> <<>>]
    /\ finished = [n \in Nodes |-> 0]
    /\ results = <<>>
    /\ wire = [l \in Listeners |-> <<>>]
    /\ port = wire
    /\ buffer = wire
    /\ signals = [l \in Listeners |-> 0]
    /\ on = {}
    /\ sentNow = signals
    /\ circuits = {}
    /\ pairs = [s \in Sockets |-> 0]
    /\ handled = [n \in Nodes |-> 0]
    /\ fault = {}

Running == main = "run"
Turn(p) == Running /\ turn # <<>> /\ Head(turn) = p

\* tx_output.
Sent(l, m) ==
    /\ wire' = [wire EXCEPT ![l] = Append(@, m)]
    /\ sentNow' = [sentNow EXCEPT ![l] = @ + 1]
    /\ UNCHANGED <<port, buffer, signals, on>>

-----------------------------------------------------------------------------
(* run_protocols.                                                            *)

StartMain(order) ==
    /\ main' = "run"
    /\ round' = round + 1
    /\ turn' = order
    /\ at' = [p \in Protocols |-> IF p[2] = "Host" THEN <<"run", "">>
                                                    ELSE <<"receive", "host">>]
    /\ on' = Listeners
    /\ pc' = [n \in Nodes |-> 1]
    /\ opened' = [n \in Nodes |-> {}]
    /\ got' = [n \in Nodes |-> <<>>]
    /\ handled' = [n \in Nodes |-> 0]
    /\ sentNow' = [l \in Listeners |-> 0]
    /\ UNCHANGED <<program, results, finished, current, pairs, wire, port, buffer, signals,
                   fault>>

\* The protocols are started in this order, a QNodeOS before its host.
Order == [i \in 1 .. 2 * Cardinality(Nodes) |->
             <<SetToSeq(Nodes)[(i + 1) \div 2], IF i % 2 = 1 THEN "QNodeOs" ELSE "Host">>]

\* Mutant of StartRound: the network is not reset.
StartRoundKeepsNetwork ==
    /\ main = "start"
    /\ StartMain(Order)
    /\ UNCHANGED circuits

\* A round begins: reset_memories, reset_network, and start of all protocols,
\* which run up to their first yield.  Buffers keep what is left in them.
StartRound ==
    /\ main = "start"
    /\ StartMain(Order)
    /\ circuits' = {}

\* Nothing is left to be done in this instant, and no protocol waits for time.
Quiet == /\ turn = <<>>
         /\ \A l \in Listeners : wire[l] = <<>> /\ signals[l] = 0
Waits(p) == at[p][1] \in {"setup", "executing"}

\* Time goes on until p, which sleeps or executes a subroutine, runs again; the
\* time of others may have come in the same instant.
Sleep(p) ==
    /\ Running
    /\ Quiet
    /\ Waits(p)
    /\ \E others \in SetToAllKPermutations({q \in Protocols \ {p} : Waits(q)}) :
          turn' = <<p>> \o others
    /\ sentNow' = [l \in Listeners |-> 0]
    /\ UNCHANGED <<mainvars, at, hostvars, qnosvars, wire, port, buffer, signals, on, fault>>

\* Mutant of EndRound: the simulation is not run until all protocols are done.
EndRoundEarly ==
    /\ Running
    /\ Quiet
    /\ results' = Append(results, finished)
    /\ main' = IF round = program.rounds THEN "end" ELSE "start"
    /\ at' = [p \in Protocols |-> <<"off", "">>]
    /\ on' = {}
    /\ UNCHANGED <<program, round, turn, hostvars, qnosvars, wire, port, buffer, signals,
                   sentNow, fault>>

\* No event is left and sim_run returns: results are collected, all is stopped.
EndRound ==
    /\ Running
    /\ Quiet
    /\ \A p \in Protocols : ~Waits(p)
    /\ results' = Append(results, finished)
    /\ main' = IF round = program.rounds THEN "end" ELSE "start"
    /\ at' = [p \in Protocols |-> <<"off", "">>]
    /\ on' = {}
    /\ UNCHANGED <<program, round, turn, hostvars, qnosvars, wire, port, buffer, signals,
                   sentNow, fault>>

-----------------------------------------------------------------------------
(* The listeners.                                                            *)

\* A message arrives; a listener that has not been stopped reads one message of
\* the port, adds it to its buffer and schedules its event.
Listen(l) ==
    LET queue == port[l] \o <<Head(wire[l])>>
    IN  /\ Running /\ turn = <<>>
        /\ wire[l] # <<>>
        /\ wire' = [wire EXCEPT ![l] = Tail(@)]
        /\ IF l \in on
           THEN /\ port' = [port EXCEPT ![l] = Tail(queue)]
                /\ buffer' = [buffer EXCEPT ![l] = Append(@, Head(queue))]
                /\ signals' = [signals EXCEPT ![l] = @ + 1]
           ELSE /\ port' = [port EXCEPT ![l] = queue]
                /\ UNCHANGED <<buffer, signals>>
        /\ UNCHANGED <<mainvars, turn, at, hostvars, qnosvars, on, sentNow, fault>>

\* The protocol that waits for the event of listener l.
Reader(l) == IF l[2] = "host" THEN <<l[1], "QNodeOs">> ELSE <<l[1], "Host">>

\* Its event happens: a reader that waits for it is woken.
Wakes(l, waits) ==
    LET p == Reader(l)
    IN  /\ Running /\ turn = <<>>
        /\ signals[l] > 0
        /\ signals' = [signals EXCEPT ![l] = @ - 1]
        /\ turn' = IF waits THEN <<p>> ELSE <<>>
        /\ at' = IF waits THEN [at EXCEPT ![p] = <<"woken", @[2]>>] ELSE at
        /\ UNCHANGED <<mainvars, hostvars, qnosvars, wire, port, buffer, on, sentNow, fault>>

\* Mutant of Signal: the listeners of a host share one event type.
SignalAny(l) == Wakes(l, at[Reader(l)][1] = "await")

Signal(l) == Wakes(l, at[Reader(l)] = <<"await", l[2]>>)

\* Mutant of Await: it yields whatever is in the buffer.
AwaitAlways(p) ==
    LET l == <<p[1], at[p][2]>>
    IN  /\ Turn(p)
        /\ at[p][1] = "receive"
        /\ at' = [at EXCEPT ![p] = <<"await", l[2]>>]
        /\ turn' = Tail(turn)
        /\ UNCHANGED <<mainvars, hostvars, qnosvars, channels, fault>>

\* len(buffer) == 0: yield for the listener's event.
Await(p) ==
    LET l == <<p[1], at[p][2]>>
    IN  /\ Turn(p)
        /\ at[p][1] = "receive"
        /\ buffer[l] = <<>>
        /\ at' = [at EXCEPT ![p] = <<"await", l[2]>>]
        /\ turn' = Tail(turn)
        /\ UNCHANGED <<mainvars, hostvars, qnosvars, channels, fault>>

\* A protocol that was woken takes for granted that there is a message.
PopEmpty(p) ==
    LET l == <<p[1], at[p][2]>>
    IN  /\ Turn(p)
        /\ at[p][1] = "woken"
        /\ buffer[l] = <<>>
        /\ fault' = fault \cup {<<"IndexError", l>>}
        /\ main' = "raised"
        /\ UNCHANGED <<program, round, results, turn, at, hostvars, qnosvars, channels>>

\* buffer.pop(0) of listener l by protocol p.
Pops(p, l) ==
    /\ Turn(p)
    /\ at[p] \in {<<"receive", l[2]>>, <<"woken", l[2]>>}
    /\ buffer[l] # <<>>

Popped(l) ==
    /\ buffer' = [buffer EXCEPT ![l] = Tail(@)]
    /\ UNCHANGED <<wire, port, signals, on, sentNow>>

-----------------------------------------------------------------------------
(* The host protocol, its connection and its sockets.                        *)

Host(n) == <<n, "Host">>
HostOp(n) == IF pc[n] \in DOMAIN program.code[n] THEN program.code[n][pc[n]] ELSE Nothing

\* The program is at an operation of this kind.
HostRuns(n, kind) ==
    /\ Turn(Host(n))
    /\ at[Host(n)] = <<"run", "">>
    /\ HostOp(n).kind = kind

Commit(n, kind, arg) ==
    Sent(<<n, "host">>, [kind |-> kind, arg |-> arg, sockets |-> HostOp(n).sockets])

NextOp(n) == pc' = [pc EXCEPT ![n] = @ + 1]

\* __enter__ of the connection, or _send_init_app_msg.
Enter(n) ==
    /\ HostRuns(n, "enter")
    /\ Commit(n, "init", 0)
    /\ NextOp(n)
    /\ UNCHANGED <<mainvars, turn, at, opened, got, finished, qnosvars, fault>>

\* A program that has no connection has its executor set up its socket.
HostSetup(n) ==
    /\ HostRuns(n, "setup")
    /\ circuits' = circuits \cup {<<n, HostOp(n).arg, round>>}
    /\ at' = [at EXCEPT ![Host(n)] = <<"setup", "">>]
    /\ UNCHANGED <<mainvars, turn, hostvars, current, pairs, handled, channels, fault>>

\* The connection's i-th socket is the first that is not opened yet.
NextSocket(n, i) ==
    /\ HostOp(n).sockets[i] \notin opened[n]
    /\ \A j \in 1 .. i - 1 : HostOp(n).sockets[j] \in opened[n]

\* commit_protosubroutine: open the sockets one by one, then send the subroutine;
\* wait for an answer to each.
Flush(n) ==
    /\ HostRuns(n, "flush")
    /\ \/ \E i \in DOMAIN HostOp(n).sockets :
             /\ NextSocket(n, i)
             /\ Commit(n, "open", HostOp(n).sockets[i])
             /\ opened' = [opened EXCEPT ![n] = @ \cup {HostOp(n).sockets[i]}]
             /\ UNCHANGED pc
       \/ /\ \A i \in DOMAIN HostOp(n).sockets : HostOp(n).sockets[i] \in opened[n]
          /\ Commit(n, "subroutine", HostOp(n).arg)
          /\ NextOp(n)
          /\ UNCHANGED opened
    /\ at' = [at EXCEPT ![Host(n)] = <<"receive", "result">>]
    /\ UNCHANGED <<mainvars, turn, got, finished, qnosvars, fault>>

\* _wait_for_results, _receive_results.
ReceiveResult(n) ==
    /\ Pops(Host(n), <<n, "result">>)
    /\ Popped(<<n, "result">>)
    /\ at' = [at EXCEPT ![Host(n)] = <<"run", "">>]
    /\ UNCHANGED <<mainvars, turn, hostvars, qnosvars, fault>>

SendClassical(n) ==
    /\ HostRuns(n, "send")
    /\ Sent(<<Peer[n], "peer">>, <<round, HostOp(n).arg>>)
    /\ NextOp(n)
    /\ UNCHANGED <<mainvars, turn, at, opened, got, finished, qnosvars, fault>>

RecvClassical(n) ==
    /\ HostRuns(n, "recv")
    /\ at' = [at EXCEPT ![Host(n)] = <<"receive", "peer">>]
    /\ UNCHANGED <<mainvars, turn, hostvars, qnosvars, channels, fault>>

GotClassical(n) ==
    /\ Pops(Host(n), <<n, "peer">>)
    /\ Popped(<<n, "peer">>)
    /\ got' = [got EXCEPT ![n] = Append(@, Head(buffer[<<n, "peer">>]))]
    /\ at' = [at EXCEPT ![Host(n)] = <<"run", "">>]
    /\ NextOp(n)
    /\ UNCHANGED <<mainvars, turn, opened, finished, qnosvars, fault>>

\* __exit__: the generator of flush() is not run, so what is pending is dropped.
Exit(n) ==
    /\ HostRuns(n, "exit")
    /\ Commit(n, "stop", 0)
    /\ NextOp(n)
    /\ UNCHANGED <<mainvars, turn, at, opened, got, finished, qnosvars, fault>>

\* The program returns its result.
Return(n) ==
    /\ HostRuns(n, "none")
    /\ finished' = [finished EXCEPT ![n] = round]
    /\ at' = [at EXCEPT ![Host(n)] = <<"ended", "">>]
    /\ turn' = Tail(turn)
    /\ UNCHANGED <<mainvars, pc, opened, got, qnosvars, channels, fault>>

-----------------------------------------------------------------------------
(* The QNodeOS protocol.                                                     *)

QNodeOs(n) == <<n, "QNodeOs">>
Loop(n) == at' = [at EXCEPT ![QNodeOs(n)] = <<"receive", "host">>]

\* Both nodes have set up socket s: the circuit is there.
HasCircuit(s) == \A n \in Nodes : \E r \in 1 .. round : <<n, s, r>> \in circuits

\* run: _receive_init_msg first, then any message.
ReceiveMsg(n) ==
    LET m == Head(buffer[<<n, "host">>])
    IN  /\ Pops(QNodeOs(n), <<n, "host">>)
        /\ Popped(<<n, "host">>)
        /\ current' = [current EXCEPT ![n] = m]
        /\ at' = [at EXCEPT ![QNodeOs(n)] = <<m.kind, "">>]
        /\ UNCHANGED <<mainvars, turn, hostvars, circuits, pairs, handled, fault>>

QnosRuns(n, kind) == Turn(QNodeOs(n)) /\ at[QNodeOs(n)] = <<kind, "">>

\* The message is handled; the host is told with SUBRT_FINISHED.
Handled(n) == handled' = [handled EXCEPT ![n] = @ + 1]
Answer(n) == Handled(n) /\ Sent(<<n, "result">>, current[n])

HandleInit(n) ==
    /\ QnosRuns(n, "init")
    /\ Handled(n)
    /\ Loop(n)
    /\ UNCHANGED <<mainvars, turn, hostvars, current, circuits, pairs, channels, fault>>

\* Mutant of HandleOpen: it answers before the socket is set up.
HandleOpenAnswers(n) ==
    /\ QnosRuns(n, "open")
    /\ circuits' = circuits \cup {<<n, current[n].arg, round>>}
    /\ Sent(<<n, "result">>, current[n])
    /\ at' = [at EXCEPT ![QNodeOs(n)] = <<"setup", "">>]
    /\ UNCHANGED <<mainvars, turn, hostvars, current, pairs, handled, fault>>

\* setup_epr_socket begins.
HandleOpen(n) ==
    /\ QnosRuns(n, "open")
    /\ circuits' = circuits \cup {<<n, current[n].arg, round>>}
    /\ at' = [at EXCEPT ![QNodeOs(n)] = <<"setup", "">>]
    /\ UNCHANGED <<mainvars, turn, hostvars, current, pairs, handled, channels, fault>>

\* The sockets that protocol p sets up.
SettingUp(p) == IF p[2] = "Host" THEN HostOp(p[1]).arg ELSE current[p[1]].arg
Polls(p) == Turn(p) /\ at[p] = <<"setup", "">>

\* _wait_for_remote_node: it need not wait at all if the other node came first.
SetupDone(n) ==
    LET p == QNodeOs(n)
    IN  /\ Polls(p) /\ HasCircuit(SettingUp(p))
        /\ Answer(n)
        /\ Loop(n)
        /\ UNCHANGED <<mainvars, turn, hostvars, current, circuits, pairs, fault>>

HostSetupDone(n) ==
    LET p == Host(n)
    IN  /\ Polls(p) /\ HasCircuit(SettingUp(p))
        /\ at' = [at EXCEPT ![p] = <<"run", "">>]
        /\ NextOp(n)
        /\ UNCHANGED <<mainvars, turn, opened, got, finished, qnosvars, channels, fault>>

PollAgain(p) ==
    /\ Polls(p) /\ ~HasCircuit(SettingUp(p))
    /\ turn' = Tail(turn)
    /\ UNCHANGED <<mainvars, at, hostvars, qnosvars, channels, fault>>

Subroutine(n) == Subroutines[current[n].arg]
NoPair(n) == Subroutine(n).kind = "recv" /\ pairs[Subroutine(n).socket] = 0

\* The wait for the other node ends when nothing else can go on.
Timeout(p) ==
    /\ Polls(p) /\ ~HasCircuit(SettingUp(p))
    /\ Tail(turn) = <<>>
    /\ \A l \in Listeners : wire[l] = <<>> /\ signals[l] = 0
    /\ \A q \in Protocols : Waits(q) =>
           IF at[q][1] = "setup" THEN ~HasCircuit(SettingUp(q)) ELSE NoPair(q[1])
    /\ fault' = fault \cup {<<"TimeoutError", p>>}
    /\ main' = "raised"
    /\ UNCHANGED <<program, round, results, turn, at, hostvars, qnosvars, channels>>

\* execute_subroutine takes time unless its instructions take none.
ExecuteSubroutine(n) ==
    LET p == QNodeOs(n)
    IN  /\ \/ QnosRuns(n, "subroutine") /\ Subroutine(n).kind # "quick"
           \/ QnosRuns(n, "executing") /\ NoPair(n)
        /\ at' = [at EXCEPT ![p] = <<"executing", "">>]
        /\ turn' = Tail(turn)
        /\ UNCHANGED <<mainvars, hostvars, qnosvars, channels, fault>>

\* What it did: one that creates or receives entanglement makes or uses a pair.
FinishSubroutine(n) ==
    LET sub == Subroutine(n)
    IN  /\ \/ QnosRuns(n, "subroutine") /\ sub.kind = "quick"
           \/ QnosRuns(n, "executing") /\ ~NoPair(n)
        /\ pairs' = CASE sub.kind = "create" -> [pairs EXCEPT ![sub.socket] = @ + 1]
                      [] sub.kind = "recv" -> [pairs EXCEPT ![sub.socket] = @ - 1]
                      [] OTHER -> pairs
        /\ Answer(n)
        /\ Loop(n)
        /\ UNCHANGED <<mainvars, turn, hostvars, current, circuits, fault>>

\* stop_application; the protocol stops itself and its listener.
HandleStop(n) ==
    /\ QnosRuns(n, "stop")
    /\ Handled(n)
    /\ at' = [at EXCEPT ![QNodeOs(n)] = <<"off", "">>]
    /\ turn' = Tail(turn)
    /\ on' = on \ {<<n, "host">>}
    /\ UNCHANGED <<mainvars, hostvars, current, circuits, pairs, wire, port, buffer, signals,
                   sentNow, fault>>

HostNext(n) ==
    \/ Enter(n) \/ HostSetup(n) \/ HostSetupDone(n) \/ Flush(n) \/ ReceiveResult(n)
    \/ SendClassical(n) \/ RecvClassical(n) \/ GotClassical(n) \/ Exit(n) \/ Return(n)

QnosNext(n) ==
    \/ ReceiveMsg(n) \/ HandleInit(n) \/ HandleOpen(n) \/ SetupDone(n)
    \/ ExecuteSubroutine(n) \/ FinishSubroutine(n) \/ HandleStop(n)

Events ==
    \/ StartRound \/ EndRound
    \/ \E l \in Listeners : Listen(l) \/ Signal(l)
    \/ \E p \in Protocols : Await(p) \/ PopEmpty(p) \/ PollAgain(p) \/ Timeout(p)
    \/ \E n \in Nodes : HostNext(n) \/ QnosNext(n)

Next == Events \/ \E p \in Protocols : Sleep(p)

\* The simulator goes on as long as there are events, and time goes on for everyone.
Fairness == WF_vars(Events) /\ \A p \in Protocols : SF_vars(Sleep(p))

Spec == Init /\ [][Next]_vars
FairSpec == Spec /\ Fairness

-----------------------------------------------------------------------------
(* Correctness.                                                              *)

OpsOf(n, kind) == {i \in DOMAIN program.code[n] : program.code[n][i].kind = kind}

\* A program goes on after flush() only when its QNodeOS has handled everything
\* that it committed before: the shared memory it then reads is up to date.
Answered ==
    \A n \in Nodes :
        LET answers == Cardinality({i \in OpsOf(n, "flush") : i < pc[n]})
                       + Cardinality(opened[n])
                       - IF at[Host(n)][2] = "result" THEN 1 ELSE 0
        IN  answers > 0 => handled[n] >= answers + Cardinality(OpsOf(n, "enter"))

\* A subroutine that uses a socket runs when both of its ends have been set up in
\* this round: a circuit of the round before is none.
SocketsReady ==
    \A n \in Nodes :
        at[QNodeOs(n)][1] = "executing" /\ Subroutine(n).kind \in {"create", "recv"} =>
            \A x \in Nodes : <<x, Subroutine(n).socket, round>> \in circuits

\* Listeners keep their buffers over rounds.  Programs that receive all that they
\* are sent find them empty in the next round, and messages come in order.
OwnRound ==
    (\A n \in Nodes : Cardinality(OpsOf(n, "recv")) = Cardinality(OpsOf(Peer[n], "send")))
    => \A n \in Nodes : \A i \in DOMAIN got[n] : got[n][i] = <<round, i>>

\* Two messages were sent in this instant to protocol p, which listens to both.
Crowded(p) ==
    \E l, k \in Listeners :
        /\ Reader(l) = p /\ Reader(k) = p
        /\ sentNow[l] > 0 /\ sentNow[k] > 0
        /\ l = k => sentNow[l] > 1

\* A protocol finds its buffer empty only if two messages were sent to it in the same
\* instant: it took one from a buffer before the event that the message was announced by.
CrowdedFaults == \A f \in fault : f[1] = "IndexError" => Crowded(Reader(f[2]))

\* Otherwise every round ends with the result that each program returned in it,
\* not one that get_result() still has from an earlier round.
Completion ==
    program.orderly =>
        <>(\/ \E f \in fault : f[1] = "IndexError"
           \/ main = "end" /\ \A r \in DOMAIN results, n \in Nodes : results[r][n] = r)
=============================================================================
