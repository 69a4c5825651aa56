------------------------------ MODULE MultiThread ------------------------------
(***************************************************************************)
(* The multi-threaded runtime: application threads commit messages to the  *)
(* queue of their node (nqasm/multithread.py, sim/queues.py) and spin      *)
(* until they are marked as done; in the simulator thread the subroutine   *)
(* handlers (nqasm/qnodeos.py) take one message per loop and run their     *)
(* tasks from event to event; the network stacks (nqasm/netstack.py) share *)
(* the circuits of EPR sockets; and the main thread (run/multithread)      *)
(* starts the backend, runs the programs for some rounds and stops it.     *)
(*                                                                         *)
(* An action is what one thread does between two points where another can  *)
(* see or change the state: the queue and the set of finished messages are *)
(* shared between threads, the tasks between two yields of a handler.      *)
(***************************************************************************)
EXTENDS Integers, Sequences, FiniteSets, SequencesExt

CONSTANTS
    Nodes,
    Apps,           \* the programs' names
    NodeOf,         \* NodeOf[a]: the node that runs app a (the party map)
    Programs,       \* what may be run: a sequence of Ops for each app of a party, the
                    \* nodes of the network, num_rounds, whether
                    \* host and instructions take time, and whether sockets are opened in an order that can work
    Code,           \* Code[s]: the steps of subroutine s
    MaxWaiting      \* as many subroutines as a node may have to wait for at once

\* What a program does with its connection.  All but "join" commit a message:
\* `block` says whether the program waits for it or a new thread does, which
\* it only chooses for subroutines.
IsOp(op) ==
    \/ op.kind = "join"
    \/ op.kind \in {"init", "open", "stop"} /\ op.block = TRUE
    \/ op.kind = "subroutine" /\ op.block \in BOOLEAN /\ op.arg \in DOMAIN Code

\* The sockets that the EPR instructions of subroutine s name.
SocketsOf(s) ==
    {Code[s][i].sck : i \in {j \in DOMAIN Code[s] : Code[s][j].kind \in {"create", "recv"}}}

\* The ends of the sockets that programs open, and the ends they are opened to.
Ends(code) ==
    UNION {{<<NodeOf[a], code[a][i].arg>> : i \in {j \in DOMAIN code[a] : code[a][j].kind = "open"}} :
           a \in DOMAIN code}
OtherEnd(e) == <<e[2].peer, [id |-> e[2].peerId, peer |-> e[1], peerId |-> e[2].id]>>
AllEnds(code) == Ends(code) \cup {OtherEnd(e) : e \in Ends(code)}

\* A program names only sockets that it has opened before.
ProperCode(code) ==
    /\ code \in Seq(ToSet(code))
    /\ \A i \in DOMAIN code :
        /\ IsOp(code[i])
        /\ code[i].kind = "subroutine" =>
              \A sck \in SocketsOf(code[i].arg) : \E j \in DOMAIN code :
                  j < i /\ code[j].kind = "open" /\ code[j].arg = sck

\* What is opened goes to another node, and an ID belongs to one socket between
\* the same two nodes.
ProperSockets(nodes, code) ==
    /\ \A e \in Ends(code) : e[2] \in [id : Nat, peer : nodes \ {e[1]}, peerId : Nat]
    /\ \A e, f \in AllEnds(code) :
          e[1] = f[1] /\ e[2].peer = f[2].peer /\ e[2].id = f[2].id => e = f

MultiThreadAssumption ==
    /\ \A s \in DOMAIN Code : Code[s] \in Seq(ToSet(Code[s]))
    /\ \A p \in Programs :
        /\ IsFiniteSet(DOMAIN p.code) /\ DOMAIN p.code \subseteq Apps
        /\ p.rounds \in Nat \ {0}
        /\ \A a \in DOMAIN p.code : NodeOf[a] \in p.nodes /\ ProperCode(p.code[a])
        /\ ProperSockets(p.nodes, p.code)
ASSUME MultiThreadAssumption

VARIABLES
    program,        \* what is run, [code, nodes, rounds, delays, orderly]; never changes
    main,           \* what the main thread is doing
    round,          \* rounds finished
    results,        \* run_app: the results it has collected
    scan,           \* as_completed: its lists of futures and names, and its index
    backend,        \* the backend thread: "none", "starting", "running", "ended"
    pc,             \* pc[a]: position of a's program; 0 when its thread is not running
    waiters,        \* threads in join_task: [app, num, msg, block, seen]
    node,           \* node[n]: the message queue and handler of node n
    circuits,       \* SignalingProtocol._circuits
    purposeIds,     \* SignalingProtocol._purpose_ids
    creates,        \* create requests the link layers have to serve
    pairs,          \* pairs that their receivers have still to handle
    recvs,          \* receive instructions that wait for a pair
    arrays,         \* the array entries that are defined: <<app, array>>
    done,           \* names of the messages whose handling has ended
    fault           \* <<exception, app or node>> of the threads that raised one

apps == <<pc, waiters>>
network == <<circuits, purposeIds, creates, pairs, recvs, arrays>>
mainvars == <<main, round, results, scan>>
vars == <<program, mainvars, backend, apps, node, network, done, fault>>

Init ==
    /\ program \in Programs
    /\ main = "begin"
    /\ round = 0
    /\ results = <<>>
    /\ scan = [futures |-> <<>>, names |-> <<>>, i |-> 1]
    /\ backend = "none"
    /\ pc = [a \in DOMAIN program.code |-> 0]
    /\ waiters = {}
    /\ node = [n \in program.nodes |-> [queue |-> <<>>, fin |-> {}, unfinished |-> 0,
                                other |-> <<>>, subs |-> <<>>, at |-> "off", task |-> 0]]
    /\ circuits = {}
    /\ purposeIds = <<>>
    /\ creates = {} /\ pairs = {} /\ recvs = {} /\ arrays = {}
    /\ done = {}
    /\ fault = {}

Joining(a) == \E w \in waiters : w.app = a /\ w.block
Ended(a) == pc[a] > Len(program.code[a]) /\ ~Joining(a)
Bytes(m) == [app |-> m.app, kind |-> m.kind, arg |-> m.arg]
Set(n, f, v) == [node EXCEPT ![n] = [node[n] EXCEPT ![f] = v]]

-----------------------------------------------------------------------------
(* The main thread: simulate_application and SquidAsmRuntimeManager.         *)

\* start_backend, and the backend thread it starts.
StartBackend ==
    /\ main = "begin"
    /\ main' = "run"
    /\ backend' = "starting"
    /\ UNCHANGED <<program, round, results, scan, apps, node, network, done, fault>>

StartHandler(n) ==
    /\ backend = "starting"
    /\ node[n].at = "off"
    /\ node' = Set(n, "at", "loop")
    /\ UNCHANGED <<program, mainvars, backend, apps, network, done, fault>>

\* put_current_backend, then ns.sim_run().
RunSimulation ==
    /\ backend = "starting"
    /\ \A n \in DOMAIN node : node[n].at # "off"
    /\ backend' = "running"
    /\ UNCHANGED <<program, mainvars, apps, node, network, done, fault>>

\* run_app: start a thread for each program.
RunApp ==
    /\ main = "run"
    /\ round < program.rounds
    /\ main' = "collect"
    /\ pc' = [a \in DOMAIN pc |-> 1]
    /\ LET names == SetToSeq(DOMAIN pc)
       IN  scan' = [futures |-> names, names |-> names, i |-> 1]
    /\ results' = <<>>
    /\ UNCHANGED <<program, round, backend, waiters, node, network, done, fault>>

\* The loop over the futures starts again when it has passed the last one.
NextIndex(i, ready) ==
    IF i + 1 > Len(scan.futures) - (IF ready THEN 1 ELSE 0) THEN 1 ELSE i + 1

\* Mutant of AsCompleted: the name is not taken from the list of names.
AsCompletedKeepsName ==
    /\ main = "collect"
    /\ scan.futures # <<>>
    /\ LET i == scan.i
           a == scan.futures[i]
           ready == Ended(a)
       IN  /\ scan' = [scan EXCEPT !.futures = IF ready THEN RemoveAt(@, i) ELSE @,
                                   !.i = NextIndex(i, ready)]
           /\ results' = IF ready THEN Append(results, <<scan.names[i], a>>) ELSE results
    /\ UNCHANGED <<program, main, round, backend, apps, node, network, done, fault>>

\* as_completed looks at the next element of the list it shrinks meanwhile; with
\* a ready future it yields the name at the same index, and run_app gets the
\* result.
AsCompleted ==
    /\ main = "collect"
    /\ scan.futures # <<>>
    /\ LET i == scan.i
           a == scan.futures[i]
           ready == Ended(a)
       IN  /\ scan' = [scan EXCEPT !.futures = IF ready THEN RemoveAt(@, i) ELSE @,
                                   !.names = IF ready THEN RemoveAt(@, i) ELSE @,
                                   !.i = NextIndex(i, ready)]
           /\ results' = IF ready THEN Append(results, <<scan.names[i], a>>) ELSE results
    /\ UNCHANGED <<program, main, round, backend, apps, node, network, done, fault>>

\* All futures are there: the next round, after reset_memories, or the end.
EndRound ==
    /\ main = "collect"
    /\ scan.futures = <<>>
    /\ round' = round + 1
    /\ main' = IF round' = program.rounds THEN "stop" ELSE "run"
    /\ pc' = [a \in DOMAIN pc |-> 0]
    /\ arrays' = {}
    /\ UNCHANGED <<program, results, scan, backend, waiters, node, circuits,
                   purposeIds, creates, pairs, recvs, done, fault>>

\* stop_backend stops the handlers while the simulator thread runs them.
StopHandler(n) ==
    /\ main = "stop"
    /\ node[n].at # "stopped"
    /\ node' = Set(n, "at", "stopped")
    /\ UNCHANGED <<program, mainvars, backend, apps, network, done, fault>>

\* No event is left: sim_run returns.
EndSimulation ==
    /\ backend = "running"
    /\ \A n \in DOMAIN node : node[n].at = "stopped"
    /\ backend' = "ended"
    /\ UNCHANGED <<program, mainvars, apps, node, network, done, fault>>

\* The backend thread is joined; queues and circuits are reset.
JoinBackend ==
    /\ main = "stop"
    /\ backend = "ended"
    /\ main' = "end"
    /\ node' = [n \in DOMAIN node |-> [node[n] EXCEPT !.queue = <<>>, !.fin = {}]]
    /\ circuits' = {}
    /\ purposeIds' = <<>>
    /\ UNCHANGED <<program, round, results, scan, backend, apps, creates, pairs, recvs, arrays,
                   done, fault>>

-----------------------------------------------------------------------------
(* The application threads: NetSquidConnection and TaskQueue.                *)

\* A program's thread runs; its connection is made when a backend is running.
Runs(a) ==
    /\ pc[a] \in 1 .. Len(program.code[a])
    /\ ~Joining(a)
    /\ <<"KeyError", a>> \notin fault
    /\ pc[a] = 1 => backend = "running"

\* _commit_serialized_message: put the message, then wait for it, in this thread
\* or in one made for it.
Commit(a) ==
    LET op == program.code[a][pc[a]]
        n == NodeOf[a]
        num == <<a, round, pc[a]>>      \* names the message, not part of it
        msg == [num |-> num, app |-> a, kind |-> op.kind, arg |-> op.arg]
    IN  /\ Runs(a)
        /\ op.kind # "join"
        /\ node' = [node EXCEPT ![n] = [node[n] EXCEPT !.queue = Append(@, msg),
                                                       !.unfinished = @ + 1]]
        /\ waiters' = waiters \cup {[app |-> a, num |-> num, msg |-> Bytes(msg),
                                     block |-> op.block, seen |-> FALSE]}
        /\ pc' = [pc EXCEPT ![a] = @ + 1]
        /\ UNCHANGED <<program, mainvars, backend, network, done, fault>>

\* block() without a message: Queue.join.
JoinAll(a) ==
    /\ Runs(a)
    /\ program.code[a][pc[a]].kind = "join"
    /\ node[NodeOf[a]].unfinished = 0
    /\ pc' = [pc EXCEPT ![a] = @ + 1]
    /\ UNCHANGED <<program, mainvars, backend, waiters, node, network, done, fault>>

\* join_task: spin until the message is among the finished ones ...
SeeDone(w) ==
    /\ ~w.seen
    /\ w.msg \in node[NodeOf[w.app]].fin
    /\ waiters' = (waiters \ {w}) \cup {[w EXCEPT !.seen = TRUE]}
    /\ UNCHANGED <<program, mainvars, backend, pc, node, network, done, fault>>

\* Mutant of RemoveDone: the finished message is not removed.
RemoveDoneKeeps(w) ==
    /\ w.seen
    /\ waiters' = waiters \ {w}
    /\ UNCHANGED <<program, mainvars, backend, pc, node, network, done, fault>>

\* ... and remove it, so that an equal message is not taken for finished.
RemoveDone(w) ==
    LET n == NodeOf[w.app]
        there == w.msg \in node[n].fin
    IN  /\ w.seen
        /\ waiters' = waiters \ {w}
        /\ node' = Set(n, "fin", node[n].fin \ {w.msg})
        /\ fault' = IF there \/ ~w.block THEN fault ELSE fault \cup {<<"KeyError", w.app>>}
        /\ UNCHANGED <<program, mainvars, backend, pc, network, done>>

-----------------------------------------------------------------------------
(* The subroutine handlers, in the simulator thread.                         *)

Simulates == backend = "running" /\ \A n \in DOMAIN node : <<"TimeoutError", n>> \notin fault

\* SubroutineHandler.run: at most one message in each loop.
Handles(n) == Simulates /\ node[n].at = "loop"

\* _mark_message_finished for message m, with the rest of the node's state in h.
MarkFinished(n, h, m) ==
    /\ done' = done \cup {m.num}
    /\ node' = [node EXCEPT ![n] = [h EXCEPT !.fin = @ \cup {Bytes(m)},
                                             !.unfinished = @ - 1]]

NoMessage(n) ==
    /\ Handles(n)
    /\ node[n].queue = <<>>
    /\ node' = Set(n, "at", "task")
    /\ UNCHANGED <<program, mainvars, backend, apps, network, done, fault>>

\* _handle_message: the handler of an init message returns no generator.
HandleInit(n) ==
    /\ Handles(n)
    /\ node[n].queue # <<>>
    /\ LET m == Head(node[n].queue)
       IN  /\ m.kind = "init"
           /\ MarkFinished(n, [node[n] EXCEPT !.queue = Tail(@), !.at = "task"], m)
    /\ UNCHANGED <<program, mainvars, backend, apps, network, fault>>

\* The steps of subroutine s, with what execute_subroutine and _execute_command wait
\* for before they go on if the configuration gives times for it.
Steps(s) ==
    IF program.delays
    THEN [i \in 1 .. 2 * Len(Code[s]) + 1 |->
             IF i = 1 \/ i % 2 = 0 THEN [kind |-> "delay"] ELSE Code[s][i \div 2]]
    ELSE Code[s]

\* A task for message m.
Task(m) ==
    [num |-> m.num, app |-> m.app, kind |-> m.kind, arg |-> m.arg,
     steps |-> IF m.kind = "subroutine" THEN Steps(m.arg) ELSE <<>>,
     begun |-> FALSE, finished |-> FALSE, waiting |-> FALSE]

\* The others become tasks, subroutines in a list of their own.
HandleMessage(n) ==
    /\ Handles(n)
    /\ node[n].queue # <<>>
    /\ LET m == Head(node[n].queue)
           list == IF m.kind = "subroutine" THEN "subs" ELSE "other"
       IN  /\ m.kind # "init"
           /\ node' = [node EXCEPT ![n] = [node[n] EXCEPT !.queue = Tail(@), !.at = "task",
                                                          ![list] = Append(@, Task(m))]]
    /\ UNCHANGED <<program, mainvars, backend, apps, network, done, fault>>

Schedules(n) == Simulates /\ node[n].at = "task"

\* _get_next_other_task: tasks that are not subroutines come first, in order; a
\* finished one is marked and taken off.
FinishOther(n) ==
    /\ Schedules(n)
    /\ node[n].other # <<>>
    /\ Head(node[n].other).finished
    /\ MarkFinished(n, [node[n] EXCEPT !.other = Tail(@)], Head(node[n].other))
    /\ UNCHANGED <<program, mainvars, backend, apps, network, fault>>

\* Task.pop_next_event of the first other task h runs its generator to the next
\* yield; then the handler yields, too.
OtherTask(n, kind) ==
    /\ Schedules(n)
    /\ node[n].other # <<>>
    /\ Head(node[n].other).kind = kind
    /\ ~Head(node[n].other).finished

RunsOther(n, finished) ==
    LET task == [Head(node[n].other) EXCEPT !.begun = TRUE, !.finished = finished]
    IN  node' = [node EXCEPT ![n].other[1] = task, ![n].at = "loop"]

StopApplication(n) ==
    /\ OtherTask(n, "stop")
    /\ RunsOther(n, TRUE)
    /\ UNCHANGED <<program, mainvars, backend, apps, network, done, fault>>

Local(n, sck) == [node |-> n, id |-> sck.id]
Remote(sck) == [node |-> sck.peer, id |-> sck.peerId]

\* Mutant of HasCircuit: this end's half is enough.
HasHalfCircuit(c, n, sck) == <<Local(n, sck), Remote(sck)>> \in c

\* has_circuit: both ends have set it up.
HasCircuit(c, n, sck) ==
    <<Local(n, sck), Remote(sck)>> \in c /\ <<Remote(sck), Local(n, sck)>> \in c

\* Mutant of Assigned: only the local end's key is looked up and set.
AssignedLocal(n, sck) ==
    LET key == <<n, sck.peer, sck.id>>
        next == Cardinality({purposeIds[k] : k \in DOMAIN purposeIds})
    IN  IF key \in DOMAIN purposeIds THEN purposeIds ELSE (key :> next) @@ purposeIds

\* _assign_purpose_id: an ID that one of the two keys has already, else a new one.
Assigned(n, sck) ==
    LET keys == <<<<n, sck.peer, sck.id>>, <<sck.peer, n, sck.peerId>>>>
        known == {i \in 1 .. 2 : keys[i] \in DOMAIN purposeIds}
        next == Cardinality({purposeIds[k] : k \in DOMAIN purposeIds})
        pid == IF known = {} THEN next ELSE purposeIds[keys[CHOOSE i \in known :
                                                       \A j \in known : j =< i]]
    IN  [k \in {keys[1], keys[2]} \cup DOMAIN purposeIds |->
            IF k \in {keys[1], keys[2]} THEN pid ELSE purposeIds[k]]

\* setup_epr_socket begins: the rule to receive pairs and this half of the
\* circuit; a circuit that the other end has set up already needs no wait.
SetupSocket(n) ==
    LET sck == Head(node[n].other).arg
    IN  /\ OtherTask(n, "open")
        /\ ~Head(node[n].other).begun
        /\ purposeIds' = Assigned(n, sck)
        /\ circuits' = circuits \cup {<<Local(n, sck), Remote(sck)>>}
        /\ RunsOther(n, HasCircuit(circuits', n, sck))
        /\ UNCHANGED <<program, mainvars, backend, apps, creates, pairs, recvs, arrays, done, fault>>

\* _wait_for_remote_node looks again after a sleep.
PollSocket(n) ==
    LET sck == Head(node[n].other).arg
    IN  /\ OtherTask(n, "open")
        /\ Head(node[n].other).begun
        /\ RunsOther(n, HasCircuit(circuits, n, sck))
        /\ UNCHANGED <<program, mainvars, backend, apps, network, done, fault>>

\* The peer for which the task in front of n's other tasks waits, if it does.
Opening(n) ==
    /\ node[n].other # <<>>
    /\ Head(node[n].other).kind = "open" /\ Head(node[n].other).begun
    /\ ~HasCircuit(circuits, n, Head(node[n].other).arg)

\* The timeout, 5 s of real time, is long for what a program needs to get to its
\* next message: it strikes only nodes that wait for each other in a circle.
Timeout(n) ==
    /\ Schedules(n)
    /\ \E circle \in SUBSET {m \in DOMAIN node : Opening(m)} :
           /\ n \in circle
           /\ \A m \in circle : Head(node[m].other).arg.peer \in circle
    /\ fault' = fault \cup {<<"TimeoutError", n>>}
    /\ UNCHANGED <<program, mainvars, backend, apps, node, network, done>>

-----------------------------------------------------------------------------
(* Subroutine tasks.                                                         *)

OnlySubroutines(n) == Schedules(n) /\ node[n].other = <<>>

\* Finished ones are marked and taken off the list first, one by one and in order.
FinishSubroutine(n, i) ==
    /\ OnlySubroutines(n)
    /\ node[n].subs[i].finished
    /\ \A j \in 1 .. i - 1 : ~node[n].subs[j].finished
    /\ MarkFinished(n, [node[n] EXCEPT !.subs = RemoveAt(@, i)], node[n].subs[i])
    /\ UNCHANGED <<program, mainvars, backend, apps, network, fault>>

NoTasks(n) ==
    /\ OnlySubroutines(n)
    /\ node[n].subs = <<>>
    /\ node' = Set(n, "at", "loop")
    /\ UNCHANGED <<program, mainvars, backend, apps, network, done, fault>>

\* Mutant of Eligible: always the first.
EligibleFirst(subs) == IF subs = <<>> THEN {} ELSE {1}

\* The first subroutine task that is not waiting; any one if all are.
Eligible(subs) ==
    LET ready == {i \in DOMAIN subs : ~subs[i].waiting}
    IN  IF ready = {} THEN DOMAIN subs ELSE {i \in ready : \A j \in ready : i =< j}

PickSubroutine(n, i) ==
    /\ OnlySubroutines(n)
    /\ \A t \in ToSet(node[n].subs) : ~t.finished
    /\ i \in Eligible(node[n].subs)
    /\ node' = [node EXCEPT ![n].at = "run", ![n].task = i]
    /\ UNCHANGED <<program, mainvars, backend, apps, network, done, fault>>

Running(n) == node[n].subs[node[n].task]

Executes(n, kind) ==
    /\ Simulates
    /\ node[n].at = "run"
    /\ Running(n).steps # <<>>
    /\ Head(Running(n).steps).kind = kind

\* The running task becomes t, and goes on or yields.
Becomes(n, t, at) ==
    node' = [node EXCEPT ![n].subs[node[n].task] = t, ![n].at = at]

\* Of the host latency, or of the processing time of the next instruction.
ExecDelay(n) ==
    /\ Executes(n, "delay")
    /\ Becomes(n, [Running(n) EXCEPT !.steps = Tail(@), !.waiting = TRUE], "loop")
    /\ UNCHANGED <<program, mainvars, backend, apps, network, done, fault>>

\* A gate or measurement waits for the device, which no other task uses meanwhile.
ExecGate(n) ==
    /\ Executes(n, "gate")
    /\ Becomes(n, [Running(n) EXCEPT !.steps = Tail(@), !.waiting = FALSE], "loop")
    /\ UNCHANGED <<program, mainvars, backend, apps, network, done, fault>>

\* A classical or EPR instruction takes no time of its own.
Instruction(n) == Becomes(n, [Running(n) EXCEPT !.steps = Tail(@)], "run")

ExecStore(n) ==
    /\ Executes(n, "store")
    /\ arrays' = arrays \cup {<<Running(n).app, Head(Running(n).steps).array>>}
    /\ Instruction(n)
    /\ UNCHANGED <<program, mainvars, backend, apps, circuits, purposeIds, creates, pairs,
                   recvs, done, fault>>

\* An EPR instruction asks with the purpose ID of its socket.
EprRequest(n) ==
    LET step == Head(Running(n).steps)
    IN  [app |-> Running(n).app, array |-> step.array, node |-> n, peer |-> step.sck.peer,
         purpose |-> purposeIds[<<n, step.sck.peer, step.sck.id>>], sck |-> step.sck]

ExecCreate(n) ==
    /\ Executes(n, "create")
    /\ creates' = creates \cup {EprRequest(n)}
    /\ Instruction(n)
    /\ UNCHANGED <<program, mainvars, backend, apps, circuits, purposeIds, pairs, recvs,
                   arrays, done, fault>>

ExecRecv(n) ==
    /\ Executes(n, "recv")
    /\ recvs' = recvs \cup {EprRequest(n)}
    /\ Instruction(n)
    /\ UNCHANGED <<program, mainvars, backend, apps, circuits, purposeIds, creates, pairs,
                   arrays, done, fault>>

\* A wait instruction looks at the array and waits a microsecond if it has to.
ExecWait(n) ==
    /\ Executes(n, "wait")
    /\ IF <<Running(n).app, Head(Running(n).steps).array>> \in arrays
       THEN Instruction(n)
       ELSE Becomes(n, [Running(n) EXCEPT !.waiting = TRUE], "loop")
    /\ UNCHANGED <<program, mainvars, backend, apps, network, done, fault>>

EndSubroutine(n) ==
    /\ Simulates
    /\ node[n].at = "run"
    /\ Running(n).steps = <<>>
    /\ Becomes(n, [Running(n) EXCEPT !.finished = TRUE, !.waiting = FALSE], "loop")
    /\ UNCHANGED <<program, mainvars, backend, apps, network, done, fault>>

\* The link layer makes a pair.  The creator's array is written; the receiver
\* may not have asked for it yet.
DeliverPair(c) ==
    /\ Simulates
    /\ creates' = creates \ {c}
    /\ pairs' = pairs \cup {c}
    /\ arrays' = arrays \cup {<<c.app, c.array>>}
    /\ UNCHANGED <<program, mainvars, backend, apps, node, circuits, purposeIds, recvs,
                   done, fault>>

\* A pair goes to the receive instruction with its purpose ID.
For(p, r) == p.peer = r.node /\ p.node = r.peer /\ p.purpose = r.purpose

HandleEprResponse(p, r) ==
    /\ Simulates
    /\ For(p, r)
    /\ pairs' = pairs \ {p}
    /\ recvs' = recvs \ {r}
    /\ arrays' = arrays \cup {<<r.app, r.array>>}
    /\ UNCHANGED <<program, mainvars, backend, apps, node, circuits, purposeIds, creates,
                   done, fault>>

MainThread ==
    \/ StartBackend \/ RunApp \/ AsCompleted \/ EndRound
    \/ JoinBackend
    \/ \E n \in DOMAIN node : StopHandler(n)

BackendThread ==
    RunSimulation \/ EndSimulation \/ \E n \in DOMAIN node : StartHandler(n)

AppThread(a) == Commit(a) \/ JoinAll(a)
Waiter(w) == SeeDone(w) \/ RemoveDone(w)

Handler(n) ==
    \/ NoMessage(n) \/ HandleInit(n) \/ HandleMessage(n)
    \/ FinishOther(n) \/ StopApplication(n) \/ SetupSocket(n) \/ PollSocket(n)
    \/ Timeout(n)
    \/ NoTasks(n) \/ ExecDelay(n)
    \/ \E i \in DOMAIN node[n].subs : FinishSubroutine(n, i) \/ PickSubroutine(n, i)
    \/ ExecGate(n) \/ ExecStore(n) \/ ExecCreate(n) \/ ExecRecv(n) \/ ExecWait(n)
    \/ EndSubroutine(n)

LinkLayer ==
    \/ \E c \in creates : DeliverPair(c)
    \/ \E p \in pairs, r \in recvs : HandleEprResponse(p, r)

Next ==
    \/ MainThread \/ BackendThread \/ LinkLayer
    \/ \E a \in DOMAIN pc : AppThread(a)
    \/ \E w \in waiters : Waiter(w)
    \/ \E n \in DOMAIN node : Handler(n)

\* Threads are preemptive, so each gets to run.  Of the waiting subroutine tasks
\* random.choice takes every one again and again.
Fairness ==
    /\ WF_vars(MainThread) /\ WF_vars(BackendThread) /\ WF_vars(LinkLayer)
    /\ \A a \in Apps : /\ WF_vars(a \in DOMAIN pc /\ AppThread(a))
                      /\ WF_vars(\E w \in waiters : w.app = a /\ Waiter(w))
    /\ \A n \in Nodes : WF_vars(n \in DOMAIN node /\ Handler(n))
    /\ \A n \in Nodes, i \in 1 .. MaxWaiting :
           SF_vars(n \in DOMAIN node /\ PickSubroutine(n, i))

Spec == Init /\ [][Next]_vars
FairSpec == Spec /\ Fairness

-----------------------------------------------------------------------------
(* Correctness.                                                              *)

\* No message that nobody waits for before the next one has an equal later on,
\* in this round or the next: their bytes could not be told apart.
Distinct ==
    \A a \in DOMAIN pc : \A i, j \in DOMAIN program.code[a] :
        LET first == program.code[a][i]
            later == program.code[a][j]
        IN  first.kind = "subroutine" /\ ~first.block /\ later.kind = "subroutine"
            => program.rounds = 1 /\ (i < j => first.arg # later.arg)

\* TaskQueue lets a thread "wait for a specific task to be done": a thread that
\* goes on does so because its own message has been handled.
OwnTaskDone == \A w \in waiters : w.seen => w.num \in done

\* It does unless equal messages are underway, whatever ran before in this round
\* or an earlier one, and then the message is there to be removed.
DistinctTasksDone ==
    Distinct => OwnTaskDone /\ \A a \in DOMAIN pc : <<"KeyError", a>> \notin fault

\* A comment of SignalingProtocol demands it: the two keys of a circuit have the
\* same purpose ID; and pairs only reach the socket they were made for.
PairsReachTheirSocket ==
    \A p \in pairs, r \in recvs :
        For(p, r) <=> p.peer = r.node /\ Remote(p.sck) = Local(r.node, r.sck)
                      /\ Remote(r.sck) = Local(p.node, p.sck)

\* A program waits for all of its subroutines: for each, or for all before it
\* stops.  Of equal ones the thread might see another's end.
WaitsForAll(code) ==
    \A i \in DOMAIN code : code[i].kind = "subroutine" =>
        \/ \A j \in DOMAIN code :
               code[j].kind = "subroutine" /\ code[j].arg = code[i].arg => code[j].block
        \/ \E k \in DOMAIN code : /\ i < k /\ code[k].kind = "join"
                                  /\ \A j \in i .. k : code[j].kind # "stop"

\* Stop messages overtake subroutines; those of a program that waits for all
\* of its own are over when its application is stopped.
StopsLast ==
    \A n \in DOMAIN node : \A t \in ToSet(node[n].other), s \in ToSet(node[n].subs) :
        t.kind = "stop" /\ t.app = s.app /\ WaitsForAll(program.code[t.app]) => s.finished

\* A socket is open at both ends when a program uses it, until the circuits are
\* reset.
CircuitsOpen ==
    main # "end" => \A c \in creates : <<Remote(c.sck), Local(c.node, c.sck)>> \in circuits

\* Applications are stopped after their subroutines and sockets opened before.
InOrder == StopsLast /\ CircuitsOpen

\* as_completed loses no result and yields each with the name of its program.
ResultsNamed ==
    /\ \A i \in DOMAIN results : results[i][1] = results[i][2]
    /\ main \in {"run", "stop", "end"} /\ round > 0 => ToSet(results) = {<<a, a>> : a \in DOMAIN pc}

\* Tasks that wait for each other and for peers all end, so every thread that waits
\* for one goes on and the backend stops.  Only sockets opened in a circle time
\* out, and of two threads with equal messages one may wait for good.
Completion == program.orderly /\ Distinct => <>(main = "end")
=============================================================================
