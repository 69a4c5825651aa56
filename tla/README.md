# A TLA+ verification of SquidASM

SquidASM simulates the software of a quantum network: on every node a *Host*
runs a program, the *QNodeOS* (handler, processor, network stack) executes its
NetQASM subroutines on a quantum device, and network stacks of different nodes
make entangled (EPR) pairs together.  The components are discrete-event
protocols: Python generators that run until they `yield` on an event, and
exchange messages through ports and signals.  They share mutable state (the
quantum memory, the applications' memories, even message objects) without any
lock, so what is hard is what happens between two yields of one protocol while
others run.

This directory holds the models, the model-checking runs (`*.cfg`) and the
machine-checked proofs (`*_proofs.tla`).  `PROJECT.json` maps each definition
to the source lines it models.

## Inventory

Paths are below `src/squidasm/`.

| Component | State | Operations | Interacts with | Hard parts | Correct when |
|---|---|---|---|---|---|
| Qubit memory (`sim/stack/common.py`, `qnos.py`) | `_allocated_ids`; `_virt_qubits` per application | allocate (any, comm, mem), free, map, unmap, reverse look-up | shared by processor, network stack, handler | all three change it, suspended in between; frees are silent or signalled | a qubit has one holder, every holder's qubit is allocated, none is lost, waiting for memory ends |
| Port listener (`sim/stack/common.py`) | message buffer; events still to yield on | `run`, `_receive_msg`, flush | under every message channel | several messages in one instant; signals that outlive their message | each message is noticed once, in order |
| Host, connection (`host.py`, `connection.py`) | runs left, results | start a run, open sockets, commit, stop | handler, program | asynchronous open and stop; results are live objects | every run ends with its own results |
| Handler (`handler.py`) | applications, pending subroutines, counter | init, open socket, add subroutine, stop, assign processor | Host, processor, memories | stop and start in flight together | subroutines run once, in order, on a live application |
| Processor (`processor.py`) | program counter, registers and arrays of the application | one handler per instruction; EPR instructions only submit | handler, network stack, device | waits for array entries the network stack writes; NV moves inside a measurement | see qubit memory; `wait_all` returns when, and only when, the entries are there |
| Network stack (`netstack.py`) | EPR sockets, the request in progress | create/receive × keep/measure; breakpoints (not implemented) | processor, peer network stack, link layer | rendezvous of two nodes, blocking on memory, shared request object, one request at a time | both ends make the same pairs; nobody waits forever when requests match |
| QNOS network service (`qnos_network_service.py`) | port and name tables | forward peer messages | network stacks, routing | combined event on many ports | peer channels are FIFO and lossless |
| Sockets, routines (`csocket.py`, `util/routines.py`, `util/qkd_routine.py`) | – | teleport, GHZ, distributed gates, QKD | program, sockets | order of classical messages in both roles | both ends agree on the outcome |
| Link layer (external; `sim/network/network.py` extends it) | queued requests | put, signal | network stacks | order of results at the two ends | as the network stack expects |
| Multi-threaded runtime (`run/multithread`, `sim/queues.py`, `sim/glob.py`, `nqasm/qnodeos.py`, `util/thread.py`) | task queue, finished tasks, task lists, backend | put, join, schedule, start, stop | application threads, simulator thread | real threads; completion identified by message bytes | each waiter is released by its own task |
| Single-threaded legacy runtime (`run/singlethread`, `nqasm/singlethread`) | listener buffers | as the stack, older | – | uncounted events | as port listener |
| Set-up and run (`run/stack`, `stack.py`) | port and name tables | register peers, start the protocols | network service | everything is wired before anything runs | every pair of end nodes is connected |
| Example applications (`src/examples`) | the programs' variables | the program interface, step by step | sockets, pairs | corrections that depend on outcomes of both ends | the result does not depend on the outcomes it should not depend on |
| Configuration, noise, state utilities | – | sequential or numeric | – | – | not modelled |

## What is modelled

### `QubitMemory` — who holds which qubit

State: `allocated` is `PhysicalQuantumMemory._allocated_ids`, `mapping[a]` is
`AppMemory._virt_qubits` of application `a`, `app[a]` its life cycle.  The rest
is what suspended generators remember: `nstk`, `req`, `reserved` the network
stack's position, request and local `phys_id`; `meas` the NV measurement's
locals; `freed` the `SIGNAL_MEMORY_FREED` events underway.  `fault` names an
exception that ended the simulation.

An action is the code between two yields: `MeasCarbon`, `MeasMovedOut` and
`MeasMovedIn` are `NVProcessor._interpret_meas` cut at the two moves;
`StartRequest`, `PeerReady`, `HandleFreed`, `PairDelivered` and `PairMeasured`
are the network stack's handlers cut at the peer's answer, at the wait for
memory and at the link layer's results.  The peer, the link layer and the
program only decide when and with which arguments; they are unconstrained
unless `Compiled` restricts programs to what the SDK emits (allocate only what
is not held, free only what is, wait for a request's results before stopping).
`NV` chooses the hardware.  After a `stop` the memory object lives on in the
network stack's local variable, so `mapping` keeps the values of a "gone"
application.

### `PortListener` — from port events to received messages

The simulator's queue of pending events is explicit.  `Send(k)` puts `k`
messages and `k` events; `ReadInputs` and `YieldInput` are
`PortListener.run`; `Signalled` and `Resume` make the receiver run, which may
take any number of messages without waiting (as `_receive_msg` on a non-empty
buffer, or a flush) and then waits for the signal, if it emptied the buffer, or
for something else.  A yield on an event also hears an event that was
scheduled before it in the same instant, as in the simulator.

### `Netstack`, `MCNetstack`, `EprService` — EPR pairs between nodes

`Netstack` runs the network stack of every node: `TakeRequest`,
`Acknowledged`, `RequestReceived`, `MemoryFreed`, `PairResult` and
`OutcomeResult` are `run` and the four handlers, cut at their yields.  A create
request travels as an object shared with the creator: `number` holds its field
of that name, which the creator overwrites with 1.  Processors run a fixed
list of instructions per node (submit a request, `wait_all`, free a qubit).
The link layer is external: it serves one create request per link at a time,
needs one receive request of the other end for each, and signals each pair to
both ends in either order.

`EprService` is the abstract promise: a session is a create and the receive it
was meant for; both ends agree on the creator's number of pairs, then get them
pair by pair (keep) or all at once (measure), and a node serves its requests
in order.  `Implements` is the refinement, with `agreed` and `got` read off the
detailed state.  It is claimed of programs whose requests match up (`MatchUp`):
the nth request of a node for another and the nth of the other for it are a
create and a receive of the same type, and these two are a session.

### `QNodeOS` — Host, connection, handler, processor over all runs

Messages between Host and handler are FIFO queues.  The Host registers an
application, opens its sockets, commits subroutines one at a time, stops the
application and goes on with the next run without waiting; the handler takes a
message and then runs the pending subroutines of the first application in its
dictionary.  A subroutine's result is the application's memory object itself,
hence `executed[a]`, the subroutines that this object has seen.

### `NetQasm`, `Processor`, `MCProcessor` — executing a subroutine

`NetQasm` is what a subroutine means to its author: one action per
instruction on registers (`regs`, `AppMemory`'s register dictionary), arrays
and virtual qubits, as if the network stack worked at once.  An EPR
instruction writes its results immediately and puts its pairs in a queue per
virtual ID (`qubits[v]`), from which `qfree` takes the first, and `wait_all` only
requires that its slice is defined.

`Processor` extends it with what really happens.  The interpreter
(`ExecClassical`, `ExecQAlloc`, `ExecQFree`) runs from one yield to the next;
it is suspended while the device works (`DeviceStart`, `DeviceEnd`), in
`wait_all` (`WaitAllReady`, `WaitAllAgain`, which waits for another message and looks
again) and between subroutines.  EPR instructions only submit a request
(`SubmitEpr`); the network stack serves requests one at a time
(`TakeRequest`, `AllocateComm`, `PairDelivered`, `OutcomesDelivered`),
reads the arguments when it gets to one, writes results into
arrays the program may have changed since, and sends one message per pair or
per request.  `Listen` is the signal of the port listener.  `Implements` is the
refinement: at any moment the state, with the results already chosen for the
submitted requests filled in (`ResultsWritten`, `PairsQueued`), is a state of the sequential
meaning.  The outcome of a pair is chosen when its request is submitted, which
is early enough for the sequential meaning to use it.

Abstractions: the result of a pair is an array slice of `PairLen` = 2 entries
(10 in the code) whose values say which pair it is; what gates do to quantum
states is left out, a measurement returns any outcome; a measure-directly
request finds the communication qubit free (otherwise the code raises, see below).
`MCProcessor` holds the programs: loops over the pairs of a request as the SDK
emits them, two requests into the same arrays with `undef` between, both roles,
keep and measure, one virtual ID for all pairs (`sequential=True`), and
arithmetic with branches against a reference (`Computes`).

### `Routines`, `MCRoutines` — programs that run routines together

Every node calls routines of `util/routines.py` and `util/qkd_routine.py` one
after the other.  `calls`, `at` and `local` are the suspended generator;
classical sockets are FIFO (`chan`); a flush with an EPR request ends when the
peer has made the matching request (`creates`, `recvs`), which is what
`EprService` promises.  Of the quantum state the model keeps, per pair, the Pauli error that
measurements at one end leave at the other (`frame`), which is what the
corrections are for.  A flush that only applies corrections is merged with the
message that caused it.  CNOT and CPhase differ in the local gate only and
share their actions.  In the key distribution bases and outcomes are free (any
noise), and the messages carry indices as the code's do.  The division by
`num_test_bits` is left out: the code divides by the number asked for, not the
number tested, and by zero for fewer than four pairs.

### `NetworkService`, `PeerChannel` — messages between network stacks

`RegisterPeer` and `Start` are the set-up, in which the combined event is built
from the ports that exist then.  Each port has a queue, `outPort`, and each
service a list of the port events it has still to handle, `events`;
`ForwardOutput` wakes for one of them or for several ports of one instant,
reads one message from each port that triggered and hands it to the (external)
routing service.  A message whose origin the receiver does not know raises.
`PeerChannel` is the promise that `Netstack` relies on: a FIFO queue per
direction that loses nothing.  `Implements` is the refinement, with the queue
read off the three places a message can be in.

### `MultiThread`, `MCMultiThread` — threads, tasks and the task queue

Here real threads interleave.  The main thread (`StartBackend`, `RunApp`,
`AsCompleted` element by element, `StopHandler`, `JoinBackend`), the application threads and those
that wait for a message (`waiters`: `join_task` spins until its message is among the
finished ones, then removes it, in two actions), the backend thread, and one
handler per node in the simulator.  `node[n]` holds the node's queue, its
finished messages (`fin`, compared by their bytes: `Bytes`), the handler's lists
of tasks and what it is doing.  A task is a generator that runs until it yields: the
steps of a subroutine (gate, store, wait, create, receive) are what decides
when it does.  Subroutines that wait are polled in random order
(`PickSubroutine`).  The two halves of a socket are matched through
`circuits` and `purposeIds` of the legacy signalling protocol.

### `SingleThread`, `MCSingleThread` — the legacy protocols of one thread

Host and QNodeOS protocols of two nodes with the three kinds of listeners, event
by event: `turn` lists the protocols that are to run now; `wire`, `port`,
`buffer` and `signals` follow a message from `Sent` to the receiver.  A yield
with a time (`Sleep`) ends the instant for everybody, and several sleepers may
wake in the same instant, in any order.  `run_protocols` runs the
programs again with the same protocol objects, so buffers, `_result` and circuits of
the round before are still there.  `ProgramsAssumption` says what the programs of
the repository have in common: one connection, which is entered before it is used;
sockets that are named before they are used; messages numbered as they are sent.

`CrowdedFaults` counts the messages of an instant for each protocol, not for each listener:
a message of the other host and an answer of its own QNodeOS that reach a host in the same
instant are enough.  It takes the answer, asks for the message, finds it in its
buffer, and asks for the next; the event of the first message then wakes it to an
empty buffer.

### `Stabilizer`, `Applications`, `Examples`, `MCExamples` — what programs compute

`Stabilizer` describes states by the group of observables they are sure of, and
gates and measurements by what they make of these: no amplitudes are needed as
long as every rotation is by quarter turns.  `Applications` runs programs:
`env[n]` are the variables of node `n`, `Code` gives the steps that its program has
with these, `pc[n]` and `op[n]` say where it is.  A flush executes what has been
queued, `Gates` everything up to the next measurement or pair; a pair comes
about when both ends ask for it (`MakePair`), which is what `EprService`
promises; classical messages are FIFO.  `Examples` holds the
programs of `src/examples`, with the source's variable names, and `MCExamples`
the inputs.

Abstractions: pairs are perfect, since with noise none of the properties is
claimed; angles are quarter turns; messages whose text does not matter are
`Signal`; an error rate is not computed; the message encrypted with a key is its
bits, without the leading zeros of its characters.  In the raw subroutines the
hosts only submit, so their steps are those of the NetQASM text.  One more
program, `nv_meas`, is the processor's own: how an NV node measures a carbon by way of the
electron (`InterpretMeas`), on halves of pairs, whose behaviour determines that of
any state.

## Runs

| Run | Bounds | Shows |
|---|---|---|
| `qubit_memory_nv` | 2 applications, 3 NV qubits, up to 2 pairs, 1 signal underway, arbitrary programs | `TypeOK`, `NoSharing`, `HeldIsAllocated`, and that `IInv`, the proofs' inductive invariant, holds |
| `qubit_memory_compiled` | the same with compiled programs, one open application at a time, 2 signals | `NoLeak`, `NoMissedWakeup` |
| `netstack` | 3 nodes, 1 communication qubit each; every matching program of two sessions of up to 2 pairs on a link, or three sessions around a triangle, blocking or pipelined, and five mismatched ones | `ResultAwaited`, `Implements`, `Completion` |
| `port_listener` | 6 messages in any grouping | `CountIsRight`, `Noticed`, `NothingLost`, `FailsOnlyWhenCrowded` |
| `qnodeos` | 3 runs, up to 2 sockets, up to 2 subroutines each | `AnswersMatch`, `ReadyToExecute`, `NoneAfterStop`, `AllRunsEnd`, `AllCleaned` |
| `processor` | loops, two requests, both roles, keep and measure, 2 pairs per request, arithmetic on small numbers | `Computes`, `Implements`, `Completion` |
| `routines` | 4 nodes; every sequence of two teleportations, gates or GHZ states on a link; GHZ of 4 nodes twice, with and without corrections, in both directions; mixtures; key distribution of 3 pairs, 1 tested | `Corrected`, `KeysAgree`, `Completion` |
| `network_service` | 3 nodes, 2 messages for each pair that talks | `Implements` |
| `multithread` | 2 nodes, up to 3 programs, 2 rounds; blocking and nonblocking messages, equal messages, pairs in both directions, crossed sockets, two programs on a node, one that stops without waiting for its subroutine | `DistinctTasksDone`, `PairsReachTheirSocket`, `InOrder`, `ResultsNamed`, `Completion` |
| `singlethread` | 2 nodes, 2 rounds; sockets opened by hosts or connections, messages both ways, one left unread, one in the same instant as an answer, sockets opened in opposite orders | `Answered`, `SocketsReady`, `OwnRound`, `CrowdedFaults`, `Completion` |
| `examples` | 22 programs and the NV measurement, every outcome of every measurement; angles on the circle of quarter turns or a part of it; 2 or 3 pairs | `BlindComputation`, `Transferred`, `SameOutcomes`, `SquareWon`, `Completion` |
| `qubit_memory_electron` | as `qubit_memory_compiled` | the finding below |

Why the bounds are enough.  Sharing, losing or double-freeing a qubit involves
two holders and one fresh qubit, so three qubits and two applications (the
second takes the first one's place in mid-request) reach every case the code
distinguishes; the theorems then remove the bound.  Two pairs per request are
needed for "the next pair", two requests per link for matching and reordering,
three nodes for a circle of waits; one communication qubit makes every request
wait for memory.  Six messages allow a second and third batch to arrive while
the first is still being yielded on.  Two pairs and two requests make the processor
wait for a later pair while an earlier one is written, and find stale entries
of an earlier request.  A GHZ line needs four nodes: only the second middle node
receives a correction that is not always 0.  Two calls suffice for one call to
spoil the next.  Three runs let a stop, a start and a
subroutine of different applications be in flight.  Three nodes give a network
service two ports, and two messages per direction let one wait behind another
while events of both ports are pending.  With two subroutines at once each can
wait for the other; two messages with equal bytes, and two sockets between
the same nodes, are what can be confused; a second round finds what the first
left.  The examples take
every quarter turn where a program has one or two angles, and where it has more, those
that make each correction matter (a sign, a half turn, a trap at either qubit);
angles in between are not covered.

Deadlock checking is off because the system may stop: when nothing is left to
do, when programs wait for each other, or after an exception.

Fairness.  `FairSpec` is weak fairness of the whole next-state relation: the
simulator (`ns.sim_run()`) runs until no event is left, so it does not stop
while something can happen.  No choice is assumed fair in these models; their
liveness properties hold because every behaviour of the programs is finite.  `NetworkService` is
the exception among the simulator's models: one message per action, hence weak
fairness of each forwarding step.  In `MultiThread` every thread and every
handler is weakly fair (the operating system schedules each thread, the simulator each
handler), and picking a subroutine is strongly fair, because `random.choice`
picks each one again and again.  In `SingleThread` a protocol that polls may do so
forever within an instant; `Sleep` is strongly fair because time goes on for
everyone.  Programs are assumed
to end and the link layer to deliver (magic distributors always do).

### Findings

Measuring a carbon while the electron is reserved for a pair in the making
raises `RuntimeError`, although the comments in `processor.py` promise that the
electron is moved out of the way (`qubit_memory_electron`).

Met while modelling, but not checked by a run of their own:

* A measure-directly request that finds the communication qubit taken raises
  `AllocError`; its docstring says it waits.
* The creator takes any message for the acknowledgement of its request.
* `_receive_msg` may pop from an empty buffer after a signal whose message it
  already took (`FailsOnlyWhenCrowded` and `CrowdedFaults` bound when).
* With `should_clear_memory` off, only the first of several runs is executed.
* A thread that waits for a message of the multi-threaded runtime may be
  released by an equal message of another thread (`DistinctTasksDone` holds for
  programs whose messages differ).
* `as_completed` removes elements of the list it enumerates, so results come out
  of order, though each with its own name (`ResultsNamed`).
* When `allocate` fails with every qubit taken, the measurement goes on with an
  unbound variable; remote-state-preparation requests are acknowledged and then
  dropped; the key distribution divides by the number of test bits asked for.
* Sockets opened in opposite orders by the two ends block both legacy runtimes.

Deliberately not called a finding: a program whose requests do not match its
peer's blocks; NetQASM that allocates a mapped virtual ID loses a qubit; a
sequential request on a device with more than one communication qubit loses the
mapping of a pair in use (on NV hardware, with one, it cannot); `create_ghz`
uses the classical sockets for its ready message even without corrections,
although its docstring speaks of them only for corrections.

## Proofs

Each theorem holds for every value of the constants that satisfies the named
assumption of its module; the runs of the same module evaluate that assumption
and check the same property on small instances.  In each module `Invariance`
is `Spec => []IInv`, with one lemma per action, and the other theorems follow
from it (in `Netstack_proofs` and `MultiThread_proofs` from it and a second
invariant, `SInv` and `JInv`).

| module | theorem | states |
|---|---|---|
| `QubitMemory_proofs` | `TypeCorrect` | `Spec => []TypeOK` |
| | `ExclusiveQubits` | `Spec => []NoSharing` |
| | `FreesAreLegal` | `Spec => []HeldIsAllocated` |
| | `NothingLeaks` | `Spec => []NoLeak`, if compiled |
| | `NoWakeupMissed` | `Spec => []NoMissedWakeup`, if compiled, one open at a time |
| `PortListener_proofs` | `ListenerCounts` | `Spec => []CountIsRight` |
| | `NoMessageSleptOn` | `Spec => []Noticed` |
| | `Fifo` | `Spec => []NothingLost` |
| | `PopsFromFull` | `Spec => []FailsOnlyWhenCrowded` |
| `NetworkService_proofs` | `NoUnknownSource` | no service gets a message of a node it does not know |
| | `ImplementsChannel` | the safety part of `Implements` |
| `QNodeOS_proofs` | `TypeCorrect` | `Spec => []TypeOK` |
| | `AnswersBelongToTheRun` | `Spec => []AnswersMatch` |
| | `SubroutinesFindTheirSockets` | `Spec => []ReadyToExecute` |
| | `StoppedStayStopped` | `Spec => NoneAfterStop` |
| `Netstack_proofs` | `ResultsAwaited` | `Spec => []ResultAwaited` |
| | `ImplementsService` | `Spec => Implements`: `EprService` is implemented when requests match up |
| `MultiThread_proofs` | `NamesKept` | `Spec => []ResultsNamed` |
| | `PairsKept` | `Spec => []PairsReachTheirSocket` |
| | `TasksKept` | `Spec => []DistinctTasksDone` |
| | `OrderKept` | `Spec => []((Distinct => InOrder) /\ CircuitsOpen)` |
| `SingleThread_proofs` | `TypeCorrect` | `Spec => []Types` |
| | `PopsFromFull` | `Spec => []CrowdedFaults` |
| | `FlushesAnswered` | `Spec => []Answered` |
| | `SocketsSetUp` | `Spec => []SocketsReady` |
| | `RoundsApart` | `Spec => []OwnRound` |

`QueueLemmas` holds what they share about queues: how often an element occurs
after appending, removing the head or appending a batch, and the first and last
element of two queues in a row.

### `QubitMemory_proofs`

For every number of qubits, set of applications, number of pairs, bound on
signals, both kinds of hardware and any program (`QubitMemoryAssumption`: at
least one qubit, bounds are naturals).  `NoSharing` and `HeldIsAllocated` need
each other: a fresh qubit differs from every held one because the held ones are
allocated, and freeing one keeps the others allocated because nobody else holds
it.  They are not inductive yet.  `Bookkeeping` adds what the suspended
generators rely on: a qubit is reserved exactly while a pair is in the making,
it is a communication qubit (so freeing it leaves one for the next measured
pair), and while the electron is moved out the carbon to be measured is still
allocated and nobody else's, although its virtual ID may be remapped by the
network stack meanwhile.  `ReserveInv` is shared by the three actions that
allocate a communication qubit, `MinInSet` says that the allocator's scan
returns a member of the set it scans.

`NothingLeaks` assumes `Compiled`, any number of open applications.  It
needs that whoever the network stack or a measurement works for is open
(`Attended`) and that the carbon of a suspended measurement is still mapped, so
that what a step takes from one holder another gets (`Accounted`).
`NoWakeupMissed` assumes in addition `MaxOpen =< 1`: the only open application
is the one that waits and does not stop, so the frees that send no signal do
not happen.  Without the assumption the property is false: with two, stopping
one frees qubits without a signal.

### `PortListener_proofs`

For any number of messages in any instants, and whatever else wakes the
receiver (`PortListenerAssumption`: the bound on messages is a natural).
`CountIsRight` and `NothingLost` are inductive with the types.  `Noticed` and
`FailsOnlyWhenCrowded` are not: that the receiver finds a message when a signal
wakes it depends on what else is in the queue of events.  `Uncrowded` says what
that queue looks like as long as no instant was crowded: only its head may be
anything but an input event, what is pending is one batch, either all unread or
all read, and a signal at the head, or one that the listener has still to send,
is for a message in the buffer.

### `NetworkService_proofs`

For any finite set of nodes and any pairs of them that talk
(`NetworkServiceAssumption`).  `NoUnknownSource` needs that no message is
underway before the set-up is complete (`Connected`), because a service sends
only to ports it listens to, and starts to listen only when all peers are
registered (`Listening`).  That the combined event is triggered once per message
(`OneEventEach`, by counting occurrences) is what makes `forward` read exactly
the port that has a message.  `ImplementsChannel` then shows that the queue of
`PeerChannel` is what the out port, the router and the in port hold, in a row:
a send appends to it, a receive removes its head, and handing a message over
from one to the next changes nothing.  The fairness of `Channel!Spec` stays with
TLC.

### `QNodeOS_proofs`

For any number of runs, sockets and subroutines, cleared or not
(`QNodeOSAssumption`).  The invariant says in which of seven phases
(`Idle`, `Starting`, `Answered`, `Serving`, `Executing`, `Stuck`, `Finished`)
the current run is, and for each the exact contents of the queues between Host,
handler and processor: while the handler serves, what is on its way is the rest
of the run's `open_epr_socket` calls followed by what the Host did last
(`Stream`).  `SubroutinesFindTheirSockets` follows because the handler gets to
the subroutine only at the end of that stream, although the Host never waits for
a socket to open; `AnswersBelongToTheRun` because at most one answer is
underway.  `Stuck` is reached only without clearing: a later application's
subroutine waits behind the first application.  The action property
`NoneAfterStop` needs the same phases.

### `Netstack_proofs`

For any nodes and any programs whose requests go to another node
(`NetstackAssumption`), also programs whose requests do not match up.  The link
layer is shared, but the argument is about two nodes at a time (`View`).  Each
request of one to the other sends one message and takes one, so the two are
never more than one handshake apart (`Synchronised`); a network stack that asks
may take the other's own request for the answer, which the code does not notice.
What the link layer was asked for and makes is then determined by how far the
two have come (`Phase`): nobody began, the receiver is ahead, the creator was
answered wrongly and nobody will receive, both are at the same pair, or a pair
is being made and one of them may already be at the next.  `ResultAwaited` is a
consequence of the last.  That the answerer's `number` may have been overwritten
before (the shared request object) is in `Requested`.

`ImplementsService` needs a second invariant, `SInv`, which speaks of sessions.
Of programs with `matched` it assumes `MatchUp` only: the k-th requests of two
nodes for each other are a create (of pairs or outcomes) and a receive.
That they are in an order in which all can be served is not needed for safety; it
is what `Completion` is about.  `InTurn` says that a network stack takes its requests in
program order.  `Answered(n, m)` are n's requests for m whose handshake is
over, in the receiver's sense: it has answered, even if the answer is still on its
way.  They are an initial segment of n's requests for m, at both ends the same
places (`Partnered`) and equally many (`Counted`); so what the two do next
with each other is at the same place (`NextMeet`), which excludes
that a creator takes the other's own request for an answer
(`AcknowledgedAnswered`).  `Progress` gives for each request what has been got of it:
nothing before the handshake, then pairs got and pairs to go add up to the
number its session's creator asked for, at last all of them.  An exception stops
the handshake in the middle, so this holds until then.  The steps:
`AnswersBoth` is the only one to end a handshake, at both ends at once, and is `Agree`
(`AgreeStep`, with `EarlierServed` for all earlier requests of either node);
`MovesOn` covers the steps in a session, of which `DeliverStep` maps
the results to `DeliverPair` and `DeliverOutcomes`.  That an end is not ahead when it
gets a kept pair (`NotAhead`) comes from the first invariant, by what the two have
to go while the link layer makes a pair.

### `MultiThread_proofs`

For any programs, nodes and number of rounds (`MultiThreadAssumption`).  What is
assumed of programs: a subroutine names only sockets that its program has opened
before, as the SDK does by opening them when the connection is made; a socket goes
to another node; an ID belongs to one socket between the same two nodes, which
the code does not check (of two sockets with one ID, either could get the other's
pairs); only subroutines are committed without waiting for them.

The invariant has four parts.  `Collected` follows `as_completed` through the
lists it shrinks: futures and names stay equal, and a program is among the
futures or has ended and has its result.  `Sound` leads to `PairsKept`.  By
`Purposes` two ends with one purpose ID are the two of a socket, because a new ID
is the number of those in use; `Requested` says that requests, pairs and receive
instructions carry the ID of their socket, even after the circuits were
reset.  That the ID was assigned when it is looked up is `Ordered`: the sockets of a
subroutine are opened by a message before it in the queue (`InTurn`), then by a
task of the list that goes first, and programs have committed those messages
before (`Past`).  `Waits` says what each thread in `join_task` has committed and
that a program goes on only after its blocking ones, so that of two equal messages
neither blocks.  With `Distinct` that excludes equal messages altogether, and
`Tracked` can follow each message: from the queue to a task list and to the
finished ones it has one waiter, is in one place (`Held`), and each finished one
belongs to the waiter with the same bytes (`FinOwned`), whom nobody else can
overtake (`Unique`).  `HeldMoves` is the lemma behind every handler step: items
may move from list to list as long as each comes from a place of its own.

`OrderKept` needs more.  `CircuitsOpen` is in `Requested`: what the invariant follows
from the open message to the request is that both halves of the circuit are set up
(`Ready`), not only the purpose ID.  For `StopsLast` the second invariant, `JInv`, says
that a queue's counter is the number of messages and tasks on its node (`Counted`;
`Flows` is what a handler step does to both), so a thread that passes a join leaves
nothing of its program there, and nothing on a node is from before a join that its
program has passed in this round (`Joined`).  A stop message that a handler holds is
what its program waits for, so the program stands right behind it; an unfinished
subroutine beside it is one the program did not wait for, of the only round
(`Distinct`), with a join between the two (`WaitsForAll`), which the program has passed
(`NoneBeforeStop`).  A program may stop without waiting: then the stop message does
overtake its subroutine, as one program of the run does, and `InOrder` says nothing of it.
Of programs with equal messages `StopsLast` is only model-checked: there a thread may
see another's end, and `Tracked` follows no message.

### `SingleThread_proofs`

For any finite set of nodes of which each is the peer of its peer, any programs
and any number of rounds (`SingleThreadAssumption`, and `ProgramsAssumption`:
one connection, sockets named before they are used, numbered messages).

`Instant` is about the scheduling: who has no turn has yielded, and what is in
the buffer of a sleeping reader is still announced to it (`Scheduled`).  As long as no
two messages are sent to one protocol in an instant, an announced message is still in
its buffer and so is the one a protocol was woken for (`Uncrowded`); what
`Crowded` counts only grows within an instant and no message or event outlives
it, so a fault of `PopEmpty` has a crowded instant (`PopsFromFull`).  A first
version of the property counted the messages of each listener; this proof failed where an
answer and a message of the other host arrive together, and a program that does so is
now among those the run checks.

`Rounds` is about the messages.  `Serve` relates what the QNodeOS has handled and
has still to handle to the operations its host has begun: at most one message
is a question that is not answered, only the connection's first message may be before
it, and `stop` is the last one of a round.  `FlushesAnswered` follows by counting.
`Usable` adds that the sockets a program has set up, but for the one that its
question is about, have both halves of a circuit of this round, because
`SetupDone` answers only then (`SocketsSetUp`).  `Delivered` says what each host has got and
what is underway to it: the messages that its peer has sent in this round, in
order.  A round ends when nothing is underway and everyone sleeps.  A host
that still waits has an empty buffer, and one that returned has received all that it
ever does, so if that is as much as its peer sends nothing is left (`EndRounds`), and the next round begins with them
empty although nobody clears them (`StartRounds`, `RoundsApart`).

### Only model-checked

Everything about `Processor`, `Routines` and `Examples`; `StopsLast` of `MultiThread` for
programs with equal messages; the refinement of `NetQasm` by `Processor`; all liveness, the fairness of `Channel!Spec`
included (liveness, like `ENABLED`, is out of the prover's reach).  What the
programs of `Examples` and `Routines` compute is a fold over their steps, and
an induction over data is out of its reach, too.

## Not modelled, and why

Noise, fidelity and timing (numeric, no protocol decision depends on them) and
the density-matrix utilities; network construction and configuration
(sequential); the breakpoint instruction and handlers (debug dumps, or
`NotImplementedError`); logging and plotting; what the legacy executors' gates do
to qubits.  Of the examples: the CHSH game and the precompiled
blind computation, whose angles are eighth turns or are decoded elsewhere; the
single-node and custom-subroutine examples, which have no partner; tutorials
that repeat modelled steps in another configuration (loss, fidelity
constraints, parameter sweeps).  The link layer, the routing
service and the simulator are other packages, modelled from their use here and
marked external in the map.

## Plan

1. *Done*: `QubitMemory` with its proofs, `PortListener`, `EprService` and
   `Netstack`, `QNodeOS`, `NetQasm` and `Processor`, `Routines`.
2. *Done*: `PeerChannel` and `NetworkService`; `MultiThread`; `SingleThread`;
   `Stabilizer`, `Applications` and `Examples`.
3. *Done*: proofs for `QubitMemory`, `PortListener`, `NetworkService`, `QNodeOS`,
   `Netstack`, `MultiThread` and `SingleThread`.
4. *Done*: the proof that `Netstack` implements `EprService`.
5. *Done*: the proof of `InOrder` of `MultiThread`.

## Checking

    tlc -workers 2 -config QubitMemoryNV.cfg MCQubitMemory
    tlapm QubitMemory_proofs.tla

The module and configuration of each run are in `PROJECT.json`.
