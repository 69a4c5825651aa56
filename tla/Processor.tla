----------------------------- MODULE Processor -----------------------------
(***************************************************************************)
(* The processor of a node (sim/stack/processor.py) executing the          *)
(* subroutines of an application while the network stack delivers EPR      *)
(* pairs into the same memory.                                             *)
(*                                                                         *)
(* create_epr and recv_epr only submit a request.  The network stack       *)
(* handles the requests one by one: it reads the arguments and the virtual *)
(* IDs from the application's arrays when it needs them, maps the virtual  *)
(* IDs, writes the results and sends a message for every write.  wait_all  *)
(* looks at the entries and, while one is undefined, takes such a message. *)
(*                                                                         *)
(* The processor is suspended only while the device works, in wait_all,    *)
(* and between subroutines; everybody else runs only then.                 *)
(***************************************************************************)
EXTENDS NetQasm, SequencesExt

VARIABLES
    at,         \* "run"; suspended: "device", "signal" (wait_all) or "idle"
    requests,   \* EPR requests submitted and not finished, in order
    nst,        \* the network stack's progress with the first one
    used,       \* allocated positions of the quantum device
    port,       \* messages of the network stack on their way
    buffer      \* messages in the buffer of the listener "netstack"

machine == <<at, requests, nst, used, port, buffer>>
pvars == <<vars, machine>>

Idle == [total |-> 0, pair |-> 0, holds |-> FALSE]

PInit ==
    /\ Init
    /\ at = "run"
    /\ requests = <<>>
    /\ nst = Idle
    /\ used = 0
    /\ port = 0
    /\ buffer = 0

-----------------------------------------------------------------------------
(* The processor.                                                            *)

Running == at = "run"

ExecClassical ==
    /\ Running
    /\ Classical
    /\ UNCHANGED machine

\* The new qubit replaces whatever the virtual ID stood for.
ExecQAlloc ==
    /\ Running
    /\ Executes({"qalloc"})
    /\ Reg("reg") # None
    /\ used < program.device
    /\ used' = used + 1
    /\ qubits' = (Reg("reg") :> <<Local>>) @@ qubits
    /\ UNCHANGED <<regs, arrays, at, requests, nst, port, buffer>>

\* Mutant of ExecQFree: the position stays allocated.
ExecQFreeKeeps ==
    /\ Running
    /\ QFree
    /\ UNCHANGED machine

ExecQFree ==
    /\ Running
    /\ QFree
    /\ used' = used - 1
    /\ UNCHANGED <<at, requests, nst, port, buffer>>

\* An instruction for the quantum device: execute_program, and its end.
DeviceStart ==
    /\ Running
    /\ Is({"gate", "meas"})
    /\ OperandsExist
    /\ at' = "device"
    /\ UNCHANGED <<vars, requests, nst, used, port, buffer>>

DeviceEnd ==
    /\ at = "device"
    /\ at' = "run"
    /\ Gate \/ Meas
    /\ UNCHANGED <<requests, nst, used, port, buffer>>

\* What the link layer will deliver is chosen here and shows later.
SubmitEpr ==
    /\ Running
    /\ Executes({"create_epr", "recv_epr"})
    /\ Reg("results") # None
    /\ Instr.op = "create_epr" => Reg("args") # None
    /\ \E outcomes \in [0 .. MaxPairs - 1 -> Outcomes] :
          requests' = Append(requests, RequestOf @@ [outcomes |-> outcomes])
    /\ UNCHANGED <<memory, at, nst, used, port, buffer>>

\* Mutant of WaitAllReady: it waits for a message first, as for an answer.
WaitAllReadyWaits ==
    /\ Running
    /\ WaitAll
    /\ buffer > 0
    /\ buffer' = 0
    /\ UNCHANGED <<at, requests, nst, used, port>>

\* wait_all: everything is there, and the messages in the buffer are flushed.
WaitAllReady ==
    /\ Running
    /\ WaitAll
    /\ buffer' = 0
    /\ UNCHANGED <<at, requests, nst, used, port>>

\* wait_all: an entry is undefined; take a message, or wait for one.
WaitAllAgain ==
    /\ Running
    /\ Is({"wait_all"})
    /\ ~SliceDefined
    /\ \/ buffer > 0 /\ buffer' = buffer - 1 /\ UNCHANGED at
       \/ buffer = 0 /\ at' = "signal" /\ UNCHANGED buffer
    /\ UNCHANGED <<vars, requests, nst, used, port>>

\* The end of the subroutine, and the next one from the handler.
SubroutineDone ==
    /\ Running
    /\ Finished
    /\ at' = "idle"
    /\ UNCHANGED <<vars, requests, nst, used, port, buffer>>

SubroutineReceived ==
    /\ at = "idle"
    /\ NextSubroutine
    /\ at' = "run"
    /\ UNCHANGED <<requests, nst, used, port, buffer>>

-----------------------------------------------------------------------------
(* The network stack, and the listener for its messages (PortListener).      *)

Request == Head(requests)

TakeRequest ==
    /\ ~Running
    /\ requests # <<>>
    /\ nst = Idle
    /\ nst' = [Idle EXCEPT !.total = NumberOf(Request)]
    /\ UNCHANGED <<vars, at, requests, used, port, buffer>>

\* A position for the next pair.  (A measure-directly request that finds none
\* raises, see QubitMemory; the programs leave one free for it.)
AllocateComm ==
    /\ ~Running
    /\ nst # Idle /\ ~nst.holds
    /\ used < program.device
    /\ nst' = [nst EXCEPT !.holds = TRUE]
    /\ used' = used + 1
    /\ UNCHANGED <<vars, at, requests, port, buffer>>

\* Results of the pairs ks are written.
WriteResults(ks) ==
    arrays' = [arrays EXCEPT ![Request.results] = WithResults(@, ks, Request.outcomes)]

\* On to the next request, or to pair k of this one.
RequestDone == nst' = Idle /\ requests' = Tail(requests)
Proceed(k) ==
    \/ k = nst.total /\ RequestDone
    \/ /\ k < nst.total
       /\ nst' = [nst EXCEPT !.pair = k, !.holds = FALSE]
       /\ UNCHANGED requests

\* Mutant of PairDelivered: every result is written to the first slice.
PairDeliveredFirst ==
    /\ ~Running
    /\ nst.holds
    /\ TypeOf(Request) = CK
    /\ LET k == nst.pair
           v == arrays[Request.qubits][k]
       IN  /\ qubits' = (v :> <<Request.outcomes[k]>>) @@ qubits
           /\ arrays' = [arrays EXCEPT ![Request.results] =
                  WithResults(@, {0}, [j \in {0} |-> Request.outcomes[k]])]
           /\ Proceed(k + 1)
    /\ port' = port + 1
    /\ UNCHANGED <<program, sub, pc, regs, at, used, buffer>>

\* A kept pair: its virtual ID is mapped, whatever it stood for before.
PairDelivered ==
    /\ ~Running
    /\ nst.holds
    /\ TypeOf(Request) = CK
    /\ LET k == nst.pair
           v == arrays[Request.qubits][k]
       IN  /\ qubits' = (v :> <<Request.outcomes[k]>>) @@ qubits
           /\ WriteResults({k})
           /\ Proceed(k + 1)
    /\ port' = port + 1
    /\ UNCHANGED <<program, sub, pc, regs, at, used, buffer>>

\* Measured pairs: the results are written all at once.  The creator sends one
\* message, the receiver one for every pair.
OutcomesDelivered ==
    /\ ~Running
    /\ nst.holds
    /\ TypeOf(Request) = MD
    /\ WriteResults(0 .. nst.total - 1)
    /\ RequestDone
    /\ used' = used - 1
    /\ port' = port + IF Request.op = "create_epr" THEN 1 ELSE nst.total
    /\ UNCHANGED <<program, sub, pc, regs, qubits, at, buffer>>

\* The listener reads the port and signals: wait_all takes one message.
Listen ==
    /\ ~Running
    /\ port > 0
    /\ port' = 0
    /\ \/ /\ at = "signal"
          /\ at' = "run"
          /\ buffer' = buffer + port - 1
       \/ /\ at # "signal"
          /\ buffer' = buffer + port
          /\ UNCHANGED at
    /\ UNCHANGED <<vars, requests, nst, used>>

-----------------------------------------------------------------------------
PNext ==
    \/ ExecClassical \/ ExecQAlloc \/ ExecQFree \/ DeviceStart \/ DeviceEnd
    \/ SubmitEpr \/ WaitAllReady \/ WaitAllAgain
    \/ SubroutineDone \/ SubroutineReceived
    \/ TakeRequest \/ AllocateComm \/ PairDelivered \/ OutcomesDelivered \/ Listen

PSpec == PInit /\ [][PNext]_pvars

\* The simulator runs until no event is left; the link layer delivers.
FairSpec == PSpec /\ WF_pvars(PNext)

-----------------------------------------------------------------------------
(* Correctness.                                                              *)

\* Every variable stays within its type; a processor that waits for a signal has
\* an empty buffer; every allocated position is a virtual qubit's or held for
\* the pair in the making.
TypeOK ==
    /\ program \in Programs
    /\ sub \in DOMAIN program.code
    /\ pc \in 0 .. Len(program.code[sub])
    /\ \A r \in DOMAIN regs : regs[r] = None \/ regs[r] \in Int
    /\ \A a \in DOMAIN arrays : \A i \in DOMAIN arrays[a] :
          arrays[a][i] = None \/ arrays[a][i] \in Int
    /\ \A v \in DOMAIN qubits : Len(qubits[v]) =< 1
    /\ at \in {"run", "device", "signal", "idle"}
    /\ at = "signal" => buffer = 0
    /\ {port, buffer} \subseteq Nat
    /\ nst.total > 0 => nst.pair \in 0 .. nst.total - 1 /\ requests # <<>>
    /\ used = Cardinality({v \in DOMAIN qubits : qubits[v] # <<>>})
              + IF nst.holds THEN 1 ELSE 0

\* The pairs of the i-th request that are still to be delivered.
FirstPair(i) == IF i = 1 THEN nst.pair ELSE 0
Pending(i) == FirstPair(i) .. NumberOf(requests[i]) - 1

\* The memory as it will be when the requests made so far are finished.
ResultsWritten ==
    [a \in DOMAIN arrays |->
        FoldLeftDomain(
            LAMBDA array, i :
                IF requests[i].results = a
                  THEN WithResults(array, Pending(i), requests[i].outcomes)
                  ELSE array,
            arrays[a], requests)]
PairsQueued ==
    [v \in DOMAIN qubits |-> qubits[v] \o FlattenSeq(
        [i \in DOMAIN requests |->
            PairsTo(v, requests[i], FirstPair(i), NumberOf(requests[i]),
                    requests[i].outcomes)])]

Sequential == INSTANCE NetQasm WITH arrays <- ResultsWritten, qubits <- PairsQueued

\* Asynchronous execution means what the program says: as if each request were
\* finished at once.  wait_all never returns on missing or stale results, every
\* pair lands in its slice of the results and under its virtual ID, and no pair
\* replaces one that is still in use.
Implements == Sequential!Spec

\* Every subroutine ends: wait_all misses no result, whatever messages are left
\* over or flushed before it waits, and no instruction finds its operand missing.
Done == sub = Len(program.code) /\ at = "idle" /\ requests = <<>>
Completion == <>Done

\* What the interpreter computes: the registers hold what the program's author
\* expects of its branches, loops and arithmetic.
Computes == Done => \A r \in DOMAIN program.result : regs[r] = program.result[r]
=============================================================================
