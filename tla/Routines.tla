------------------------------ MODULE Routines ------------------------------
(***************************************************************************)
(* The routines that programs on different nodes run together              *)
(* (util/routines.py, util/qkd_routine.py): teleportation, distributed     *)
(* CNOT and CPhase, GHZ states along a line of nodes, key distribution.    *)
(*                                                                         *)
(* A node's program calls routines one after the other.  A flush with an   *)
(* EPR request ends when the peer has made the matching request; classical *)
(* sockets are FIFO.  The quantum state is kept as far as the routines     *)
(* reason about it: for each pair, the Pauli error that measurements at    *)
(* one end leave at the other until it is corrected.                       *)
(***************************************************************************)
EXTENDS Integers, Sequences, FiniteSets, TLC

CONSTANTS
    Nodes,      \* the nodes
    Programs,   \* for each program and node, the calls of routines
    NumEpr,     \* pairs of a key distribution
    NumTest     \* num_test_bits

Roles == {"send", "recv", "control", "target", "start", "middle", "end", "init", "peer"}

ASSUME RoutinesAssumption ==
    /\ NumEpr \in Nat \ {0}
    /\ NumTest \in Nat \ {0}
    /\ \A p \in Programs : \A n \in Nodes : \A i \in DOMAIN p[n] :
          /\ p[n][i].role \in Roles
          /\ {p[n][i].down, p[n][i].up} \subseteq Nodes
          /\ p[n][i].do_corrections \in BOOLEAN

VARIABLES
    calls,      \* calls[n]: the calls n has not returned from
    at,         \* at[n]: what n does in the first of them
    local,      \* local[n]: local variables of that call
    chan,       \* chan[n][m]: messages from n to m
    creates,    \* creates[n][m]: pairs that n asked for as creator, with m
    recvs,      \* recvs[n][m]: pairs that n asked for as receiver, with m
    frame,      \* frame[p]: error left on the receiver's qubit (x), or on the
                \* creator's (z; for a teleported qubit, the receiver's)
    returned    \* returned[n]: what n's calls returned

vars == <<calls, at, local, chan, creates, recvs, frame, returned>>
epr == <<creates, recvs>>

Bit == {0, 1}
Clear == [x |-> 0, z |-> 0]
Fresh == [m |-> 0, bases |-> <<>>, outcomes |-> <<>>, same |-> {}, test |-> {}]

Init ==
    /\ calls \in Programs
    /\ at = [n \in Nodes |-> "call"]
    /\ local = [n \in Nodes |-> Fresh]
    /\ chan = [n \in Nodes |-> [m \in Nodes |-> <<>>]]
    /\ creates = [n \in Nodes |-> [m \in Nodes |-> 0]]
    /\ recvs = [n \in Nodes |-> [m \in Nodes |-> 0]]
    /\ frame = <<>>
    /\ returned = [n \in Nodes |-> <<>>]

Call(n) == Head(calls[n])
In(n, role, label) == calls[n] # <<>> /\ Call(n).role \in role /\ at[n] = label

\* The routines with one pair: the peer is "up" for the creator of the pair and
\* "down" for its receiver, as in create_ghz.
Creators == {"send", "control", "init", "start"}
Receivers == {"recv", "target", "peer", "end"}
Peer(n) == IF Call(n).role \in Creators THEN Call(n).up ELSE Call(n).down

\* The pair that n has with its upper or lower neighbour in this call.
UpPair(n) == <<n, Call(n).up, creates[n][Call(n).up]>>
DownPair(n) == <<Call(n).down, n, recvs[n][Call(n).down]>>

AskUp(n) ==
    /\ creates' = [creates EXCEPT ![n][Call(n).up] = @ + 1]
    /\ UNCHANGED recvs
AskDown(n) ==
    /\ recvs' = [recvs EXCEPT ![n][Call(n).down] = @ + 1]
    /\ UNCHANGED creates
Ask(n) == IF Call(n).role \in Creators THEN AskUp(n) ELSE AskDown(n)

\* The network stacks have made the pair that n asked for last.
UpReady(n) == recvs[Call(n).up][n] >= creates[n][Call(n).up]
DownReady(n) == creates[Call(n).down][n] >= recvs[n][Call(n).down]
Ready(n) == IF Call(n).role \in Creators THEN UpReady(n) ELSE DownReady(n)

Goto(n, label) == at' = [at EXCEPT ![n] = label]
Send(n, m, msg) == chan' = [chan EXCEPT ![n][m] = Append(@, msg)]
HasMsg(n, m) == chan[m][n] # <<>>
Msg(n, m) == Head(chan[m][n])
Recv(n, m) == chan' = [chan EXCEPT ![m][n] = Tail(@)]
RecvSend(n, m, to, msg) ==
    chan' = [[chan EXCEPT ![m][n] = Tail(@)] EXCEPT ![n][to] = Append(@, msg)]

\* Mutant of Flip: the sum is not reduced.
FlipSum(b, c) == b + c

Flip(b, c) == (b + c) % 2
\* The error of pair p changes by x and z.
Hit(f, p, x, z) ==
    LET e == IF p \in DOMAIN f THEN f[p] ELSE Clear
    IN  (p :> [x |-> Flip(e.x, x), z |-> Flip(e.z, z)]) @@ f

Return(n, value) ==
    /\ returned' = [returned EXCEPT ![n] = Append(@, value)]
    /\ calls' = [calls EXCEPT ![n] = Tail(@)]
    /\ at' = [at EXCEPT ![n] = "call"]
    /\ local' = [local EXCEPT ![n] = Fresh]

-----------------------------------------------------------------------------
(* Teleportation and distributed gates.                                      *)

Pairwise == {"send", "recv", "control", "target"}

Begin(n) ==
    /\ In(n, Pairwise, "call")
    /\ Ask(n)
    /\ Goto(n, "epr")
    /\ UNCHANGED <<calls, local, chan, frame, returned>>

\* teleport_send: the Bell measurement leaves X^m2 Z^m1 on the peer's qubit.
TeleportSend(n) ==
    /\ In(n, {"send"}, "epr")
    /\ Ready(n)
    /\ \E m1, m2 \in Bit :
          /\ frame' = Hit(frame, UpPair(n), m2, m1)
          /\ Send(n, Peer(n), <<m1, m2>>)
    /\ Return(n, [pairs |-> {UpPair(n)}, m |-> 0])
    /\ UNCHANGED epr

\* teleport_recv and the gates' targets: the first flush ends.
PairReceived(n) ==
    /\ In(n, {"recv", "target"}, "epr")
    /\ Ready(n)
    /\ Goto(n, "msg")
    /\ UNCHANGED <<calls, local, chan, epr, frame, returned>>

\* Mutant of TeleportRecv: the corrections are swapped.
TeleportRecvSwapped(n) ==
    /\ In(n, {"recv"}, "msg")
    /\ HasMsg(n, Peer(n))
    /\ LET m == Msg(n, Peer(n))
       IN  frame' = Hit(frame, DownPair(n), m[1], m[2])
    /\ Recv(n, Peer(n))
    /\ Return(n, [pairs |-> {DownPair(n)}, m |-> 0])
    /\ UNCHANGED epr

TeleportRecv(n) ==
    /\ In(n, {"recv"}, "msg")
    /\ HasMsg(n, Peer(n))
    /\ LET m == Msg(n, Peer(n))
       IN  frame' = Hit(frame, DownPair(n), m[2], m[1])
    /\ Recv(n, Peer(n))
    /\ Return(n, [pairs |-> {DownPair(n)}, m |-> 0])
    /\ UNCHANGED epr

\* The control of a distributed gate measures its half of the pair, which leaves
\* X on the other half.
ControlMeasured(n) ==
    /\ In(n, {"control"}, "epr")
    /\ Ready(n)
    /\ \E m \in Bit :
          /\ frame' = Hit(frame, UpPair(n), m, 0)
          /\ Send(n, Peer(n), m)
    /\ Goto(n, "msg")
    /\ UNCHANGED <<calls, local, epr, returned>>

\* The target corrects its half, uses it as the control of the local gate and
\* measures it, which leaves Z on the remote control.
TargetMeasured(n) ==
    /\ In(n, {"target"}, "msg")
    /\ HasMsg(n, Peer(n))
    /\ \E m \in Bit :
          /\ frame' = Hit(frame, DownPair(n), Msg(n, Peer(n)), m)
          /\ RecvSend(n, Peer(n), Peer(n), m)
    /\ Return(n, [pairs |-> {DownPair(n)}, m |-> 0])
    /\ UNCHANGED epr

ControlCorrected(n) ==
    /\ In(n, {"control"}, "msg")
    /\ HasMsg(n, Peer(n))
    /\ frame' = Hit(frame, UpPair(n), 0, Msg(n, Peer(n)))
    /\ Recv(n, Peer(n))
    /\ Return(n, [pairs |-> {UpPair(n)}, m |-> 0])
    /\ UNCHANGED epr

-----------------------------------------------------------------------------
(* create_ghz: the x of a pair is how its upper node differs from its lower. *)

\* Mutant of GhzBegin: the end does not tell the node below that it is ready.
GhzBeginSilent(n) ==
    /\ \/ In(n, {"start"}, "call") /\ Goto(n, "ready") /\ UNCHANGED <<chan, epr>>
       \/ /\ In(n, {"middle"}, "call")
          /\ Send(n, Call(n).down, "")
          /\ Goto(n, "ready")
          /\ UNCHANGED epr
       \/ In(n, {"end"}, "call") /\ AskDown(n) /\ Goto(n, "epr") /\ UNCHANGED chan
    /\ UNCHANGED <<calls, local, frame, returned>>

\* All but the start tell the node below that they are ready; all but the end
\* wait for the node above.
GhzBegin(n) ==
    /\ \/ In(n, {"start"}, "call") /\ Goto(n, "ready") /\ UNCHANGED <<chan, epr>>
       \/ /\ In(n, {"middle"}, "call")
          /\ Send(n, Call(n).down, "")
          /\ Goto(n, "ready")
          /\ UNCHANGED epr
       \/ /\ In(n, {"end"}, "call")
          /\ Send(n, Call(n).down, "")
          /\ AskDown(n)
          /\ Goto(n, "epr")
    /\ UNCHANGED <<calls, local, frame, returned>>

GhzReady(n) ==
    /\ In(n, {"start", "middle"}, "ready")
    /\ HasMsg(n, Call(n).up)
    /\ Recv(n, Call(n).up)
    /\ Ask(n)
    /\ Goto(n, "epr")
    /\ UNCHANGED <<calls, local, frame, returned>>

\* The middle's subroutine has its lower pair and asks for the upper one.
GhzMiddle(n) ==
    /\ In(n, {"middle"}, "epr")
    /\ DownReady(n)
    /\ AskUp(n)
    /\ Goto(n, "epr up")
    /\ UNCHANGED <<calls, local, chan, frame, returned>>

\* The subroutine has ended with outcome m (0 but in the middle).
PairsOf(n) ==
    CASE Call(n).role = "start" -> {UpPair(n)}
      [] Call(n).role = "middle" -> {UpPair(n), DownPair(n)}
      [] Call(n).role = "end" -> {DownPair(n)}
GhzFlushed(n) ==
    /\ \/ In(n, {"start", "end"}, "epr") /\ Ready(n)
       \/ In(n, {"middle"}, "epr up") /\ UpReady(n)
    /\ \E m \in IF Call(n).role = "middle" THEN Bit ELSE {0} :
          /\ frame' = IF m = 0 THEN frame ELSE Hit(frame, UpPair(n), 1, 0)
          /\ \/ /\ ~Call(n).do_corrections
                /\ Return(n, [pairs |-> PairsOf(n), m |-> m])
                /\ UNCHANGED chan
             \/ /\ Call(n).do_corrections
                /\ Call(n).role = "start"
                /\ Send(n, Call(n).up, 0)
                /\ Return(n, [pairs |-> PairsOf(n), m |-> 0])
             \/ /\ Call(n).do_corrections
                /\ Call(n).role # "start"
                /\ local' = [local EXCEPT ![n].m = m]
                /\ Goto(n, "corr")
                /\ UNCHANGED <<calls, chan, returned>>
    /\ UNCHANGED epr

\* An X on n's qubit, if corr = 1.
FlipQubit(n, corr) ==
    LET below == Hit(frame, DownPair(n), corr, 0)
    IN  IF Call(n).role = "middle" THEN Hit(below, UpPair(n), corr, 0) ELSE below

\* Mutant of GhzCorrect: the node forwards its own outcome only.
GhzCorrectOwn(n) ==
    /\ In(n, {"middle", "end"}, "corr")
    /\ HasMsg(n, Call(n).down)
    /\ LET corr == Msg(n, Call(n).down)
       IN  /\ frame' = FlipQubit(n, corr)
           /\ \/ /\ Call(n).role = "middle"
                 /\ RecvSend(n, Call(n).down, Call(n).up, local[n].m)
              \/ Call(n).role = "end" /\ Recv(n, Call(n).down)
    /\ Return(n, [pairs |-> PairsOf(n), m |-> 0])
    /\ UNCHANGED epr

GhzCorrect(n) ==
    /\ In(n, {"middle", "end"}, "corr")
    /\ HasMsg(n, Call(n).down)
    /\ LET corr == Msg(n, Call(n).down)
       IN  /\ frame' = FlipQubit(n, corr)
           /\ \/ /\ Call(n).role = "middle"
                 /\ RecvSend(n, Call(n).down, Call(n).up, Flip(corr, local[n].m))
              \/ Call(n).role = "end" /\ Recv(n, Call(n).down)
    /\ Return(n, [pairs |-> PairsOf(n), m |-> 0])
    /\ UNCHANGED epr

-----------------------------------------------------------------------------
(* Key distribution.  The link may be noisy: outcomes are arbitrary.         *)

QkdRoles == {"init", "peer"}
Indices == 1 .. NumEpr
Message(kind, payload) == [kind |-> kind, payload |-> payload]

\* _distribute_states: the next pair is asked for.
QkdAsk(n) ==
    /\ In(n, QkdRoles, "call")
    /\ Ask(n)
    /\ Goto(n, "epr")
    /\ UNCHANGED <<calls, local, chan, frame, returned>>

\* The pair is measured in a random basis; after the last, the initiator sends
\* its bases.
QkdMeasured(n) ==
    /\ In(n, QkdRoles, "epr")
    /\ Ready(n)
    /\ \E basis, outcome \in Bit :
         LET bases == Append(local[n].bases, basis)
         IN  /\ local' = [local EXCEPT ![n] = [@ EXCEPT
                             !.bases = bases, !.outcomes = Append(@, outcome)]]
             /\ \/ Len(bases) < NumEpr /\ Goto(n, "call") /\ UNCHANGED chan
                \/ /\ Len(bases) = NumEpr
                   /\ Goto(n, "bases")
                   /\ IF Call(n).role = "init"
                        THEN Send(n, Peer(n), Message("Bases", bases))
                        ELSE UNCHANGED chan
    /\ UNCHANGED <<calls, epr, frame, returned>>

\* _filter_bases, and the initiator's choice of test bits: as many as asked for,
\* if there are.
QkdBases(n) ==
    /\ In(n, QkdRoles, "bases")
    /\ HasMsg(n, Peer(n))
    /\ LET remote == Msg(n, Peer(n)).payload
           same == {i \in Indices : local[n].bases[i] = remote[i]}
           size == IF NumTest < Cardinality(same) THEN NumTest ELSE Cardinality(same)
       IN  \/ /\ Call(n).role = "init"
              /\ \E test \in {s \in SUBSET same : Cardinality(s) = size} :
                    /\ local' = [local EXCEPT ![n].same = same, ![n].test = test]
                    /\ RecvSend(n, Peer(n), Peer(n), Message("Test indices", test))
              /\ Goto(n, "outcomes")
           \/ /\ Call(n).role = "peer"
              /\ local' = [local EXCEPT ![n].same = same]
              /\ RecvSend(n, Peer(n), Peer(n), Message("Bases", local[n].bases))
              /\ Goto(n, "indices")
    /\ UNCHANGED <<calls, epr, frame, returned>>

\* Outcomes of the test bits.
TestOutcomes(n, test) == [i \in test |-> local[n].outcomes[i]]

QkdIndices(n) ==
    /\ In(n, {"peer"}, "indices")
    /\ HasMsg(n, Peer(n))
    /\ LET test == Msg(n, Peer(n)).payload
       IN  /\ local' = [local EXCEPT ![n].test = test]
           /\ RecvSend(n, Peer(n), Peer(n),
                       Message("Test outcomes", TestOutcomes(n, test)))
    /\ Goto(n, "outcomes")
    /\ UNCHANGED <<calls, epr, frame, returned>>

\* What run returns: the raw key, by index, and the number of errors.
KeyAndErrors(n, theirs, keyBits) ==
    [pairs |-> {}, m |-> 0, peer |-> Peer(n),
     key |-> [i \in keyBits |-> local[n].outcomes[i]],
     test |-> local[n].test,
     errors |-> Cardinality({i \in local[n].test : local[n].outcomes[i] # theirs[i]})]

\* Mutant of KeyBits: the tested bits stay in the key.
KeyBitsAll(n) == local[n].same

KeyBits(n) == local[n].same \ local[n].test

QkdOutcomes(n) ==
    /\ In(n, QkdRoles, "outcomes")
    /\ HasMsg(n, Peer(n))
    /\ \/ /\ Call(n).role = "init"
          /\ RecvSend(n, Peer(n), Peer(n),
                      Message("Test outcomes", TestOutcomes(n, local[n].test)))
       \/ Call(n).role = "peer" /\ Recv(n, Peer(n))
    /\ Return(n, KeyAndErrors(n, Msg(n, Peer(n)).payload, KeyBits(n)))
    /\ UNCHANGED <<epr, frame>>

-----------------------------------------------------------------------------
Next ==
    \E n \in Nodes :
        \/ Begin(n) \/ TeleportSend(n) \/ PairReceived(n) \/ TeleportRecv(n)
        \/ ControlMeasured(n) \/ TargetMeasured(n) \/ ControlCorrected(n)
        \/ GhzBegin(n) \/ GhzReady(n) \/ GhzMiddle(n) \/ GhzFlushed(n) \/ GhzCorrect(n)
        \/ QkdAsk(n) \/ QkdMeasured(n) \/ QkdBases(n) \/ QkdIndices(n) \/ QkdOutcomes(n)

Spec == Init /\ [][Next]_vars

\* The simulator runs until no event is left.
FairSpec == Spec /\ WF_vars(Next)

-----------------------------------------------------------------------------
(* Correctness.                                                              *)

Labels == {"call", "ready", "epr", "epr up", "msg", "corr", "bases", "indices", "outcomes"}

\* Type invariant.  Pauli errors and outcomes are bits; tested bits are among
\* those with equal bases.
TypeOK ==
    /\ at \in [Nodes -> Labels]
    /\ \A n \in Nodes :
          /\ local[n].m \in Bit
          /\ local[n].same \subseteq DOMAIN local[n].bases
          /\ local[n].test \subseteq local[n].same
          /\ Len(local[n].outcomes) = Len(local[n].bases)
          /\ \A m \in Nodes : {creates[n][m], recvs[n][m]} \subseteq Nat
    /\ \A p \in DOMAIN frame : frame[p] \in [x : Bit, z : Bit]

\* What n returned from the call that used pair p.
ReturnedFor(n, p) == {i \in DOMAIN returned[n] : p \in returned[n][i].pairs}

\* When both nodes of a pair have returned, no error is left on their qubits:
\* each outcome was applied once, by the right node, to the qubit it belongs to,
\* whatever calls came before or after on the same sockets.  A GHZ state without
\* corrections differs exactly as the lower node's returned outcome says.
Corrected ==
    \A p \in DOMAIN frame :
        \A i \in ReturnedFor(p[1], p), j \in ReturnedFor(p[2], p) :
            frame[p] = [x |-> returned[p[1]][i].m, z |-> 0]

\* The results of n's key distributions with m.
KeysOf(n, m) ==
    SelectSeq(returned[n], LAMBDA r : "key" \in DOMAIN r /\ r.peer = m)

\* Both ends of a key distribution keep the same bits and tested the same other
\* ones, so no bit whose outcome was sent is in a key, and they count the same
\* errors.
KeysAgree ==
    \A n, m \in Nodes : \A k \in DOMAIN KeysOf(n, m) \cap DOMAIN KeysOf(m, n) :
        LET mine == KeysOf(n, m)[k]
            theirs == KeysOf(m, n)[k]
        IN  /\ DOMAIN mine.key = DOMAIN theirs.key
            /\ mine.test = theirs.test
            /\ mine.test \cap DOMAIN theirs.key = {}
            /\ mine.errors = theirs.errors

\* Every program ends, with every message received: no call takes a message that
\* was meant for another one.
Completion ==
    <>(\A n \in Nodes : calls[n] = <<>> /\ \A m \in Nodes : chan[n][m] = <<>>)
=============================================================================
