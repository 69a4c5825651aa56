------------------------------ MODULE Netstack ------------------------------
(***************************************************************************)
(* The network stacks of all nodes (sim/stack/netstack.py), between the    *)
(* processors that submit EPR requests and the link layer that makes the   *)
(* pairs.                                                                  *)
(*                                                                         *)
(* A create request is sent to the peer, which answers "ready" once its    *)
(* own application asked to receive; then both put requests to the link    *)
(* layer (EGP), pair by pair for create-and-keep (CK) and once for         *)
(* measure-directly (MD).  The request is sent as a Python object: creator *)
(* and receiver share it, and the creator overwrites its `number`.         *)
(*                                                                         *)
(* What the processor does is given by a program per node: "epr" submits   *)
(* a request, "wait" is a wait_all on the results of one, "free" frees a   *)
(* delivered communication qubit.  The link layer is external; it is       *)
(* modelled by what netstack.py expects of it.                             *)
(***************************************************************************)
EXTENDS Integers, Sequences, FiniteSets

CONSTANTS
    Nodes,          \* the nodes of the network
    Programs,       \* the programs that the nodes may run: see NodeProgram
    NumComm         \* communication qubits of a node

Instrs ==
    [op : {"epr"}, role : {"create", "recv"}, peer : Nodes,
     type : {"CK", "MD", "R"}, number : Nat \ {0}]
    \cup [op : {"wait"}, epr : Nat, pairs : Nat]
    \cup [op : {"free"}]

\* The requests of n's code for pairs with m, and the place of one of them.
Requests(code, n, m) ==
    {i \in DOMAIN code[n] : code[n][i].op = "epr" /\ code[n][i].peer = m}
Rank(code, n, i) == Cardinality({j \in Requests(code, n, code[n][i].peer) : j < i})

\* The k-th requests of two nodes for each other are a create of pairs or of
\* outcomes and a receive.
MatchUp(code) ==
    \A n, m \in Nodes : \A i \in Requests(code, n, m), j \in Requests(code, m, n) :
        Rank(code, n, i) = Rank(code, m, j) =>
            code[n][i].role # code[m][j].role /\ code[n][i].type # "R"

\* A program: whether its requests match up (and, for Completion, are in an
\* order in which they can be served), and the instructions of each node.  A
\* request is named by its position in `code`.  Network stacks have ports to
\* their peers, none to themselves.
ASSUME NetstackAssumption ==
    /\ NumComm \in Nat \ {0}
    /\ \A p \in Programs :
          /\ p.matched \in BOOLEAN
          /\ p.code \in [Nodes -> Seq(Instrs)]
          /\ \A n \in Nodes : \A i \in DOMAIN p.code[n] :
                p.code[n][i].op = "epr" => p.code[n][i].peer # n
          /\ p.matched => MatchUp(p.code)

VARIABLES
    program,    \* the program being run; never changes
    pc,         \* pc[n]: program counter of the processor
    got,        \* got[n][i]: pairs of request i whose results are written
    inbox,      \* inbox[n]: requests the processor sent and run() did not take
    chan,       \* chan[n][m]: messages from the network stack of n to that of m
    number,     \* number[n][i]: the `number` field of n's request object i
    nst,        \* nst[n]: where n's network stack is suspended
    free,       \* free[n]: communication qubits not allocated
    freed,      \* freed[n]: SIGNAL_MEMORY_FREED events on their way to it
    creates,    \* EGP: creates[n][m]: create requests that n put, towards m
    recvs,      \* EGP: recvs[n][m]: receive requests that n put, for m's pairs
    making,     \* EGP: the create requests it is making pairs for
    crashed     \* an exception ended the simulation

puts == <<creates, recvs>>
vars == <<program, pc, got, inbox, chan, number, nst, free, freed, creates, recvs,
          making, crashed>>

Code(n) == program.code[n]
Req(n, i) == Code(n)[i]
Idle == [at |-> "idle", req |-> 0, total |-> 0, left |-> 0]
Peer(n) == Req(n, nst[n].req).peer

Init ==
    /\ program \in Programs
    /\ pc = [n \in Nodes |-> 1]
    /\ got = [n \in Nodes |-> [i \in DOMAIN Code(n) |-> 0]]
    /\ inbox = [n \in Nodes |-> <<>>]
    /\ chan = [n \in Nodes |-> [m \in Nodes |-> <<>>]]
    /\ number = [n \in Nodes |-> [i \in DOMAIN Code(n) |-> 0]]
    /\ nst = [n \in Nodes |-> Idle]
    /\ free = [n \in Nodes |-> NumComm]
    /\ freed = [n \in Nodes |-> 0]
    /\ creates = [n \in Nodes |-> [m \in Nodes |-> <<>>]]
    /\ recvs = [n \in Nodes |-> [m \in Nodes |-> 0]]
    /\ making = {}
    /\ crashed = FALSE

-----------------------------------------------------------------------------
(* The processor.                                                            *)

Executes(n, op) ==
    /\ pc[n] =< Len(Code(n))
    /\ Req(n, pc[n]).op = op
    /\ pc' = [pc EXCEPT ![n] = @ + 1]

\* create_epr and recv_epr only send the request on.
SubmitEpr(n) ==
    /\ Executes(n, "epr")
    /\ inbox' = [inbox EXCEPT ![n] = Append(@, pc[n])]
    /\ UNCHANGED <<program, got, chan, number, nst, free, freed, puts, making, crashed>>

WaitAll(n) ==
    /\ Executes(n, "wait")
    /\ got[n][Req(n, pc[n]).epr] >= Req(n, pc[n]).pairs
    /\ UNCHANGED <<program, got, inbox, chan, number, nst, free, freed, puts, making,
                   crashed>>

\* Mutant of QFree: no SIGNAL_MEMORY_FREED.
QFreeNoSignal(n) ==
    /\ Executes(n, "free")
    /\ free' = [free EXCEPT ![n] = @ + 1]
    /\ UNCHANGED <<program, got, inbox, chan, number, nst, freed, puts, making, crashed>>

QFree(n) ==
    /\ Executes(n, "free")
    /\ free' = [free EXCEPT ![n] = @ + 1]
    /\ freed' = [freed EXCEPT ![n] = @ + 1]
    /\ UNCHANGED <<program, got, inbox, chan, number, nst, puts, making, crashed>>

Processor(n) == SubmitEpr(n) \/ WaitAll(n) \/ QFree(n)

-----------------------------------------------------------------------------
(* Requests between the network stack and the link layer.                    *)

\* n puts its request to the link layer: a create as it is, or a ReqReceive.
Put(n, type, pairs) ==
    LET i == nst[n].req
    IN  IF Req(n, i).role = "create"
          THEN /\ creates' = [creates EXCEPT ![n][Req(n, i).peer] =
                                 Append(@, [type |-> type, pairs |-> pairs])]
               /\ UNCHANGED recvs
          ELSE /\ recvs' = [recvs EXCEPT ![n][Req(n, i).peer] = @ + 1]
               /\ UNCHANGED creates

\* The network stack goes on to wait at `at`, with `left` of `total` pairs to go.
Await(n, at, total, left) ==
    nst' = [nst EXCEPT ![n] = [@ EXCEPT !.at = at, !.total = total, !.left = left]]

\* Mutant of AskForPair: the pair is asked for before there is a qubit for it.
AskForPairEarly(n, total, left) ==
    /\ Put(n, "CK", 1)
    /\ IF free[n] > 0
         THEN /\ free' = [free EXCEPT ![n] = @ - 1]
              /\ Await(n, "pair", total, left)
         ELSE /\ Await(n, "comm", total, left)
              /\ UNCHANGED free

\* The next pair of a CK request: take a communication qubit and ask for one
\* pair, or wait for SIGNAL_MEMORY_FREED.
AskForPair(n, total, left) ==
    IF free[n] > 0
      THEN /\ free' = [free EXCEPT ![n] = @ - 1]
           /\ Put(n, "CK", 1)
           /\ Await(n, "pair", total, left)
      ELSE /\ Await(n, "comm", total, left)
           /\ UNCHANGED <<free, puts>>

\* An MD request is put as a whole before the first qubit is allocated, and
\* nobody catches the AllocError.
AskForOutcomes(n, total) ==
    \/ /\ free[n] > 0
       /\ free' = [free EXCEPT ![n] = @ - 1]
       /\ Put(n, "MD", total)
       /\ Await(n, "outcome", total, total)
       /\ UNCHANGED crashed
    \/ /\ free[n] = 0
       /\ crashed' = TRUE
       /\ UNCHANGED <<free, nst, puts>>

\* A request of a type that has no handler is done at once.
Finish(n) == nst' = [nst EXCEPT ![n] = Idle]

-----------------------------------------------------------------------------
(* The network stack.                                                        *)

\* Mutant of TakeRequest: `number` is overwritten before the request is sent.
TakeRequestSplitEarly(n) ==
    /\ nst[n].at = "idle"
    /\ inbox[n] # <<>>
    /\ LET i == Head(inbox[n])
           create == Req(n, i).role = "create"
       IN  /\ nst' = [nst EXCEPT ![n] =
                         [Idle EXCEPT !.at = IF create THEN "ack" ELSE "request", !.req = i]]
           /\ number' = [number EXCEPT ![n][i] = 1]
           /\ chan' = [chan EXCEPT ![n][Req(n, i).peer] = @ \o
                  IF create THEN <<[kind |-> "request", of |-> n, req |-> i]>> ELSE <<>>]
    /\ inbox' = [inbox EXCEPT ![n] = Tail(@)]
    /\ UNCHANGED <<program, pc, got, free, freed, puts, making, crashed>>

\* run takes the next request.  A create is sent to the peer at once; a receive
\* waits for whatever the peer sends.
TakeRequest(n) ==
    /\ nst[n].at = "idle"
    /\ inbox[n] # <<>>
    /\ LET i == Head(inbox[n])
           m == Req(n, i).peer
       IN  \/ /\ Req(n, i).role = "create"
              /\ number' = [number EXCEPT ![n][i] = Req(n, i).number]
              /\ chan' = [chan EXCEPT ![n][m] =
                             Append(@, [kind |-> "request", of |-> n, req |-> i])]
              /\ nst' = [nst EXCEPT ![n] = [Idle EXCEPT !.at = "ack", !.req = i]]
           \/ /\ Req(n, i).role = "recv"
              /\ nst' = [nst EXCEPT ![n] = [Idle EXCEPT !.at = "request", !.req = i]]
              /\ UNCHANGED <<number, chan>>
    /\ inbox' = [inbox EXCEPT ![n] = Tail(@)]
    /\ UNCHANGED <<program, pc, got, free, freed, puts, making, crashed>>

\* The creator takes any message from the peer for the acknowledgement.  It
\* splits a CK request into requests of one pair by overwriting `number`.
Acknowledged(n) ==
    /\ nst[n].at = "ack"
    /\ chan[Peer(n)][n] # <<>>
    /\ chan' = [chan EXCEPT ![Peer(n)][n] = Tail(@)]
    /\ LET i == nst[n].req
       IN  \/ /\ Req(n, i).type = "CK"
              /\ AskForPair(n, number[n][i], number[n][i])
              /\ number' = [number EXCEPT ![n][i] = 1]
              /\ UNCHANGED crashed
           \/ /\ Req(n, i).type = "MD"
              /\ AskForOutcomes(n, number[n][i])
              /\ UNCHANGED number
           \/ /\ Req(n, i).type = "R"
              /\ Finish(n)
              /\ UNCHANGED <<free, number, puts, crashed>>
    /\ UNCHANGED <<program, pc, got, inbox, freed, making>>

\* The receiver answers "ready" and reads type and number from the creator's
\* request object.
RequestReceived(n) ==
    /\ nst[n].at = "request"
    /\ chan[Peer(n)][n] # <<>>
    /\ LET msg == Head(chan[Peer(n)][n])
           type == IF msg.kind = "request" THEN Req(msg.of, msg.req).type ELSE "none"
           pairs == number[msg.of][msg.req]
       IN  /\ chan' = [chan EXCEPT
                          ![Peer(n)][n] = Tail(@),
                          ![n][Peer(n)] = Append(@, [kind |-> "ready"])]
           /\ \/ /\ type = "CK"
                 /\ AskForPair(n, pairs, pairs)
                 /\ UNCHANGED crashed
              \/ /\ type = "MD"
                 /\ AskForOutcomes(n, pairs)
              \/ /\ type \notin {"CK", "MD"}
                 /\ Finish(n)
                 /\ UNCHANGED <<free, puts, crashed>>
    /\ UNCHANGED <<program, pc, got, inbox, number, freed, making>>

\* A SIGNAL_MEMORY_FREED event; nobody but a CK request waits for one.
MemoryFreed(n) ==
    /\ freed[n] > 0
    /\ freed' = [freed EXCEPT ![n] = @ - 1]
    /\ IF nst[n].at = "comm"
         THEN AskForPair(n, nst[n].total, nst[n].left)
         ELSE UNCHANGED <<free, nst, puts>>
    /\ UNCHANGED <<program, pc, got, inbox, chan, number, making, crashed>>

\* Mutant of PairResult: the qubit is freed, as for a measured pair.
PairResultFrees(n) ==
    /\ nst[n].at = "pair"
    /\ got' = [got EXCEPT ![n][nst[n].req] = @ + 1]
    /\ free' = [free EXCEPT ![n] = @ + 1]
    /\ Finish(n)
    /\ UNCHANGED puts

\* The result of a CK pair: its qubit is the application's from now on, and its
\* results are written.
PairResult(n) ==
    /\ nst[n].at = "pair"
    /\ got' = [got EXCEPT ![n][nst[n].req] = @ + 1]
    /\ IF nst[n].left > 1
         THEN AskForPair(n, nst[n].total, nst[n].left - 1)
         ELSE Finish(n) /\ UNCHANGED <<free, puts>>

\* The result of an MD pair: its qubit is freed, and taken again for the next
\* one; after the last, all results are written.
OutcomeResult(n) ==
    /\ nst[n].at = "outcome"
    /\ IF nst[n].left > 1
         THEN /\ Await(n, "outcome", nst[n].total, nst[n].left - 1)
              /\ UNCHANGED <<got, free>>
         ELSE /\ got' = [got EXCEPT ![n][nst[n].req] = nst[n].total]
              /\ free' = [free EXCEPT ![n] = @ + 1]
              /\ Finish(n)
    /\ UNCHANGED puts

NetworkStack(n) ==
    TakeRequest(n) \/ Acknowledged(n) \/ RequestReceived(n) \/ MemoryFreed(n)

-----------------------------------------------------------------------------
(* The link layer (external): on each link it serves one create request at a *)
(* time, once the other end has put a receive request, and signals each pair *)
(* to both ends, in any order.                                               *)

EgpStart(c, r) ==
    /\ creates[c][r] # <<>>
    /\ recvs[r][c] > 0
    /\ \A w \in making : {w.creator, w.receiver} # {c, r}
    /\ making' = making \cup
          {[creator |-> c, receiver |-> r, type |-> Head(creates[c][r]).type,
            left |-> Head(creates[c][r]).pairs, todo |-> {c, r}]}
    /\ creates' = [creates EXCEPT ![c][r] = Tail(@)]
    /\ recvs' = [recvs EXCEPT ![r][c] = @ - 1]
    /\ UNCHANGED <<program, pc, got, inbox, chan, number, nst, free, freed, crashed>>

\* What is left of w after it has signalled its current pair to n.
Signalled(w, n) ==
    IF w.todo # {n} THEN {[w EXCEPT !.todo = @ \ {n}]}
    ELSE IF w.left > 1
      THEN {[w EXCEPT !.left = @ - 1, !.todo = {w.creator, w.receiver}]}
    ELSE {}

EgpResult(w, n) ==
    /\ making' = (making \ {w}) \cup Signalled(w, n)
    /\ Peer(n) \in {w.creator, w.receiver}
    /\ \/ w.type = "CK" /\ PairResult(n)
       \/ w.type = "MD" /\ OutcomeResult(n)
    /\ UNCHANGED <<program, pc, inbox, chan, number, freed, crashed>>

LinkLayer ==
    \/ \E c, r \in Nodes : EgpStart(c, r)
    \/ \E w \in making : \E n \in w.todo : EgpResult(w, n)

-----------------------------------------------------------------------------
Next ==
    /\ ~crashed
    /\ \/ \E n \in Nodes : Processor(n) \/ NetworkStack(n)
       \/ LinkLayer

Spec == Init /\ [][Next]_vars

\* The simulator runs until no event is left.
FairSpec == Spec /\ WF_vars(Next)

-----------------------------------------------------------------------------
(* Correctness.                                                              *)

\* Every variable stays within its type, and communication qubits are neither
\* lost nor made.
TypeOK ==
    /\ program \in Programs
    /\ \A n \in Nodes :
          /\ pc[n] \in 1 .. Len(Code(n)) + 1
          /\ got[n] \in [DOMAIN Code(n) -> Nat]
          /\ number[n] \in [DOMAIN Code(n) -> Nat]
          /\ \A k \in DOMAIN inbox[n] : inbox[n][k] \in 1 .. pc[n] - 1
          /\ nst[n].at \in {"idle", "ack", "request", "comm", "pair", "outcome"}
          /\ nst[n].at # "idle" => nst[n].req \in 1 .. pc[n] - 1
          /\ nst[n].left \in 0 .. nst[n].total
          /\ free[n] \in 0 .. NumComm
          /\ freed[n] \in Nat
    /\ crashed \in BOOLEAN

\* The applications' sessions: a create of c and the receive of r at the same
\* place among the requests that the two have for each other.
Sessions ==
    UNION {{[creator |-> c, create |-> x[1], receiver |-> r, receive |-> x[2],
             type |-> Req(c, x[1]).type, number |-> Req(c, x[1]).number] :
            x \in {y \in Requests(program.code, c, r) \X Requests(program.code, r, c) :
                      /\ Rank(program.code, c, y[1]) = Rank(program.code, r, y[2])
                      /\ Req(c, y[1]).role = "create" /\ Req(r, y[2]).role = "recv"}} :
          c, r \in Nodes}

\* The pairs that the receiving end of s agreed to, in progress or done.
Agreed(s) ==
    LET r == nst[s.receiver]
    IN  IF r.req = s.receive /\ r.at \in {"comm", "pair", "outcome"}
          THEN r.total
          ELSE got[s.receiver][s.receive]

Service == INSTANCE EprService WITH
    sessions <- Sessions,
    agreed <- [s \in Sessions |-> Agreed(s)],
    got <- [s \in Sessions |-> [creator |-> got[s.creator][s.create],
                                receiver |-> got[s.receiver][s.receive]]]

\* The network stacks implement EprService for every program whose requests
\* match up: each create meets the receive it was meant for, both ends get as
\* many pairs as the creator asked for, pair by pair, one request at a time.
Implements ==
    /\ Service!Init
    /\ [][program.matched => Service!Next]_(Service!vars)

\* Whenever the link layer signals a pair, the network stack at that end is
\* waiting for exactly that result: a signal nobody awaits would be lost, and
\* the application would wait forever.
ResultAwaited ==
    \A w \in making : \A n \in w.todo :
        /\ nst[n].at = IF w.type = "CK" THEN "pair" ELSE "outcome"
        /\ Peer(n) \in {w.creator, w.receiver} \ {n}

\* A program whose requests match up runs to its end: no network stack stays
\* blocked, on a peer, on a communication qubit or on the link layer.
AllDone == \A n \in Nodes : pc[n] > Len(Code(n)) /\ nst[n].at = "idle" /\ inbox[n] = <<>>
Completion == program.matched => <>[]AllDone
=============================================================================
