-------------------------- MODULE Netstack_proofs ---------------------------
(***************************************************************************)
(* Proofs about Netstack, for any nodes and any programs.  Also when their *)
(* requests do not match up, the link layer never signals a pair to a      *)
(* network stack that does not wait for exactly that pair; and when they   *)
(* do, the network stacks implement EprService.                            *)
(*                                                                         *)
(* The argument is about one pair of nodes at a time.  Each request of one *)
(* to the other sends one message and takes one, so the two are never more *)
(* than one request apart (Synchronised); and what the link layer was      *)
(* asked for and makes is determined by how far the two ends of the        *)
(* current session have come (Phase).  For the second part, the handshakes *)
(* that are over at both ends are counted: the next requests of the two    *)
(* for each other are at the same place, so they are those that match.     *)
(***************************************************************************)
EXTENDS Netstack, QueueLemmas

Messages == [kind : {"request"}, of : Nodes, req : Nat] \cup [kind : {"ready"}]
Ready == [kind |-> "ready"]

Asked == [type : {"CK", "MD"}, pairs : Nat]

Busy == {"comm", "pair", "outcome"}
States == {"idle", "ack", "request"} \cup Busy

Types ==
    /\ program \in Programs
    /\ pc \in [Nodes -> Nat \ {0}]
    /\ inbox \in [Nodes -> Seq(Nat)]
    /\ chan \in [Nodes -> [Nodes -> Seq(Messages)]]
    /\ nst \in [Nodes -> [at : States, req : Nat, total : Nat, left : Nat]]
    /\ free \in [Nodes -> Nat]
    /\ creates \in [Nodes -> [Nodes -> Seq(Asked)]]
    /\ recvs \in [Nodes -> [Nodes -> Nat]]
    /\ number = [n \in Nodes |-> number[n]]
    /\ crashed \in BOOLEAN

\* i is a request of n's program.
IsRequest(n, i) == i \in DOMAIN Code(n) /\ Req(n, i).op = "epr"

\* The network stacks' requests are their program's, in the state for their
\* role; `number` is as asked for until the acknowledgement.
Requested ==
    \A n \in Nodes :
        /\ \A k \in DOMAIN inbox[n] : IsRequest(n, inbox[n][k])
        /\ number[n] \in [DOMAIN Code(n) -> Nat]
        /\ nst[n].at # "idle" => IsRequest(n, nst[n].req)
        /\ nst[n].at = "ack" => /\ Req(n, nst[n].req).role = "create"
                                /\ number[n][nst[n].req] = Req(n, nst[n].req).number
        /\ nst[n].at = "request" => Req(n, nst[n].req).role = "recv"
        /\ nst[n].at \in Busy => nst[n].left > 0

-----------------------------------------------------------------------------
(* One end's view of another.                                                *)

\* What n's network stack is doing with m.
View(n, m) == IF nst[n].at # "idle" /\ Peer(n) = m THEN nst[n] ELSE Idle

Asking(n, m) == View(n, m).at = "ack"
Creating(n, m) == View(n, m).at \in Busy /\ Req(n, View(n, m).req).role = "create"
Receiving(n, m) == View(n, m).at \in Busy /\ Req(n, View(n, m).req).role = "recv"

\* The message of a request that was sent and not acknowledged.
Sent(n, m) ==
    IF Asking(n, m) THEN <<[kind |-> "request", of |-> n, req |-> View(n, m).req]>>
    ELSE <<>>

\* The two have finished as many handshakes with each other.
Level(n, m) == chan[n][m] = Sent(n, m) /\ chan[m][n] = Sent(m, n)

\* n has finished one more: its answer, or its own request, which m takes for
\* the answer, is on its way.
AheadWith(n, m, answer) ==
    /\ Asking(m, n)
    /\ chan[m][n] = <<>>
    /\ chan[n][m] = <<answer>> \o Sent(n, m)

Ahead(n, m) == \E answer \in Messages : AheadWith(n, m, answer)

Synchronised(n, m) == Level(n, m) \/ Ahead(n, m) \/ Ahead(m, n)

-----------------------------------------------------------------------------
(* The phases of c's creates towards r.                                      *)

Works(c, r) == {w \in making : w.creator = c /\ w.receiver = r}

\* A CK request asks for its pairs one by one, once there is a qubit for each.
PairsAsked(at) == IF at = "pair" THEN 1 ELSE 0
CreatesAsked(at) == IF at = "pair" THEN <<[type |-> "CK", pairs |-> 1]>> ELSE <<>>

\* The state in which a pair is awaited.
Awaiting(type) == IF type = "CK" THEN "pair" ELSE "outcome"

\* There is no session.
Unused(c, r) ==
    /\ ~Creating(c, r) /\ ~Receiving(r, c)
    /\ creates[c][r] = <<>> /\ recvs[r][c] = 0 /\ Works(c, r) = {}

\* r answered and has begun, c has not.
Begun(c, r) ==
    /\ AheadWith(r, c, Ready)
    /\ Receiving(r, c)
    /\ creates[c][r] = <<>> /\ Works(c, r) = {}
    /\ View(r, c).left = Req(c, View(c, r).req).number
    /\ \/ /\ Req(c, View(c, r).req).type = "CK"
          /\ View(r, c).at \in {"comm", "pair"}
          /\ recvs[r][c] = PairsAsked(View(r, c).at)
       \/ /\ Req(c, View(c, r).req).type = "MD"
          /\ View(r, c).at = "outcome"
          /\ recvs[r][c] = 1

\* c took r's own request for the answer, and r is not going to receive.
Stuck(c, r) ==
    /\ Creating(c, r) /\ ~Receiving(r, c)
    /\ recvs[r][c] = 0 /\ Works(c, r) = {}

\* Both go for the same pair, which is not being made.
Even(c, r) ==
    /\ Level(c, r)
    /\ Creating(c, r) /\ Receiving(r, c)
    /\ Works(c, r) = {}
    /\ View(c, r).left = View(r, c).left
    /\ \/ /\ View(c, r).at \in {"comm", "pair"} /\ View(r, c).at \in {"comm", "pair"}
          /\ creates[c][r] = CreatesAsked(View(c, r).at)
          /\ recvs[r][c] = PairsAsked(View(r, c).at)
       \/ /\ View(c, r).at = "outcome" /\ View(r, c).at = "outcome"
          /\ creates[c][r] = <<[type |-> "MD", pairs |-> View(c, r).left]>>
          /\ recvs[r][c] = 1

\* The pairs that n, whose view is v, had to go when w's current pair was begun.
ToGo(v, w, n) ==
    (IF v.at \in Busy THEN v.left ELSE 0) + (IF n \in w.todo THEN 0 ELSE 1)

\* w is being made.  An end that has its pair may be ahead by one, or be done.
MakingOf(w, c, r) ==
    /\ Level(c, r)
    /\ Works(c, r) = {w}
    /\ w.todo \in {{c}, {r}, {c, r}} /\ w.type \in {"CK", "MD"}
    /\ View(c, r).at \in Busy => Creating(c, r)
    /\ View(r, c).at \in Busy => Receiving(r, c)
    /\ c \in w.todo => View(c, r).at = Awaiting(w.type)
    /\ r \in w.todo => View(r, c).at = Awaiting(w.type)
    /\ ToGo(View(c, r), w, c) = ToGo(View(r, c), w, r)
    /\ \/ /\ w.type = "CK" /\ w.left = 1
          /\ View(c, r).at # "outcome" /\ View(r, c).at # "outcome"
          /\ creates[c][r] = IF c \in w.todo THEN <<>> ELSE CreatesAsked(View(c, r).at)
          /\ recvs[r][c] = IF r \in w.todo THEN 0 ELSE PairsAsked(View(r, c).at)
       \/ /\ w.type = "MD" /\ w.left = ToGo(View(c, r), w, c)
          /\ View(c, r).at \notin {"comm", "pair"} /\ View(r, c).at \notin {"comm", "pair"}
          /\ creates[c][r] = <<>> /\ recvs[r][c] = 0

Making(c, r) == \E w \in Works(c, r) : MakingOf(w, c, r)

Phase(c, r) == Unused(c, r) \/ Begun(c, r) \/ Stuck(c, r) \/ Even(c, r) \/ Making(c, r)

Work == [creator : Nodes, receiver : Nodes, type : {"CK", "MD"}, left : Nat,
         todo : SUBSET Nodes]

\* What the link layer makes is for two nodes, and it is not asked for pairs of a
\* node with itself.
BetweenNodes ==
    /\ \A w \in making : w \in Work /\ w.creator # w.receiver
    /\ \A n \in Nodes : recvs[n][n] = 0

InPhase == \A n, m \in Nodes : n # m => Synchronised(n, m) /\ Phase(n, m)

\* After an exception nothing happens any more, and the message that was to be
\* answered is gone.
IInv ==
    /\ Types /\ Requested /\ BetweenNodes
    /\ ResultAwaited
    /\ ~crashed => InPhase

-----------------------------------------------------------------------------
(* What a request of a program is.                                           *)
LEMMA RequestFacts ==
    ASSUME Types, NEW n \in Nodes, NEW i, IsRequest(n, i)
    PROVE  /\ i \in Nat
           /\ Req(n, i).role \in {"create", "recv"}
           /\ Req(n, i).peer \in Nodes /\ Req(n, i).peer # n
           /\ Req(n, i).type \in {"CK", "MD", "R"}
           /\ Req(n, i).number \in Nat /\ Req(n, i).number > 0
<1>1. program \in Programs /\ program.code \in [Nodes -> Seq(Instrs)]
  BY NetstackAssumption DEF Types
<1>2. i \in Nat /\ i \in DOMAIN program.code[n] /\ program.code[n][i].op = "epr"
  BY <1>1 DEF IsRequest, Req, Code
<1>3. program.code[n][i] \in Instrs /\ program.code[n][i].peer # n
  BY <1>1, <1>2, NetstackAssumption
<1>4. program.code[n][i] \in [op : {"epr"}, role : {"create", "recv"}, peer : Nodes,
                              type : {"CK", "MD", "R"}, number : Nat \ {0}]
  BY <1>2, <1>3 DEF Instrs
<1> QED
  BY <1>2, <1>3, <1>4 DEF Req, Code

(* A view is the network stack's state, or idle.                             *)
LEMMA ViewFacts ==
    ASSUME Types, NEW n \in Nodes, NEW m \in Nodes
    PROVE  /\ View(n, m) \in [at : States, req : Nat, total : Nat, left : Nat]
           /\ View(n, m).at # "idle" => View(n, m) = nst[n] /\ Peer(n) = m
           /\ nst[n].at # "idle" /\ Peer(n) = m => View(n, m) = nst[n]
           /\ nst[n].at = "idle" => View(n, m) = Idle
           /\ Idle.at = "idle"
BY DEF Types, View, Idle, States

(* Where an end is with the other decides what it sent and how it takes part. *)
LEMMA ViewStates ==
    ASSUME Types, Requested, NEW n \in Nodes, NEW m \in Nodes
    PROVE  /\ View(n, m).at = "idle" \/ View(n, m).at = "request" =>
                  ~Asking(n, m) /\ ~Creating(n, m) /\ ~Receiving(n, m) /\ Sent(n, m) = <<>>
           /\ View(n, m).at = "ack" =>
                  /\ Asking(n, m) /\ ~Creating(n, m) /\ ~Receiving(n, m)
                  /\ Sent(n, m) = <<[kind |-> "request", of |-> n, req |-> View(n, m).req]>>
           /\ View(n, m).at \in Busy =>
                  /\ ~Asking(n, m) /\ Sent(n, m) = <<>>
                  /\ View(n, m).left > 0
                  /\ Creating(n, m) <=> Req(n, View(n, m).req).role = "create"
                  /\ Receiving(n, m) <=> Req(n, View(n, m).req).role = "recv"
                  /\ Creating(n, m) <=> ~Receiving(n, m)
           /\ View(n, m).at # "idle" => IsRequest(n, View(n, m).req)
           /\ Sent(n, m) \in Seq(Messages)
           /\ Asking(n, m) <=> Sent(n, m) # <<>>
<1>1. /\ View(n, m).at # "idle" => View(n, m) = nst[n]
      /\ View(n, m).at \in States /\ View(n, m).req \in Nat
  BY ViewFacts
<1>2. /\ View(n, m).at # "idle" => IsRequest(n, View(n, m).req)
      /\ View(n, m).at \in Busy => View(n, m).left > 0
  BY <1>1 DEF Requested, Busy
<1>3. View(n, m).at # "idle" => Req(n, View(n, m).req).role \in {"create", "recv"}
  BY <1>2, RequestFacts
<1>4. Sent(n, m) \in Seq(Messages)
  <2>1. [kind |-> "request", of |-> n, req |-> View(n, m).req] \in Messages
    BY <1>1 DEF Messages
  <2> QED
    BY <2>1 DEF Sent
<1> QED
  BY <1>1, <1>2, <1>3, <1>4 DEF Asking, Creating, Receiving, Sent, Busy

-----------------------------------------------------------------------------
(* What two nodes are to each other depends on what is between them only.    *)
LEMMA Untouched ==
    ASSUME NEW c \in Nodes, NEW r \in Nodes, program' = program,
           View(c, r)' = View(c, r), View(r, c)' = View(r, c),
           chan'[c][r] = chan[c][r], chan'[r][c] = chan[r][c],
           creates'[c][r] = creates[c][r], recvs'[r][c] = recvs[r][c],
           Works(c, r)' = Works(c, r)
    PROVE  /\ Synchronised(c, r) => Synchronised(c, r)'
           /\ Phase(c, r) => Phase(c, r)'
<1>1. /\ Asking(c, r)' = Asking(c, r) /\ Asking(r, c)' = Asking(r, c)
      /\ Creating(c, r)' = Creating(c, r) /\ Receiving(r, c)' = Receiving(r, c)
  BY DEF Asking, Creating, Receiving, Req, Code
<1>2. Sent(c, r)' = Sent(c, r) /\ Sent(r, c)' = Sent(r, c)
  BY <1>1 DEF Sent
<1>3. /\ Level(c, r) => Level(c, r)'
      /\ \A a : AheadWith(c, r, a) => AheadWith(c, r, a)'
      /\ \A a : AheadWith(r, c, a) => AheadWith(r, c, a)'
  BY <1>1, <1>2 DEF Level, AheadWith
<1>4. Synchronised(c, r) => Synchronised(c, r)'
  BY <1>3 DEF Synchronised, Ahead
<1>5. Unused(c, r) => Unused(c, r)'
  BY <1>1 DEF Unused
<1>6. Begun(c, r) => Begun(c, r)'
  BY <1>1, <1>3 DEF Begun, Req, Code
<1>7. Stuck(c, r) => Stuck(c, r)'
  BY <1>1 DEF Stuck
<1>8. Even(c, r) => Even(c, r)'
  BY <1>1, <1>3 DEF Even
<1>9. Making(c, r) => Making(c, r)'
  BY <1>1, <1>3 DEF Making, MakingOf
<1> QED
  BY <1>4, <1>5, <1>6, <1>7, <1>8, <1>9 DEF Phase

(* A step of n on behalf of m changes n's view of m only.                    *)
LEMMA OneView ==
    ASSUME Types, program' = program,
           NEW n \in Nodes, NEW m \in Nodes, NEW v, nst' = [nst EXCEPT ![n] = v],
           nst[n].at # "idle" => Peer(n) = m,
           v.at # "idle" => Req(n, v.req).peer = m
    PROVE  /\ \A a, b \in Nodes : <<a, b>> # <<n, m>> => View(a, b)' = View(a, b)
           /\ View(n, m)' = IF v.at # "idle" THEN v ELSE Idle
<1>1. nst'[n] = v /\ \A a \in Nodes : a # n => nst'[a] = nst[a]
  BY DEF Types
<1>2. \A a, i : Req(a, i)' = Req(a, i)
  BY DEF Req, Code
<1>3. ASSUME NEW a \in Nodes, NEW b \in Nodes, a # n
      PROVE  View(a, b)' = View(a, b)
  BY <1>1, <1>2, <1>3 DEF View, Peer, Idle
<1>4. ASSUME NEW b \in Nodes, b # m
      PROVE  View(n, b)' = Idle /\ View(n, b) = Idle
  BY <1>1, <1>2, <1>4 DEF View, Peer, Idle
<1>5. View(n, m)' = IF v.at # "idle" THEN v ELSE Idle
  BY <1>1, <1>2 DEF View, Peer, Idle
<1> QED
  BY <1>3, <1>4, <1>5

(* So a step between n and m keeps the others where they are.                *)
LEMMA OneLink ==
    ASSUME InPhase, program' = program,
           NEW n \in Nodes, NEW m \in Nodes,
           \A a, b \in Nodes : <<a, b>> # <<n, m>> /\ <<a, b>> # <<m, n>> =>
               /\ View(a, b)' = View(a, b)
               /\ chan'[a][b] = chan[a][b]
               /\ creates'[a][b] = creates[a][b] /\ recvs'[a][b] = recvs[a][b]
               /\ Works(a, b)' = Works(a, b),
           Synchronised(n, m)', Phase(n, m)', Phase(m, n)'
    PROVE  InPhase'
<1> SUFFICES ASSUME NEW c \in Nodes, NEW r \in Nodes, c # r
             PROVE  Synchronised(c, r)' /\ Phase(c, r)'
  BY DEF InPhase
<1>1. Synchronised(m, n)'
  BY DEF Synchronised, Level
<1>2. CASE <<c, r>> = <<n, m>> \/ <<c, r>> = <<m, n>>
  BY <1>1, <1>2
<1>3. CASE <<c, r>> # <<n, m>> /\ <<c, r>> # <<m, n>>
  <2>1. <<r, c>> # <<n, m>> /\ <<r, c>> # <<m, n>>
    BY <1>3
  <2>2. Synchronised(c, r) /\ Phase(c, r)
    BY DEF InPhase
  <2> QED
    BY <1>3, <2>1, <2>2, Untouched
<1> QED
  BY <1>2, <1>3

-----------------------------------------------------------------------------
(* Changing what is between two nodes changes nothing else.                  *)
LEMMA OneEntry ==
    ASSUME NEW S, NEW f \in [Nodes -> [Nodes -> S]],
           NEW n \in Nodes, NEW m \in Nodes, NEW v \in S,
           NEW g, g = [f EXCEPT ![n][m] = v]
    PROVE  /\ g \in [Nodes -> [Nodes -> S]]
           /\ g[n][m] = v
           /\ \A a, b \in Nodes : <<a, b>> # <<n, m>> => g[a][b] = f[a][b]
<1>1. [f[n] EXCEPT ![m] = v] \in [Nodes -> S]
  OBVIOUS
<1>2. g \in [Nodes -> [Nodes -> S]]
  BY <1>1
<1>3. g[n][m] = v
  OBVIOUS
<1>4. ASSUME NEW a \in Nodes, NEW b \in Nodes, <<a, b>> # <<n, m>>
      PROVE  g[a][b] = f[a][b]
  <2>1. CASE a # n
    BY <2>1
  <2>2. CASE a = n
    BY <1>4, <2>2
  <2> QED
    BY <2>1, <2>2
<1> QED
  BY <1>2, <1>3, <1>4

(* What n asks of the link layer is between n and its peer.                  *)
LEMMA PutFacts ==
    ASSUME Types, NEW n \in Nodes, NEW m \in Nodes, m = Peer(n),
           NEW type \in {"CK", "MD"}, NEW pairs \in Nat, Put(n, type, pairs),
           Req(n, nst[n].req).role \in {"create", "recv"}
    PROVE  /\ creates' \in [Nodes -> [Nodes -> Seq(Asked)]]
           /\ recvs' \in [Nodes -> [Nodes -> Nat]]
           /\ \A a, b \in Nodes : <<a, b>> # <<n, m>> =>
                  creates'[a][b] = creates[a][b] /\ recvs'[a][b] = recvs[a][b]
           /\ Req(n, nst[n].req).role = "create" =>
                  /\ recvs'[n][m] = recvs[n][m]
                  /\ creates[n][m] = <<>> =>
                         creates'[n][m] = <<[type |-> type, pairs |-> pairs]>>
           /\ Req(n, nst[n].req).role = "recv" =>
                  creates'[n][m] = creates[n][m] /\ recvs'[n][m] = recvs[n][m] + 1
<1> DEFINE ask == [type |-> type, pairs |-> pairs]
           more == Append(creates[n][m], ask)
           once == recvs[n][m] + 1
<1>1. creates \in [Nodes -> [Nodes -> Seq(Asked)]] /\ recvs \in [Nodes -> [Nodes -> Nat]]
  BY DEF Types
<1>2. ask \in Asked /\ creates[n][m] \in Seq(Asked)
  BY <1>1 DEF Asked
<1>3. more \in Seq(Asked) /\ (creates[n][m] = <<>> => more = <<ask>>)
  <2> HIDE DEF ask
  <2>1. more \in Seq(Asked)
    BY <1>2
  <2>2. creates[n][m] = <<>> => more = <<ask>>
    BY <1>2
  <2> QED
    BY <2>1, <2>2
<1>4. once \in Nat
  BY <1>1
<1>5. CASE Req(n, nst[n].req).role = "create"
  <2>1. creates' = [creates EXCEPT ![n][m] = more] /\ recvs' = recvs
    BY <1>5 DEF Put, Peer
  <2> HIDE DEF more, ask
  <2>2. /\ creates' \in [Nodes -> [Nodes -> Seq(Asked)]] /\ creates'[n][m] = more
        /\ \A a, b \in Nodes : <<a, b>> # <<n, m>> => creates'[a][b] = creates[a][b]
    BY <1>1, <1>3, <2>1, OneEntry
  <2>3. creates[n][m] = <<>> => creates'[n][m] = <<[type |-> type, pairs |-> pairs]>>
    BY <2>2, <1>3 DEF ask
  <2> QED
    BY <1>1, <1>5, <2>1, <2>2, <2>3
<1>6. CASE Req(n, nst[n].req).role = "recv"
  <2>1. recvs' = [recvs EXCEPT ![n][m] = once] /\ creates' = creates
    BY <1>6 DEF Put, Peer
  <2>2. /\ recvs' \in [Nodes -> [Nodes -> Nat]] /\ recvs'[n][m] = once
        /\ \A a, b \in Nodes : <<a, b>> # <<n, m>> => recvs'[a][b] = recvs[a][b]
    BY <1>1, <1>4, <2>1, OneEntry
  <2> QED
    BY <1>1, <1>6, <2>1, <2>2
<1> QED
  BY <1>5, <1>6

(* Where a network stack waits next.                                         *)
LEMMA AwaitFacts ==
    ASSUME Types, NEW n \in Nodes, NEW at \in States, NEW total \in Nat, NEW left \in Nat,
           Await(n, at, total, left)
    PROVE  nst' = [nst EXCEPT ![n] = [at |-> at, req |-> nst[n].req, total |-> total,
                                      left |-> left]]
<1>1. nst[n] \in [at : States, req : Nat, total : Nat, left : Nat]
  BY DEF Types
<1> DEFINE v == [nst[n] EXCEPT !.at = at, !.total = total, !.left = left]
<1>2. /\ v \in [at : States, req : Nat, total : Nat, left : Nat]
      /\ v.at = at /\ v.req = nst[n].req /\ v.total = total /\ v.left = left
  BY <1>1
<1>3. nst' = [nst EXCEPT ![n] = v]
  BY DEF Await
<1> HIDE DEF v
<1>4. v = [at |-> at, req |-> nst[n].req, total |-> total, left |-> left]
  BY <1>2
<1> QED
  BY <1>3, <1>4

(* A CK request goes on to its next pair, or to wait for a qubit.            *)
LEMMA AskForPairFacts ==
    ASSUME Types, NEW n \in Nodes, NEW m \in Nodes, m = Peer(n),
           NEW total \in Nat, NEW left \in Nat, AskForPair(n, total, left),
           Req(n, nst[n].req).role \in {"create", "recv"}
    PROVE  \E at \in {"comm", "pair"} :
             /\ nst' = [nst EXCEPT ![n] = [at |-> at, req |-> nst[n].req, total |-> total,
                                           left |-> left]]
             /\ free' \in [Nodes -> Nat]
             /\ creates' \in [Nodes -> [Nodes -> Seq(Asked)]]
             /\ recvs' \in [Nodes -> [Nodes -> Nat]]
             /\ \A a, b \in Nodes : <<a, b>> # <<n, m>> =>
                    creates'[a][b] = creates[a][b] /\ recvs'[a][b] = recvs[a][b]
             /\ Req(n, nst[n].req).role = "create" =>
                    /\ recvs'[n][m] = recvs[n][m]
                    /\ creates[n][m] = <<>> => creates'[n][m] = CreatesAsked(at)
             /\ Req(n, nst[n].req).role = "recv" =>
                    /\ creates'[n][m] = creates[n][m]
                    /\ recvs'[n][m] = recvs[n][m] + PairsAsked(at)
<1>0. /\ free \in [Nodes -> Nat]
      /\ creates \in [Nodes -> [Nodes -> Seq(Asked)]] /\ recvs \in [Nodes -> [Nodes -> Nat]]
  BY DEF Types
<1>1. \A at \in States : Await(n, at, total, left) =>
          nst' = [nst EXCEPT ![n] = [at |-> at, req |-> nst[n].req, total |-> total,
                                     left |-> left]]
  BY AwaitFacts
<1>2. CASE free[n] > 0
  <2>1. /\ free' = [free EXCEPT ![n] = @ - 1]
        /\ Put(n, "CK", 1)
        /\ Await(n, "pair", total, left)
    BY <1>2 DEF AskForPair
  <2>2. free' \in [Nodes -> Nat]
    <3>1. free[n] - 1 \in Nat
      BY <1>0, <1>2
    <3> QED
      BY <1>0, <2>1, <3>1
  <2>3. /\ creates' \in [Nodes -> [Nodes -> Seq(Asked)]]
        /\ recvs' \in [Nodes -> [Nodes -> Nat]]
        /\ \A a, b \in Nodes : <<a, b>> # <<n, m>> =>
               creates'[a][b] = creates[a][b] /\ recvs'[a][b] = recvs[a][b]
        /\ Req(n, nst[n].req).role = "create" =>
               /\ recvs'[n][m] = recvs[n][m]
               /\ creates[n][m] = <<>> => creates'[n][m] = <<[type |-> "CK", pairs |-> 1]>>
        /\ Req(n, nst[n].req).role = "recv" =>
               creates'[n][m] = creates[n][m] /\ recvs'[n][m] = recvs[n][m] + 1
    BY <2>1, PutFacts
  <2>4. /\ CreatesAsked("pair") = <<[type |-> "CK", pairs |-> 1]>>
        /\ PairsAsked("pair") = 1
    BY DEF CreatesAsked, PairsAsked
  <2> QED
    BY <1>1, <2>1, <2>2, <2>3, <2>4 DEF States, Busy
<1>3. CASE ~(free[n] > 0)
  <2>1. Await(n, "comm", total, left) /\ UNCHANGED <<free, creates, recvs>>
    BY <1>3 DEF AskForPair, puts
  <2>2. /\ recvs[n][m] + 0 = recvs[n][m]
        /\ CreatesAsked("comm") = <<>> /\ PairsAsked("comm") = 0
    BY <1>0 DEF CreatesAsked, PairsAsked
  <2> QED
    BY <1>0, <1>1, <2>1, <2>2 DEF States, Busy
<1> QED
  BY <1>2, <1>3

(* An MD request is put as a whole, or nothing happens any more.             *)
LEMMA AskForOutcomesFacts ==
    ASSUME Types, NEW n \in Nodes, NEW m \in Nodes, m = Peer(n),
           NEW total \in Nat, AskForOutcomes(n, total),
           Req(n, nst[n].req).role \in {"create", "recv"}
    PROVE  \/ /\ crashed' = TRUE
              /\ UNCHANGED <<free, nst, creates, recvs>>
           \/ /\ crashed' = crashed
              /\ nst' = [nst EXCEPT ![n] = [at |-> "outcome", req |-> nst[n].req,
                                            total |-> total, left |-> total]]
              /\ free' \in [Nodes -> Nat]
              /\ creates' \in [Nodes -> [Nodes -> Seq(Asked)]]
              /\ recvs' \in [Nodes -> [Nodes -> Nat]]
              /\ \A a, b \in Nodes : <<a, b>> # <<n, m>> =>
                     creates'[a][b] = creates[a][b] /\ recvs'[a][b] = recvs[a][b]
              /\ Req(n, nst[n].req).role = "create" =>
                     /\ recvs'[n][m] = recvs[n][m]
                     /\ creates[n][m] = <<>> =>
                            creates'[n][m] = <<[type |-> "MD", pairs |-> total]>>
              /\ Req(n, nst[n].req).role = "recv" =>
                     creates'[n][m] = creates[n][m] /\ recvs'[n][m] = recvs[n][m] + 1
<1>0. free \in [Nodes -> Nat]
  BY DEF Types
<1>1. CASE free[n] = 0
  BY <1>1 DEF AskForOutcomes, puts
<1>2. CASE free[n] > 0
  <2>1. /\ free' = [free EXCEPT ![n] = @ - 1]
        /\ Put(n, "MD", total)
        /\ Await(n, "outcome", total, total)
        /\ crashed' = crashed
    BY <1>2 DEF AskForOutcomes
  <2>2. free' \in [Nodes -> Nat]
    <3>1. free[n] - 1 \in Nat
      BY <1>0, <1>2
    <3> QED
      BY <1>0, <2>1, <3>1
  <2>3. nst' = [nst EXCEPT ![n] = [at |-> "outcome", req |-> nst[n].req, total |-> total,
                                   left |-> total]]
    BY <2>1, AwaitFacts DEF States, Busy
  <2>4. /\ creates' \in [Nodes -> [Nodes -> Seq(Asked)]]
        /\ recvs' \in [Nodes -> [Nodes -> Nat]]
        /\ \A a, b \in Nodes : <<a, b>> # <<n, m>> =>
               creates'[a][b] = creates[a][b] /\ recvs'[a][b] = recvs[a][b]
        /\ Req(n, nst[n].req).role = "create" =>
               /\ recvs'[n][m] = recvs[n][m]
               /\ creates[n][m] = <<>> =>
                      creates'[n][m] = <<[type |-> "MD", pairs |-> total]>>
        /\ Req(n, nst[n].req).role = "recv" =>
               creates'[n][m] = creates[n][m] /\ recvs'[n][m] = recvs[n][m] + 1
    BY <2>1, PutFacts
  <2> QED
    BY <2>1, <2>2, <2>3, <2>4
<1> QED
  BY <1>1, <1>2 DEF AskForOutcomes
-----------------------------------------------------------------------------
(* A step of n in its dealings with m: m's side stays as it is.              *)
Aside(n, m) ==
    /\ program' = program
    /\ View(m, n)' = View(m, n)
    /\ creates'[m][n] = creates[m][n] /\ recvs'[m][n] = recvs[m][n]
    /\ Works(n, m)' = Works(n, m) /\ Works(m, n)' = Works(m, n)

(* What stays as it was seen from m when only n's work for m changes.        *)
LEMMA AsideFacts ==
    ASSUME NEW n \in Nodes, NEW m \in Nodes, Aside(n, m)
    PROVE  /\ Asking(m, n)' = Asking(m, n)
           /\ Creating(m, n)' = Creating(m, n) /\ Receiving(m, n)' = Receiving(m, n)
           /\ Sent(m, n)' = Sent(m, n)
<1>1. /\ Asking(m, n)' = Asking(m, n)
      /\ Creating(m, n)' = Creating(m, n) /\ Receiving(m, n)' = Receiving(m, n)
  BY DEF Aside, Asking, Creating, Receiving, Req, Code
<1> QED
  BY <1>1 DEF Sent, Aside

(* n is not at work, and does not begin to work.                             *)
LEMMA NotBusy ==
    ASSUME NEW n \in Nodes, NEW m \in Nodes, n # m, Aside(n, m),
           View(n, m).at \notin Busy, View(n, m)'.at \notin Busy,
           creates'[n][m] = creates[n][m], recvs'[n][m] = recvs[n][m],
           Making(n, m) \/ Making(m, n) => Level(n, m)',
           Phase(n, m), Phase(m, n), ~Begun(n, m)
    PROVE  Phase(n, m)' /\ Phase(m, n)'
<1>1. /\ ~Creating(n, m) /\ ~Receiving(n, m)
      /\ ~Creating(n, m)' /\ ~Receiving(n, m)'
  BY DEF Creating, Receiving
<1>2. Creating(m, n)' = Creating(m, n) /\ Receiving(m, n)' = Receiving(m, n)
  BY AsideFacts
<1>3. Unused(n, m) => Unused(n, m)'
  BY <1>1, <1>2 DEF Unused, Aside
<1>4. Unused(m, n) => Unused(m, n)'
  BY <1>1, <1>2 DEF Unused, Aside
<1>5. Stuck(m, n) => Stuck(m, n)'
  BY <1>1, <1>2 DEF Stuck, Aside
<1>6. ~Stuck(n, m) /\ ~Even(n, m) /\ ~Begun(m, n) /\ ~Even(m, n)
  BY <1>1 DEF Stuck, Even, Begun
<1>7. /\ View(n, m).at \notin {"comm", "pair", "outcome"}
      /\ View(n, m)'.at \notin {"comm", "pair", "outcome"}
  BY DEF Busy
<1>8. /\ CreatesAsked(View(n, m).at) = <<>> /\ CreatesAsked(View(n, m)'.at) = <<>>
      /\ PairsAsked(View(n, m).at) = 0 /\ PairsAsked(View(n, m)'.at) = 0
  BY <1>7 DEF CreatesAsked, PairsAsked
<1>9. \A w : /\ ToGo(View(n, m)', w, n) = ToGo(View(n, m), w, n)
             /\ ToGo(View(m, n)', w, m) = ToGo(View(m, n), w, m)
  BY DEF ToGo, Aside
<1>10. \A w : /\ View(n, m).at # Awaiting(w.type)
              /\ View(n, m)'.at # Awaiting(w.type)
  BY <1>7 DEF Awaiting
<1>11. ASSUME Making(n, m)  PROVE  Making(n, m)'
  <2>1. PICK w \in Works(n, m) : MakingOf(w, n, m)
    BY <1>11 DEF Making
  <2>2. Level(n, m)' /\ w \in Works(n, m)'
    BY <1>11, <2>1 DEF Aside
  <2>3. n \notin w.todo
    BY <1>10, <2>1 DEF MakingOf
  <2>4. MakingOf(w, n, m)'
    BY <1>1, <1>2, <1>7, <1>8, <1>9, <2>1, <2>2, <2>3 DEF MakingOf, Aside
  <2> QED
    BY <2>2, <2>4 DEF Making
<1>12. ASSUME Making(m, n)  PROVE  Making(m, n)'
  <2>1. PICK w \in Works(m, n) : MakingOf(w, m, n)
    BY <1>12 DEF Making
  <2>2. Level(m, n)' /\ w \in Works(m, n)'
    BY <1>12, <2>1 DEF Aside, Level
  <2>3. n \notin w.todo
    BY <1>10, <2>1 DEF MakingOf
  <2>4. MakingOf(w, m, n)'
    BY <1>1, <1>2, <1>7, <1>8, <1>9, <2>1, <2>2, <2>3 DEF MakingOf, Aside
  <2> QED
    BY <2>2, <2>4 DEF Making
<1> QED
  BY <1>3, <1>4, <1>5, <1>6, <1>11, <1>12 DEF Phase

(* Nothing is made between two that have a message to exchange.              *)
LEMMA NotMaking ==
    ASSUME Types, Requested, NEW n \in Nodes, NEW m \in Nodes, n # m,
           View(n, m).at \in {"ack", "request"}, chan[m][n] # <<>>
    PROVE  ~Making(n, m) /\ ~Making(m, n)
<1>1. ASSUME NEW w, MakingOf(w, n, m) \/ MakingOf(w, m, n)  PROVE  FALSE
  <2>1. chan[m][n] = Sent(m, n)
    BY <1>1 DEF MakingOf, Level
  <2>2. View(m, n).at = "ack"
    BY <2>1, ViewStates DEF Asking
  <2>3. View(n, m).at # Awaiting(w.type) /\ View(m, n).at # Awaiting(w.type)
    BY <2>2 DEF Awaiting
  <2>4. w.todo \in {{n}, {m}, {n, m}} /\ n \notin w.todo /\ m \notin w.todo
    BY <1>1, <2>3 DEF MakingOf
  <2> QED
    BY <2>4
<1> QED
  BY <1>1 DEF Making

(* n is at work as a creator, so m has no session as one.                    *)
LEMMA CreatorOnly ==
    ASSUME NEW n \in Nodes, NEW m \in Nodes, n # m, program' = program,
           View(m, n)' = View(m, n), creates'[m][n] = creates[m][n],
           recvs'[n][m] = recvs[n][m], Works(m, n)' = Works(m, n),
           Creating(n, m), ~Receiving(n, m), ~Receiving(n, m)',
           Phase(m, n)
    PROVE  Phase(m, n)'
<1>1. Creating(m, n)' = Creating(m, n)
  BY DEF Creating, Req, Code
<1>2. ~Begun(m, n) /\ ~Even(m, n)
  BY DEF Begun, Even
<1>3. ~Making(m, n)
  BY DEF Making, MakingOf, Creating
<1>4. Unused(m, n) => Unused(m, n)'
  BY <1>1 DEF Unused
<1>5. Stuck(m, n) => Stuck(m, n)'
  BY <1>1 DEF Stuck
<1> QED
  BY <1>2, <1>3, <1>4, <1>5 DEF Phase

(* n is at work as a receiver, so it has no session as a creator.            *)
LEMMA ReceiverOnly ==
    ASSUME NEW n \in Nodes, NEW m \in Nodes, n # m, program' = program,
           View(m, n)' = View(m, n), creates'[n][m] = creates[n][m],
           recvs'[m][n] = recvs[m][n], Works(n, m)' = Works(n, m),
           Receiving(n, m), ~Creating(n, m), ~Creating(n, m)',
           Phase(n, m)
    PROVE  Phase(n, m)'
<1>1. Receiving(m, n)' = Receiving(m, n)
  BY DEF Receiving, Req, Code
<1>2. ~Asking(n, m)
  BY DEF Receiving, Asking, Busy
<1>3. ~Begun(n, m) /\ ~Even(n, m) /\ ~Stuck(n, m)
  BY <1>2 DEF Begun, AheadWith, Even, Stuck
<1>4. ~Making(n, m)
  BY DEF Making, MakingOf, Receiving
<1>5. Unused(n, m) => Unused(n, m)'
  BY <1>1 DEF Unused
<1> QED
  BY <1>3, <1>4, <1>5 DEF Phase
-----------------------------------------------------------------------------
(* What a step of n's network stack with m does to the state: n goes to v.   *)
Dealing(n, m, v) ==
    /\ program' = program /\ making' = making
    /\ nst' = [nst EXCEPT ![n] = v]
    /\ nst[n].at # "idle" => Peer(n) = m
    /\ v.at # "idle" => Req(n, v.req).peer = m
    /\ \A a, b \in Nodes : <<a, b>> # <<n, m>> =>
           creates'[a][b] = creates[a][b] /\ recvs'[a][b] = recvs[a][b]
    /\ \A a, b \in Nodes : <<a, b>> # <<n, m>> /\ <<a, b>> # <<m, n>> =>
           chan'[a][b] = chan[a][b]

(* A step of n's work for m: what is left to show are their two phases.      *)
LEMMA DealingFacts ==
    ASSUME Types, BetweenNodes, NEW n \in Nodes, NEW m \in Nodes, n # m,
           NEW v, Dealing(n, m, v)
    PROVE  /\ Aside(n, m)
           /\ View(n, m)' = IF v.at # "idle" THEN v ELSE Idle
           /\ BetweenNodes'
           /\ InPhase /\ Synchronised(n, m)' /\ Phase(n, m)' /\ Phase(m, n)' => InPhase'
<1>1. /\ \A a, b \in Nodes : <<a, b>> # <<n, m>> => View(a, b)' = View(a, b)
      /\ View(n, m)' = IF v.at # "idle" THEN v ELSE Idle
  BY OneView, ZenonT(40) DEF Dealing
<1>2. \A a, b : Works(a, b)' = Works(a, b)
  BY DEF Dealing, Works
<1>3. Aside(n, m)
  BY <1>1, <1>2 DEF Aside, Dealing
<1>4. BetweenNodes'
  BY DEF BetweenNodes, Dealing
<1>5. ASSUME InPhase, Synchronised(n, m)', Phase(n, m)', Phase(m, n)'
      PROVE  InPhase'
  <2>1. \A a, b \in Nodes : <<a, b>> # <<n, m>> /\ <<a, b>> # <<m, n>> =>
            /\ View(a, b)' = View(a, b)
            /\ chan'[a][b] = chan[a][b]
            /\ creates'[a][b] = creates[a][b] /\ recvs'[a][b] = recvs[a][b]
            /\ Works(a, b)' = Works(a, b)
    BY <1>1, <1>2 DEF Dealing
  <2>2. program' = program
    BY DEF Dealing
  <2> QED
    BY <1>5, <2>1, <2>2, OneLink
<1> QED
  BY <1>1, <1>3, <1>4, <1>5

(* n takes a message from m and sends one.                                   *)
LEMMA TwoEntries ==
    ASSUME NEW S, NEW f \in [Nodes -> [Nodes -> S]],
           NEW n \in Nodes, NEW m \in Nodes, n # m, NEW out \in S, NEW in \in S
    PROVE  LET g == [f EXCEPT ![m][n] = in, ![n][m] = out]
           IN  /\ g \in [Nodes -> [Nodes -> S]]
               /\ g[n][m] = out /\ g[m][n] = in
               /\ \A a, b \in Nodes : <<a, b>> # <<n, m>> /\ <<a, b>> # <<m, n>> =>
                      g[a][b] = f[a][b]
<1> DEFINE half == [f EXCEPT ![m][n] = in]
           g == [half EXCEPT ![n][m] = out]
<1>1. /\ half \in [Nodes -> [Nodes -> S]] /\ half[m][n] = in
      /\ \A a, b \in Nodes : <<a, b>> # <<m, n>> => half[a][b] = f[a][b]
  BY OneEntry
<1>2. [f EXCEPT ![m][n] = in, ![n][m] = out] = g
  OBVIOUS
<1> HIDE DEF half
<1>3. g = [half EXCEPT ![n][m] = out]
  OBVIOUS
<1> HIDE DEF g
<1>4. /\ g \in [Nodes -> [Nodes -> S]] /\ g[n][m] = out
      /\ \A a, b \in Nodes : <<a, b>> # <<n, m>> => g[a][b] = half[a][b]
  BY <1>1, <1>3, OneEntry
<1>5. /\ g[m][n] = in
      /\ \A a, b \in Nodes : <<a, b>> # <<n, m>> /\ <<a, b>> # <<m, n>> =>
             g[a][b] = f[a][b]
  BY <1>1, <1>4
<1> QED
  BY <1>2, <1>4, <1>5, Zenon

(* The requests stay as they are; n's network stack goes to v.               *)
LEMMA RequestedFacts ==
    ASSUME Types, Requested, NEW n \in Nodes, NEW v, program' = program,
           nst' = [nst EXCEPT ![n] = v],
           \A a \in Nodes : a # n => inbox'[a] = inbox[a] /\ number'[a] = number[a],
           \A k \in DOMAIN inbox'[n] : IsRequest(n, inbox'[n][k]),
           number'[n] \in [DOMAIN Code(n) -> Nat],
           v.at # "idle" => IsRequest(n, v.req),
           v.at = "ack" => /\ Req(n, v.req).role = "create"
                           /\ number'[n][v.req] = Req(n, v.req).number,
           v.at = "request" => Req(n, v.req).role = "recv",
           v.at \in Busy => v.left > 0
    PROVE  Requested'
<1>1. nst'[n] = v /\ \A a \in Nodes : a # n => nst'[a] = nst[a]
  BY DEF Types
<1>2. \A a, i : /\ Req(a, i)' = Req(a, i)
                /\ IsRequest(a, i)' <=> IsRequest(a, i)
                /\ Code(a)' = Code(a)
  BY DEF IsRequest, Req, Code
<1> SUFFICES ASSUME NEW a \in Nodes
             PROVE  /\ \A k \in DOMAIN inbox'[a] : IsRequest(a, inbox'[a][k])
                    /\ number'[a] \in [DOMAIN Code(a) -> Nat]
                    /\ nst'[a].at # "idle" => IsRequest(a, nst'[a].req)
                    /\ nst'[a].at = "ack" =>
                           /\ Req(a, nst'[a].req).role = "create"
                           /\ number'[a][nst'[a].req] = Req(a, nst'[a].req).number
                    /\ nst'[a].at = "request" => Req(a, nst'[a].req).role = "recv"
                    /\ nst'[a].at \in Busy => nst'[a].left > 0
  BY DEF Requested, IsRequest, Req, Code
<1>3. CASE a = n
  BY <1>1, <1>3
<1>4. CASE a # n
  BY <1>1, <1>4 DEF Requested
<1> QED
  BY <1>3, <1>4
-----------------------------------------------------------------------------
(* Queues of at most two messages.                                           *)
LEMMA ShortQueue ==
    ASSUME NEW S, NEW x \in S, NEW c \in Seq(S)
    PROVE  /\ <<x>> \in Seq(S) /\ <<x>> # <<>>
           /\ Head(<<x>>) = x /\ Tail(<<x>>) = <<>>
           /\ Append(<<>>, x) = <<x>> /\ <<x>> \o <<>> = <<x>>
           /\ <<x>> \o c # <<>> /\ Head(<<x>> \o c) = x /\ Tail(<<x>> \o c) = c
           /\ <<x>> \o c \in Seq(S)
<1>1. /\ <<x>> \in Seq(S) /\ <<x>> # <<>>
      /\ Head(<<x>>) = x /\ Tail(<<x>>) = <<>>
      /\ Append(<<>>, x) = <<x>> /\ <<x>> \o <<>> = <<x>>
  OBVIOUS
<1>2. <<>> \o c = c
  OBVIOUS
<1> DEFINE first == <<x>>
<1>3. first \in Seq(S) /\ first # <<>> /\ Head(first) = x /\ Tail(first) = <<>>
  BY <1>1
<1> HIDE DEF first
<1>4. first \o c # <<>> /\ Head(first \o c) = x /\ Tail(first \o c) = c
  <2>1. /\ first \o c # <<>> /\ Head(first \o c) = Head(first)
        /\ Tail(first \o c) = Tail(first) \o c
    BY <1>3, TakeFirst
  <2> QED
    BY <1>2, <1>3, <2>1
<1>5. first \o c \in Seq(S)
  BY <1>3
<1> QED
  BY <1>1, <1>4, <1>5 DEF first

(* A message behind the only one in a channel.                               *)
LEMMA TwoMessages ==
    ASSUME NEW S, NEW x \in S, NEW y \in S
    PROVE  Append(<<x>> \o <<>>, y) = <<x>> \o <<y>>
<1>1. <<>> \in Seq(S) /\ <<x>> \in Seq(S) /\ Append(<<>>, y) = <<y>>
  OBVIOUS
<1> QED
  BY <1>1, AppendLast

-----------------------------------------------------------------------------
(* The network stack takes its processor's next request.                     *)
LEMMA TakeRequestKeeps ==
    ASSUME Types, Requested, BetweenNodes, InPhase, NEW n \in Nodes, TakeRequest(n)
    PROVE  Types' /\ Requested' /\ BetweenNodes' /\ InPhase'
<1>1. /\ nst[n].at = "idle" /\ inbox[n] # <<>>
      /\ inbox' = [inbox EXCEPT ![n] = Tail(inbox[n])]
      /\ program' = program /\ pc' = pc /\ making' = making /\ crashed' = crashed
      /\ free' = free /\ creates' = creates /\ recvs' = recvs
  BY DEF TakeRequest, puts
<1>2. inbox[n] \in Seq(Nat)
  BY DEF Types
<1>13. PICK i \in Nat : i = Head(inbox[n])
  BY <1>1, <1>2
<1>3. /\ i \in Nat /\ i = inbox[n][1] /\ 1 \in DOMAIN inbox[n]
      /\ Tail(inbox[n]) \in Seq(Nat)
      /\ \A k \in DOMAIN Tail(inbox[n]) :
             k + 1 \in DOMAIN inbox[n] /\ Tail(inbox[n])[k] = inbox[n][k + 1]
  BY <1>13, <1>1, <1>2
<1>4. /\ IsRequest(n, i)
      /\ \A k \in DOMAIN Tail(inbox[n]) : IsRequest(n, Tail(inbox[n])[k])
  BY <1>3 DEF Requested
<1>14. PICK m \in Nodes : m = Req(n, i).peer
  BY <1>3, <1>4, RequestFacts
<1> DEFINE message == [kind |-> "request", of |-> n, req |-> i]
           v(at) == [at |-> at, req |-> i, total |-> 0, left |-> 0]
<1>5. /\ m \in Nodes /\ m # n /\ Req(n, i).number \in Nat
      /\ i \in DOMAIN Code(n) /\ message \in Messages
  BY <1>3, <1>4, <1>14, RequestFacts DEF IsRequest, Messages
<1>6. inbox' \in [Nodes -> Seq(Nat)] /\ inbox'[n] = Tail(inbox[n])
  BY <1>1, <1>3 DEF Types
<1>7. /\ Peer(n) = m \/ nst[n].at = "idle"
      /\ View(n, m) = Idle /\ Idle.at = "idle" /\ Sent(n, m) = <<>>
      /\ ~Asking(n, m) /\ ~Creating(n, m) /\ ~Receiving(n, m)
  BY <1>1, <1>5, ViewFacts, ViewStates
<1>8. /\ Synchronised(n, m) /\ Phase(n, m) /\ Phase(m, n)
      /\ chan[n][m] \in Seq(Messages) /\ chan[m][n] \in Seq(Messages)
      /\ Sent(m, n) \in Seq(Messages)
  <2>1. Synchronised(n, m) /\ Phase(n, m) /\ Phase(m, n)
    BY <1>5 DEF InPhase
  <2>2. chan[n][m] \in Seq(Messages) /\ chan[m][n] \in Seq(Messages)
    BY DEF Types
  <2>3. Sent(m, n) \in Seq(Messages)
    BY ViewStates
  <2> QED
    BY <2>1, <2>2, <2>3
<1>9. ~Ahead(m, n) /\ ~Begun(n, m)
  BY <1>7 DEF Ahead, Begun, AheadWith
<1> HIDE DEF message
<1>15. \A at \in {"ack", "request"} :
          /\ v(at).at = at /\ v(at).req = i /\ v(at).at # "idle" /\ v(at).at \notin Busy
          /\ v(at) \in [at : States, req : Nat, total : Nat, left : Nat]
  BY DEF Busy, States
<1> HIDE DEF v
<1>10. ASSUME NEW at \in {"ack", "request"}, nst' = [nst EXCEPT ![n] = v(at)],
              \A a, b \in Nodes : <<a, b>> # <<n, m>> /\ <<a, b>> # <<m, n>> =>
                  chan'[a][b] = chan[a][b]
       PROVE  /\ Dealing(n, m, v(at)) /\ Aside(n, m)
              /\ View(n, m)' = v(at)
              /\ BetweenNodes'
              /\ InPhase /\ Synchronised(n, m)' /\ Phase(n, m)' /\ Phase(m, n)' => InPhase'
              /\ nst' \in [Nodes -> [at : States, req : Nat, total : Nat, left : Nat]]
  <2>1. Dealing(n, m, v(at))
    BY <1>1, <1>14, <1>10, <1>15 DEF Dealing
  <2>2. nst' \in [Nodes -> [at : States, req : Nat, total : Nat, left : Nat]]
    BY <1>10, <1>15 DEF Types
  <2> QED
    BY <1>5, <1>15, <2>1, <2>2, DealingFacts
<1>11. CASE Req(n, i).role = "create" /\ nst' = [nst EXCEPT ![n] = v("ack")]
            /\ number' = [number EXCEPT ![n][i] = Req(n, i).number]
            /\ chan' = [chan EXCEPT ![n][m] = Append(chan[n][m], message)]
  <2>1. /\ chan' \in [Nodes -> [Nodes -> Seq(Messages)]]
        /\ chan'[n][m] = Append(chan[n][m], message) /\ chan'[m][n] = chan[m][n]
        /\ \A a, b \in Nodes : <<a, b>> # <<n, m>> /\ <<a, b>> # <<m, n>> =>
               chan'[a][b] = chan[a][b]
    <3> DEFINE out == Append(chan[n][m], message)
               S == Seq(Messages)
    <3>1. out \in S /\ chan \in [Nodes -> [Nodes -> S]] /\ chan' = [chan EXCEPT ![n][m] = out]
      BY <1>5, <1>8, <1>11 DEF Types
    <3> HIDE DEF out, S
    <3>2. /\ chan' \in [Nodes -> [Nodes -> S]] /\ chan'[n][m] = out
          /\ \A a, b \in Nodes : <<a, b>> # <<n, m>> => chan'[a][b] = chan[a][b]
      BY <3>1, OneEntry
    <3> QED
      BY <1>5, <3>2 DEF out, S
  <2>2. /\ Aside(n, m) /\ View(n, m)' = v("ack") /\ BetweenNodes'
        /\ InPhase /\ Synchronised(n, m)' /\ Phase(n, m)' /\ Phase(m, n)' => InPhase'
        /\ nst' \in [Nodes -> [at : States, req : Nat, total : Nat, left : Nat]]
    BY <1>10, <1>11, <2>1
  <2>3. /\ number[n] \in [DOMAIN Code(n) -> Nat]
        /\ number'[n] = [number[n] EXCEPT ![i] = Req(n, i).number]
        /\ number' = [a \in Nodes |-> number'[a]]
        /\ \A a \in Nodes : a # n => number'[a] = number[a]
    <3>1. number[n] \in [DOMAIN Code(n) -> Nat] /\ number = [a \in Nodes |-> number[a]]
      BY DEF Requested, Types
    <3> QED
      BY <3>1, <1>11
  <2>4. /\ number'[n] \in [DOMAIN Code(n) -> Nat]
        /\ number'[n][i] = Req(n, i).number
    BY <1>5, <2>3
  <2>5. Types'
    BY <1>1, <1>6, <2>1, <2>2, <2>3 DEF Types
  <2>6. Requested'
    <3>1. \A a \in Nodes : a # n => inbox'[a] = inbox[a]
      BY <1>1
    <3>2. \A k \in DOMAIN inbox'[n] : IsRequest(n, inbox'[n][k])
      BY <1>4, <1>6
    <3>3. \A a \in Nodes : a # n => number'[a] = number[a]
      BY <2>3
    <3>4. /\ IsRequest(n, v("ack").req) /\ Req(n, v("ack").req).role = "create"
          /\ number'[n][v("ack").req] = Req(n, v("ack").req).number
          /\ v("ack").at = "ack" /\ v("ack").at \notin Busy
      BY <1>4, <1>11, <1>15, <2>4
    <3> QED
      BY <1>1, <1>11, <2>4, <3>1, <3>2, <3>3, <3>4, RequestedFacts
  <2>7. /\ Asking(n, m)' /\ Sent(n, m)' = <<message>>
        /\ Sent(m, n)' = Sent(m, n) /\ Asking(m, n)' = Asking(m, n)
    BY <1>5, <1>15, <2>2, AsideFacts DEF Asking, Sent, message
  <2>8. Level(n, m) => Level(n, m)'
    BY <1>5, <1>7, <2>1, <2>7, ShortQueue DEF Level
  <2>9. Ahead(n, m) => Ahead(n, m)'
    BY <1>5, <1>7, <2>1, <2>7, TwoMessages DEF Ahead, AheadWith
  <2>10. Synchronised(n, m)'
    BY <1>8, <1>9, <2>8, <2>9 DEF Synchronised
  <2>11. Making(n, m) \/ Making(m, n) => Level(n, m)'
    BY <2>8 DEF Making, MakingOf, Level
  <2>12. Phase(n, m)' /\ Phase(m, n)'
    <3>1. View(n, m).at \notin Busy /\ View(n, m)'.at \notin Busy
      BY <1>7, <1>15, <2>2 DEF Busy
    <3> QED
      BY <1>1, <1>5, <1>8, <1>9, <2>2, <2>11, <3>1, NotBusy
  <2> QED
    BY <2>2, <2>5, <2>6, <2>10, <2>12
<1>12. CASE Req(n, i).role = "recv" /\ nst' = [nst EXCEPT ![n] = v("request")]
            /\ number' = number /\ chan' = chan
  <2>1. /\ Aside(n, m) /\ View(n, m)' = v("request") /\ BetweenNodes'
        /\ InPhase /\ Synchronised(n, m)' /\ Phase(n, m)' /\ Phase(m, n)' => InPhase'
        /\ nst' \in [Nodes -> [at : States, req : Nat, total : Nat, left : Nat]]
    BY <1>10, <1>12
  <2>2. Types'
    BY <1>1, <1>6, <1>12, <2>1 DEF Types
  <2>3. Requested'
    <3>1. \A a \in Nodes : a # n => inbox'[a] = inbox[a] /\ number'[a] = number[a]
      BY <1>1, <1>12
    <3>2. \A k \in DOMAIN inbox'[n] : IsRequest(n, inbox'[n][k])
      BY <1>4, <1>6
    <3>3. number'[n] \in [DOMAIN Code(n) -> Nat]
      BY <1>12 DEF Requested
    <3> QED
      BY <1>1, <1>4, <1>12, <1>15, <3>1, <3>2, <3>3, RequestedFacts
  <2>4. /\ ~Asking(n, m)' /\ Sent(n, m)' = <<>>
        /\ Sent(m, n)' = Sent(m, n) /\ Asking(m, n)' = Asking(m, n)
    BY <1>5, <1>15, <2>1, AsideFacts DEF Asking, Sent
  <2>5. (Level(n, m) => Level(n, m)') /\ (Ahead(n, m) => Ahead(n, m)')
    BY <1>7, <1>12, <2>4 DEF Level, Ahead, AheadWith
  <2>6. Synchronised(n, m)'
    BY <1>8, <1>9, <2>5 DEF Synchronised
  <2>7. Making(n, m) \/ Making(m, n) => Level(n, m)'
    BY <2>5 DEF Making, MakingOf, Level
  <2>8. Phase(n, m)' /\ Phase(m, n)'
    <3>1. View(n, m).at \notin Busy /\ View(n, m)'.at \notin Busy
      BY <1>7, <1>15, <2>1 DEF Busy
    <3> QED
      BY <1>1, <1>5, <1>8, <1>9, <2>1, <2>7, <3>1, NotBusy
  <2> QED
    BY <2>1, <2>2, <2>3, <2>6, <2>8
<1> QED
  <2>1. ASSUME NEW at \in States  PROVE  [Idle EXCEPT !.at = at, !.req = i] = v(at)
    <3> DEFINE e == [Idle EXCEPT !.at = at, !.req = i]
    <3>1. /\ e \in [at : States, req : Nat, total : Nat, left : Nat]
          /\ e.at = at /\ e.req = i /\ e.total = 0 /\ e.left = 0
      BY DEF Idle, States
    <3> HIDE DEF e
    <3>2. e = [at |-> at, req |-> i, total |-> 0, left |-> 0]
      BY <3>1
    <3> QED
      BY <3>2 DEF e, v
  <2> QED
    BY <1>13, <1>14, <1>11, <1>12, <2>1 DEF TakeRequest, message, States
-----------------------------------------------------------------------------
(* The handshake.                                                            *)

\* n, whose view of m becomes v, begins to create what its request of number
\* `pairs` asks for.
BeginsToCreate(n, m, v, type, pairs) ==
    /\ View(n, m).at = "ack" /\ Req(n, View(n, m).req).type = type
    /\ Req(n, View(n, m).req).number = pairs
    /\ View(n, m)' = v /\ Req(n, v.req).role = "create" /\ v.left = pairs
    /\ recvs'[n][m] = recvs[n][m]
    /\ \/ /\ type = "CK" /\ v.at \in {"comm", "pair"}
          /\ creates[n][m] = <<>> => creates'[n][m] = CreatesAsked(v.at)
       \/ /\ type = "MD" /\ v.at = "outcome"
          /\ creates[n][m] = <<>> => creates'[n][m] = <<[type |-> "MD", pairs |-> pairs]>>

(* The phases when a creator that was answered begins its session.           *)
LEMMA CreateBegun ==
    ASSUME Types, Requested, NEW n \in Nodes, NEW m \in Nodes, n # m, Aside(n, m),
           NEW v, NEW type, NEW pairs, BeginsToCreate(n, m, v, type, pairs),
           chan[m][n] # <<>>, Begun(n, m) => Level(n, m)',
           Phase(n, m), Phase(m, n)
    PROVE  Phase(n, m)' /\ Phase(m, n)'
<1>1. /\ View(n, m).at = "ack" /\ ~Creating(n, m) /\ ~Receiving(n, m) /\ Asking(n, m)
      /\ ~Making(n, m) /\ ~Making(m, n)
  BY ViewStates, NotMaking DEF BeginsToCreate
<1>2. v.at \in Busy /\ Creating(n, m)' /\ ~Receiving(n, m)'
  BY DEF BeginsToCreate, Aside, Creating, Receiving, Busy, Req, Code
<1>3. Creating(m, n)' = Creating(m, n) /\ Receiving(m, n)' = Receiving(m, n)
  BY AsideFacts
<1>4. Unused(n, m) => Stuck(n, m)'
  BY <1>2, <1>3 DEF Unused, Stuck, Aside
<1>5. ASSUME Begun(n, m)  PROVE  Even(n, m)'
  <2>1. /\ Level(n, m)' /\ Receiving(m, n)' /\ Works(n, m)' = {}
        /\ creates[n][m] = <<>> /\ View(m, n)' = View(m, n)
        /\ recvs'[m][n] = recvs[m][n]
        /\ View(m, n).left = pairs /\ v.left = pairs /\ View(n, m)' = v
    BY <1>3, <1>5 DEF Begun, BeginsToCreate, Aside
  <2>2. CASE type = "CK"
    <3>1. /\ v.at \in {"comm", "pair"} /\ creates'[n][m] = CreatesAsked(v.at)
          /\ View(m, n).at \in {"comm", "pair"} /\ recvs[m][n] = PairsAsked(View(m, n).at)
      BY <1>5, <2>1, <2>2 DEF BeginsToCreate, Begun
    <3> QED
      BY <1>2, <2>1, <3>1 DEF Even
  <2>3. CASE type = "MD"
    <3>1. /\ v.at = "outcome" /\ creates'[n][m] = <<[type |-> "MD", pairs |-> v.left]>>
          /\ View(m, n).at = "outcome" /\ recvs[m][n] = 1
      BY <1>5, <2>1, <2>3 DEF BeginsToCreate, Begun
    <3> QED
      BY <1>2, <2>1, <3>1 DEF Even
  <2> QED
    BY <2>2, <2>3 DEF BeginsToCreate
<1>6. ~Stuck(n, m) /\ ~Even(n, m) /\ ~Begun(m, n) /\ ~Even(m, n)
  BY <1>1 DEF Stuck, Even, Begun
<1>7. recvs'[n][m] = recvs[n][m]
  BY DEF BeginsToCreate
<1>8. Unused(m, n) => Unused(m, n)'
  BY <1>2, <1>3, <1>7 DEF Unused, Aside
<1>9. Stuck(m, n) => Stuck(m, n)'
  BY <1>2, <1>3, <1>7 DEF Stuck, Aside
<1> QED
  BY <1>1, <1>4, <1>5, <1>6, <1>8, <1>9 DEF Phase

\* The same for n that answers m's request and begins to receive.
BeginsToReceive(n, m, v, type, pairs) ==
    /\ View(n, m).at = "request" /\ View(m, n).at = "ack"
    /\ Req(m, View(m, n).req).type = type /\ Req(m, View(m, n).req).number = pairs
    /\ View(n, m)' = v /\ Req(n, v.req).role = "recv" /\ v.left = pairs
    /\ creates'[n][m] = creates[n][m]
    /\ \/ /\ type = "CK" /\ v.at \in {"comm", "pair"}
          /\ recvs'[n][m] = recvs[n][m] + PairsAsked(v.at)
       \/ /\ type = "MD" /\ v.at = "outcome"
          /\ recvs'[n][m] = recvs[n][m] + 1

(* The phases when a receiver begins its session with its answer.            *)
LEMMA ReceiveBegun ==
    ASSUME Types, Requested, NEW n \in Nodes, NEW m \in Nodes, n # m, Aside(n, m),
           NEW v, NEW type, NEW pairs, BeginsToReceive(n, m, v, type, pairs),
           chan[m][n] # <<>>, AheadWith(n, m, Ready)',
           Phase(n, m), Phase(m, n)
    PROVE  Phase(n, m)' /\ Phase(m, n)'
<1>1. /\ ~Creating(n, m) /\ ~Receiving(n, m) /\ ~Asking(n, m)
      /\ ~Creating(m, n) /\ ~Receiving(m, n)
      /\ ~Making(n, m) /\ ~Making(m, n)
  BY ViewStates, NotMaking DEF BeginsToReceive
<1>2. v.at \in Busy /\ Receiving(n, m)' /\ ~Creating(n, m)'
  BY DEF BeginsToReceive, Aside, Creating, Receiving, Busy, Req, Code
<1>3. ~Creating(m, n)' /\ ~Receiving(m, n)'
  BY <1>1, AsideFacts
<1>4. Unused(n, m) => Unused(n, m)'
  BY <1>2, <1>3 DEF Unused, Aside, BeginsToReceive
<1>5. ~Stuck(n, m) /\ ~Even(n, m) /\ ~Begun(n, m)
  BY <1>1 DEF Stuck, Even, Begun
<1>6. ~Stuck(m, n) /\ ~Even(m, n) /\ ~Begun(m, n)
  BY <1>1 DEF Stuck, Even, Begun
<1>7. ASSUME Unused(m, n)  PROVE  Begun(m, n)'
  <2>1. /\ creates'[m][n] = <<>> /\ Works(m, n)' = {} /\ View(m, n)' = View(m, n)
        /\ View(n, m)' = v /\ v.left = pairs /\ recvs[n][m] = 0
    BY <1>7 DEF Unused, Aside, BeginsToReceive
  <2>2. /\ Req(m, View(m, n).req)' = Req(m, View(m, n).req)
        /\ Req(m, View(m, n).req).type = type /\ Req(m, View(m, n).req).number = pairs
    BY <2>1 DEF Aside, Req, Code, BeginsToReceive
  <2>3. /\ recvs[n][m] + 1 = 1 /\ \A at : recvs[n][m] + PairsAsked(at) = PairsAsked(at)
    BY <2>1 DEF PairsAsked
  <2>4. \/ type = "CK" /\ v.at \in {"comm", "pair"} /\ recvs'[n][m] = PairsAsked(v.at)
        \/ type = "MD" /\ v.at = "outcome" /\ recvs'[n][m] = 1
    BY <2>3 DEF BeginsToReceive
  <2> QED
    BY <1>2, <2>1, <2>2, <2>4 DEF Begun
<1> QED
  BY <1>1, <1>4, <1>5, <1>6, <1>7 DEF Phase
(* A creator takes what the peer sent for the answer.                        *)
LEMMA AnswerTaken ==
    ASSUME Types, Requested, NEW n \in Nodes, NEW m \in Nodes, n # m, Aside(n, m),
           View(n, m).at = "ack", chan[m][n] # <<>>, Synchronised(n, m),
           chan'[m][n] = Tail(chan[m][n]), chan'[n][m] = chan[n][m], ~Asking(n, m)'
    PROVE  /\ Synchronised(n, m)'
           /\ Begun(n, m) => Level(n, m)'
<1>1. /\ Asking(n, m)
      /\ Sent(n, m)' = <<>> /\ Sent(m, n)' = Sent(m, n) /\ Asking(m, n)' = Asking(m, n)
      /\ Sent(m, n) \in Seq(Messages) /\ Sent(n, m) \in Seq(Messages)
  BY ViewStates, AsideFacts DEF Sent
<1>2. ASSUME NEW a \in Messages, AheadWith(m, n, a)
      PROVE  Level(n, m)'
  <2>1. chan[m][n] = <<a>> \o Sent(m, n) /\ chan[n][m] = <<>>
    BY <1>2 DEF AheadWith
  <2>2. Tail(<<a>> \o Sent(m, n)) = Sent(m, n)
    BY <1>1, ShortQueue
  <2> QED
    BY <1>1, <2>1, <2>2 DEF Level
<1>3. ASSUME Level(n, m)
      PROVE  Ahead(n, m)'
  <2>1. Asking(m, n)
    BY <1>1, <1>3, ViewStates DEF Level
  <2>2. PICK x : Sent(m, n) = <<x>>
    BY <2>1 DEF Sent
  <2>3. PICK q : Sent(n, m) = <<q>>
    BY <1>1 DEF Sent
  <2>4. x \in Messages /\ q \in Messages
    <3>1. \A y : <<y>> \in Seq(Messages) => y \in Messages
      BY DEF Messages
    <3> QED
      BY <1>1, <2>2, <2>3, <3>1
  <2>5. chan'[m][n] = <<>> /\ chan'[n][m] = <<q>> \o <<>>
    BY <1>3, <2>2, <2>3, <2>4, ShortQueue DEF Level
  <2> QED
    BY <1>1, <2>1, <2>4, <2>5 DEF Ahead, AheadWith
<1>4. ~Ahead(n, m)
  BY DEF Ahead, AheadWith
<1>5. Ready \in Messages
  BY DEF Ready, Messages
<1> QED
  BY <1>2, <1>3, <1>4, <1>5 DEF Synchronised, Ahead, Begun

(* A receiver has the peer's request before it.                              *)
LEMMA RequestBefore ==
    ASSUME Types, Requested, NEW n \in Nodes, NEW m \in Nodes, n # m,
           View(n, m).at = "request", chan[m][n] # <<>>, Synchronised(n, m)
    PROVE  /\ View(m, n).at = "ack" /\ nst[m].at = "ack" /\ View(m, n) = nst[m]
           /\ chan[m][n] = <<[kind |-> "request", of |-> m, req |-> View(m, n).req]>>
           /\ chan[n][m] = <<>>
<1>1. ~Asking(n, m) /\ Sent(n, m) = <<>>
  BY ViewStates
<1>2. ~Ahead(n, m) /\ ~Ahead(m, n)
  BY <1>1 DEF Ahead, AheadWith
<1>3. chan[m][n] = Sent(m, n) /\ chan[n][m] = <<>>
  BY <1>1, <1>2 DEF Synchronised, Level
<1>4. Asking(m, n)
  BY <1>3, ViewStates
<1> QED
  BY <1>3, <1>4, ViewFacts DEF Sent, Asking

(* It answers, and is one handshake ahead.                                   *)
LEMMA AnswerSent ==
    ASSUME Types, Requested, NEW n \in Nodes, NEW m \in Nodes, n # m, Aside(n, m),
           View(m, n).at = "ack", chan'[m][n] = <<>>, chan'[n][m] = <<Ready>>,
           ~Asking(n, m)'
    PROVE  AheadWith(n, m, Ready)' /\ Synchronised(n, m)'
<1>1. Asking(m, n)' /\ Sent(n, m)' = <<>>
  BY AsideFacts DEF Asking, Sent
<1>2. Ready \in Messages
  BY DEF Ready, Messages
<1>3. <<Ready>> = <<Ready>> \o <<>>
  BY <1>2, ShortQueue
<1>4. AheadWith(n, m, Ready)'
  BY <1>1, <1>3 DEF AheadWith
<1> QED
  BY <1>2, <1>4 DEF Synchronised, Ahead
(* A creator's request is acknowledged.                                      *)
LEMMA AcknowledgedKeeps ==
    ASSUME Types, Requested, BetweenNodes, InPhase, NEW n \in Nodes, Acknowledged(n)
    PROVE  /\ Types' /\ Requested' /\ BetweenNodes'
           /\ InPhase' \/ (crashed' = TRUE /\ UNCHANGED <<program, nst, making>>)
<1>1. /\ nst[n].at = "ack" /\ chan[Peer(n)][n] # <<>>
      /\ chan' = [chan EXCEPT ![Peer(n)][n] = Tail(chan[Peer(n)][n])]
      /\ UNCHANGED <<program, pc, inbox, making>>
  BY DEF Acknowledged
<1>2. PICK i \in Nat : i = nst[n].req
  BY DEF Types
<1>3. /\ IsRequest(n, i) /\ Req(n, i).role = "create"
      /\ number[n][i] = Req(n, i).number /\ number[n] \in [DOMAIN Code(n) -> Nat]
      /\ i \in DOMAIN Code(n)
  BY <1>1, <1>2 DEF Requested, IsRequest
<1>4. PICK m \in Nodes : m = Req(n, i).peer
  BY <1>3, RequestFacts
<1>5. /\ m # n /\ m = Peer(n) /\ Req(n, i).type \in {"CK", "MD", "R"}
      /\ Req(n, i).number \in Nat /\ Req(n, i).number > 0
  BY <1>2, <1>3, <1>4, RequestFacts DEF Peer
<1>6. PICK p \in Nat : p = Req(n, i).number /\ p > 0
  BY <1>5
<1>7. /\ View(n, m) = nst[n] /\ View(n, m).at = "ack" /\ View(n, m).req = i
      /\ ~Creating(n, m) /\ ~Receiving(n, m)
  BY <1>1, <1>2, <1>5, ViewFacts, ViewStates
<1>8. /\ Synchronised(n, m) /\ Phase(n, m) /\ Phase(m, n)
  BY <1>5 DEF InPhase
<1>9. /\ chan[m][n] # <<>> /\ chan'[m][n] = Tail(chan[m][n])
      /\ chan' \in [Nodes -> [Nodes -> Seq(Messages)]]
      /\ \A a, b \in Nodes : <<a, b>> # <<m, n>> => chan'[a][b] = chan[a][b]
  <2> DEFINE S == Seq(Messages)
             rest == Tail(chan[m][n])
  <2>1. chan \in [Nodes -> [Nodes -> S]] /\ chan[m][n] \in S /\ chan[m][n] # <<>>
    <3>1. chan \in [Nodes -> [Nodes -> S]]
      BY DEF Types
    <3>2. chan[m][n] # <<>>
      BY <1>1, <1>5
    <3> HIDE DEF S
    <3> QED
      BY <3>1, <3>2
  <2>2. rest \in S
    BY <2>1
  <2>3. chan' = [chan EXCEPT ![m][n] = rest]
    BY <1>1, <1>5
  <2> HIDE DEF S, rest
  <2>4. /\ chan'[m][n] = rest /\ chan' \in [Nodes -> [Nodes -> S]]
        /\ \A a, b \in Nodes : <<a, b>> # <<m, n>> => chan'[a][b] = chan[a][b]
    BY <2>1, <2>2, <2>3, OneEntry
  <2> QED
    BY <2>1, <2>4 DEF S, rest
\* What the cases have in common: n's network stack goes to v.
<1>10. ASSUME NEW v \in [at : States, req : Nat, total : Nat, left : Nat],
              nst' = [nst EXCEPT ![n] = v],
              v.at \notin {"ack", "request"},
              v.at # "idle" => v.req = i, v.at \in Busy => v.left > 0,
              free' \in [Nodes -> Nat],
              creates' \in [Nodes -> [Nodes -> Seq(Asked)]], recvs' \in [Nodes -> [Nodes -> Nat]],
              \A a, b \in Nodes : <<a, b>> # <<n, m>> =>
                  creates'[a][b] = creates[a][b] /\ recvs'[a][b] = recvs[a][b],
              number' = number \/ number' = [number EXCEPT ![n][i] = 1],
              crashed' = crashed
       PROVE  /\ Types' /\ Requested' /\ BetweenNodes'
              /\ Aside(n, m) /\ View(n, m)' = IF v.at # "idle" THEN v ELSE Idle
              /\ Synchronised(n, m)'
              /\ Begun(n, m) => Level(n, m)'
              /\ Phase(n, m)' /\ Phase(m, n)' => InPhase'
  <2>1. /\ number' = [a \in Nodes |-> number'[a]]
        /\ number'[n] \in [DOMAIN Code(n) -> Nat]
        /\ \A a \in Nodes : a # n => number'[a] = number[a]
    <3>1. number = [a \in Nodes |-> number[a]]
      BY DEF Types
    <3>2. CASE number' = number
      BY <1>3, <3>1, <3>2
    <3>3. CASE number' = [number EXCEPT ![n][i] = 1]
      <4>1. [number[n] EXCEPT ![i] = 1] \in [DOMAIN Code(n) -> Nat]
        BY <1>3
      <4> QED
        BY <3>1, <3>3, <4>1
    <3> QED
      BY <1>10, <3>2, <3>3
  <2>2. nst' \in [Nodes -> [at : States, req : Nat, total : Nat, left : Nat]]
    BY <1>10 DEF Types
  <2>3. Types'
    BY <1>1, <1>9, <1>10, <2>1, <2>2 DEF Types
  <2>4. Requested'
    <3>1. \A k \in DOMAIN inbox'[n] : IsRequest(n, inbox'[n][k])
      BY <1>1 DEF Requested
    <3> QED
      BY <1>1, <1>3, <1>10, <2>1, <3>1, RequestedFacts
  <2>5. Dealing(n, m, v)
    BY <1>1, <1>4, <1>5, <1>9, <1>10 DEF Dealing
  <2>6. /\ Aside(n, m) /\ View(n, m)' = IF v.at # "idle" THEN v ELSE Idle
        /\ BetweenNodes'
        /\ Synchronised(n, m)' /\ Phase(n, m)' /\ Phase(m, n)' => InPhase'
    BY <1>5, <2>5, DealingFacts
  <2>7. ~Asking(n, m)'
    BY <1>10, <2>6 DEF Asking, Idle
  <2>8. Synchronised(n, m)' /\ (Begun(n, m) => Level(n, m)')
    BY <1>5, <1>7, <1>8, <1>9, <2>6, <2>7, AnswerTaken
  <2> QED
    BY <2>3, <2>4, <2>6, <2>8
<1>11. CASE Req(n, i).type = "CK" /\ AskForPair(n, p, p) /\ crashed' = crashed
            /\ number' = [number EXCEPT ![n][i] = 1]
  <2>1. PICK at \in {"comm", "pair"} :
             /\ nst' = [nst EXCEPT ![n] = [at |-> at, req |-> i, total |-> p, left |-> p]]
             /\ free' \in [Nodes -> Nat]
             /\ creates' \in [Nodes -> [Nodes -> Seq(Asked)]]
             /\ recvs' \in [Nodes -> [Nodes -> Nat]]
             /\ \A a, b \in Nodes : <<a, b>> # <<n, m>> =>
                    creates'[a][b] = creates[a][b] /\ recvs'[a][b] = recvs[a][b]
             /\ recvs'[n][m] = recvs[n][m]
             /\ creates[n][m] = <<>> => creates'[n][m] = CreatesAsked(at)
    BY <1>2, <1>3, <1>5, <1>11, AskForPairFacts
  <2>2. PICK v \in [at : States, req : Nat, total : Nat, left : Nat] :
            /\ v = [at |-> at, req |-> i, total |-> p, left |-> p]
            /\ v.at = at /\ v.req = i /\ v.left = p
    <3>1. [at |-> at, req |-> i, total |-> p, left |-> p]
              \in [at : States, req : Nat, total : Nat, left : Nat]
      BY DEF States, Busy
    <3> QED
      BY <3>1
  <2>3. /\ Types' /\ Requested' /\ BetweenNodes'
        /\ Aside(n, m) /\ View(n, m)' = v
        /\ Begun(n, m) => Level(n, m)'
        /\ Phase(n, m)' /\ Phase(m, n)' => InPhase'
    BY <1>6, <1>10, <1>11, <2>1, <2>2
  <2>4. BeginsToCreate(n, m, v, "CK", p)
    BY <1>3, <1>6, <1>7, <1>11, <2>1, <2>2, <2>3 DEF BeginsToCreate
  <2>5. Phase(n, m)' /\ Phase(m, n)'
    BY <1>5, <1>8, <1>9, <2>3, <2>4, CreateBegun
  <2> QED
    BY <2>3, <2>5
<1>12. CASE Req(n, i).type = "MD" /\ AskForOutcomes(n, p) /\ number' = number
  <2>1. CASE crashed' = TRUE /\ UNCHANGED <<free, nst, creates, recvs>>
    <3>1. Types'
      BY <1>1, <1>9, <1>12, <2>1 DEF Types
    <3>2. Requested' /\ BetweenNodes'
      BY <1>1, <1>12, <2>1 DEF Requested, BetweenNodes, IsRequest, Req, Code
    <3> QED
      BY <1>1, <2>1, <3>1, <3>2
  <2>2. CASE /\ crashed' = crashed
             /\ nst' = [nst EXCEPT ![n] = [at |-> "outcome", req |-> i,
                                           total |-> p, left |-> p]]
             /\ free' \in [Nodes -> Nat]
             /\ creates' \in [Nodes -> [Nodes -> Seq(Asked)]]
             /\ recvs' \in [Nodes -> [Nodes -> Nat]]
             /\ \A a, b \in Nodes : <<a, b>> # <<n, m>> =>
                    creates'[a][b] = creates[a][b] /\ recvs'[a][b] = recvs[a][b]
             /\ recvs'[n][m] = recvs[n][m]
             /\ creates[n][m] = <<>> =>
                    creates'[n][m] = <<[type |-> "MD", pairs |-> p]>>
    <3>1. PICK v \in [at : States, req : Nat, total : Nat, left : Nat] :
              /\ v = [at |-> "outcome", req |-> i, total |-> p, left |-> p]
              /\ v.at = "outcome" /\ v.req = i /\ v.left = p
      <4>1. [at |-> "outcome", req |-> i, total |-> p, left |-> p]
                \in [at : States, req : Nat, total : Nat, left : Nat]
        BY DEF States, Busy
      <4> QED
        BY <4>1
    <3>2. /\ Types' /\ Requested' /\ BetweenNodes'
          /\ Aside(n, m) /\ View(n, m)' = v
          /\ Begun(n, m) => Level(n, m)'
          /\ Phase(n, m)' /\ Phase(m, n)' => InPhase'
      BY <1>6, <1>10, <1>12, <2>2, <3>1
    <3>3. BeginsToCreate(n, m, v, "MD", p)
      BY <1>3, <1>6, <1>7, <1>12, <2>2, <3>1, <3>2 DEF BeginsToCreate
    <3>4. Phase(n, m)' /\ Phase(m, n)'
      BY <1>5, <1>8, <1>9, <3>2, <3>3, CreateBegun
    <3> QED
      BY <3>2, <3>4
  <2> QED
    <3>1. Req(n, nst[n].req).role = "create" /\ m = Peer(n) /\ AskForOutcomes(n, p)
      BY <1>2, <1>3, <1>5, <1>12
    <3>2. Req(n, nst[n].req).role \in {"create", "recv"}
      BY <3>1
    <3>3. \/ crashed' = TRUE /\ UNCHANGED <<free, nst, creates, recvs>>
          \/ /\ crashed' = crashed
             /\ nst' = [nst EXCEPT ![n] = [at |-> "outcome", req |-> nst[n].req,
                                           total |-> p, left |-> p]]
             /\ free' \in [Nodes -> Nat]
             /\ creates' \in [Nodes -> [Nodes -> Seq(Asked)]]
             /\ recvs' \in [Nodes -> [Nodes -> Nat]]
             /\ \A a, b \in Nodes : <<a, b>> # <<n, m>> =>
                    creates'[a][b] = creates[a][b] /\ recvs'[a][b] = recvs[a][b]
             /\ Req(n, nst[n].req).role = "create" =>
                    /\ recvs'[n][m] = recvs[n][m]
                    /\ creates[n][m] = <<>> =>
                           creates'[n][m] = <<[type |-> "MD", pairs |-> p]>>
             /\ Req(n, nst[n].req).role = "recv" =>
                    creates'[n][m] = creates[n][m] /\ recvs'[n][m] = recvs[n][m] + 1
      BY <3>1, <3>2, AskForOutcomesFacts, Zenon
    <3> QED
      BY <1>2, <2>1, <2>2, <3>1, <3>3
<1>13. CASE Req(n, i).type = "R" /\ Finish(n)
            /\ UNCHANGED <<free, number, creates, recvs, crashed>>
  <2>1. nst' = [nst EXCEPT ![n] = Idle]
    BY <1>13 DEF Finish
  <2>2. PICK v \in [at : States, req : Nat, total : Nat, left : Nat] :
            v = Idle /\ v.at = "idle"
    <3>1. Idle \in [at : States, req : Nat, total : Nat, left : Nat]
      BY DEF Idle, States
    <3> QED
      BY <3>1 DEF Idle
  <2>3. /\ free' \in [Nodes -> Nat]
        /\ creates' \in [Nodes -> [Nodes -> Seq(Asked)]] /\ recvs' \in [Nodes -> [Nodes -> Nat]]
    BY <1>13 DEF Types
  <2>4. /\ Types' /\ Requested' /\ BetweenNodes'
        /\ Aside(n, m) /\ View(n, m)' = Idle
        /\ Phase(n, m)' /\ Phase(m, n)' => InPhase'
    BY <1>10, <1>13, <2>1, <2>2, <2>3 DEF Busy
  <2>5. ~Begun(n, m)
    BY <1>7, <1>13 DEF Begun
  <2>6. ~Making(n, m) /\ ~Making(m, n)
    BY <1>5, <1>7, <1>9, NotMaking
  <2>7. View(n, m).at \notin Busy /\ View(n, m)'.at \notin Busy
    BY <1>7, <2>2, <2>4 DEF Busy
  <2>8. Phase(n, m)' /\ Phase(m, n)'
    BY <1>5, <1>8, <1>13, <2>4, <2>5, <2>6, <2>7, NotBusy
  <2> QED
    BY <2>4, <2>8
<1> QED
  BY <1>2, <1>3, <1>6, <1>11, <1>12, <1>13 DEF Acknowledged, puts
(* A receiver answers the request that it was waiting for.                   *)
LEMMA RequestReceivedKeeps ==
    ASSUME Types, Requested, BetweenNodes, InPhase, NEW n \in Nodes, RequestReceived(n)
    PROVE  /\ Types' /\ Requested' /\ BetweenNodes'
           /\ InPhase' \/ (crashed' = TRUE /\ UNCHANGED <<program, nst, making>>)
<1>1. /\ nst[n].at = "request" /\ chan[Peer(n)][n] # <<>>
      /\ chan' = [chan EXCEPT ![Peer(n)][n] = Tail(@),
                              ![n][Peer(n)] = Append(@, Ready)]
      /\ UNCHANGED <<program, pc, inbox, number, making>>
  BY DEF RequestReceived, Ready
<1>2. PICK i \in Nat : i = nst[n].req
  BY DEF Types
<1>3. IsRequest(n, i) /\ Req(n, i).role = "recv"
  BY <1>1, <1>2 DEF Requested
<1>4. PICK m \in Nodes : m = Req(n, i).peer
  BY <1>3, RequestFacts
<1>5. m # n /\ m = Peer(n)
  BY <1>2, <1>3, <1>4, RequestFacts DEF Peer
<1>6. /\ View(n, m) = nst[n] /\ View(n, m).at = "request"
      /\ ~Creating(n, m) /\ ~Receiving(n, m) /\ ~Asking(n, m)
  BY <1>1, <1>5, ViewFacts, ViewStates
<1>7. /\ Synchronised(n, m) /\ Phase(n, m) /\ Phase(m, n) /\ chan[m][n] # <<>>
  BY <1>1, <1>5 DEF InPhase
<1>8. PICK j \in Nat : j = View(m, n).req
  BY ViewFacts
<1>9. /\ View(m, n).at = "ack" /\ nst[m].at = "ack" /\ nst[m].req = j
      /\ chan[m][n] = <<[kind |-> "request", of |-> m, req |-> j]>>
      /\ chan[n][m] = <<>>
  BY <1>5, <1>6, <1>7, <1>8, RequestBefore
<1>10. IsRequest(m, j) /\ number[m][j] = Req(m, j).number
  BY <1>9 DEF Requested
<1>11. PICK p \in Nat : p = Req(m, j).number /\ p > 0
  BY <1>10, RequestFacts
<1>12. Head(chan[m][n]) = [kind |-> "request", of |-> m, req |-> j]
  BY <1>9
<1>13. /\ chan'[m][n] = <<>> /\ chan'[n][m] = <<Ready>>
       /\ chan' \in [Nodes -> [Nodes -> Seq(Messages)]]
       /\ \A a, b \in Nodes : <<a, b>> # <<n, m>> /\ <<a, b>> # <<m, n>> =>
              chan'[a][b] = chan[a][b]
  <2> DEFINE S == Seq(Messages)
             in == Tail(chan[m][n])
             half == [chan EXCEPT ![m][n] = in]
             out == Append(half[n][m], Ready)
  <2>1. chan \in [Nodes -> [Nodes -> S]]
    BY DEF Types
  <2>2. Ready \in Messages /\ in = <<>> /\ <<>> \in S
    BY <1>9 DEF Messages, Ready
  <2>3. half \in [Nodes -> [Nodes -> S]] /\ half[m][n] = in
        /\ \A a, b \in Nodes : <<a, b>> # <<m, n>> => half[a][b] = chan[a][b]
    <3>1. in \in S
      BY <2>2
    <3> HIDE DEF S, in
    <3> QED
      BY <2>1, <3>1, OneEntry
  <2>4. half[n][m] = <<>>
    BY <1>5, <1>9, <2>3
  <2>5. out = <<Ready>> /\ out \in S
    <3>1. Append(<<>>, Ready) = <<Ready>> /\ <<Ready>> \in Seq(Messages)
      BY <2>2
    <3> HIDE DEF half
    <3> QED
      BY <2>4, <3>1
  <2>6. chan' = [half EXCEPT ![n][m] = out]
    BY <1>1, <1>5
  <2> HIDE DEF S, in, half, out
  <2>7. /\ chan' \in [Nodes -> [Nodes -> S]] /\ chan'[n][m] = out
        /\ \A a, b \in Nodes : <<a, b>> # <<n, m>> => chan'[a][b] = half[a][b]
    BY <2>3, <2>5, <2>6, OneEntry
  <2>8. /\ chan'[m][n] = <<>> /\ chan'[n][m] = <<Ready>>
        /\ \A a, b \in Nodes : <<a, b>> # <<n, m>> /\ <<a, b>> # <<m, n>> =>
               chan'[a][b] = chan[a][b]
    BY <1>5, <2>2, <2>3, <2>5, <2>7
  <2> QED
    BY <2>7, <2>8 DEF S
\* What the cases have in common: n's network stack goes to v.
<1>14. ASSUME NEW v \in [at : States, req : Nat, total : Nat, left : Nat],
              nst' = [nst EXCEPT ![n] = v],
              v.at \notin {"ack", "request"},
              v.at # "idle" => v.req = i, v.at \in Busy => v.left > 0,
              free' \in [Nodes -> Nat],
              creates' \in [Nodes -> [Nodes -> Seq(Asked)]], recvs' \in [Nodes -> [Nodes -> Nat]],
              \A a, b \in Nodes : <<a, b>> # <<n, m>> =>
                  creates'[a][b] = creates[a][b] /\ recvs'[a][b] = recvs[a][b],
              crashed' = crashed
       PROVE  /\ Types' /\ Requested' /\ BetweenNodes'
              /\ Aside(n, m) /\ View(n, m)' = IF v.at # "idle" THEN v ELSE Idle
              /\ AheadWith(n, m, Ready)'
              /\ Phase(n, m)' /\ Phase(m, n)' => InPhase'
  <2>1. nst' \in [Nodes -> [at : States, req : Nat, total : Nat, left : Nat]]
    BY <1>14 DEF Types
  <2>2. Types'
    BY <1>1, <1>13, <1>14, <2>1 DEF Types
  <2>3. Requested'
    <3>1. \A k \in DOMAIN inbox'[n] : IsRequest(n, inbox'[n][k])
      BY <1>1 DEF Requested
    <3>2. number'[n] \in [DOMAIN Code(n) -> Nat]
      BY <1>1 DEF Requested
    <3> QED
      BY <1>1, <1>3, <1>14, <3>1, <3>2, RequestedFacts
  <2>4. Dealing(n, m, v)
    BY <1>1, <1>4, <1>5, <1>13, <1>14 DEF Dealing
  <2>5. /\ Aside(n, m) /\ View(n, m)' = IF v.at # "idle" THEN v ELSE Idle
        /\ BetweenNodes'
        /\ Synchronised(n, m)' /\ Phase(n, m)' /\ Phase(m, n)' => InPhase'
    BY <1>5, <2>4, DealingFacts
  <2>6. ~Asking(n, m)'
    BY <1>14, <2>5 DEF Asking, Idle
  <2>7. AheadWith(n, m, Ready)' /\ Synchronised(n, m)'
    BY <1>5, <1>9, <1>13, <2>5, <2>6, AnswerSent
  <2> QED
    BY <2>2, <2>3, <2>5, <2>7
<1>15. CASE Req(m, j).type = "CK" /\ AskForPair(n, p, p) /\ crashed' = crashed
  <2>1. PICK at \in {"comm", "pair"} :
             /\ nst' = [nst EXCEPT ![n] = [at |-> at, req |-> i, total |-> p, left |-> p]]
             /\ free' \in [Nodes -> Nat]
             /\ creates' \in [Nodes -> [Nodes -> Seq(Asked)]]
             /\ recvs' \in [Nodes -> [Nodes -> Nat]]
             /\ \A a, b \in Nodes : <<a, b>> # <<n, m>> =>
                    creates'[a][b] = creates[a][b] /\ recvs'[a][b] = recvs[a][b]
             /\ creates'[n][m] = creates[n][m]
             /\ recvs'[n][m] = recvs[n][m] + PairsAsked(at)
    BY <1>2, <1>3, <1>5, <1>15, AskForPairFacts
  <2>2. PICK v \in [at : States, req : Nat, total : Nat, left : Nat] :
            /\ v = [at |-> at, req |-> i, total |-> p, left |-> p]
            /\ v.at = at /\ v.req = i /\ v.left = p
    <3>1. [at |-> at, req |-> i, total |-> p, left |-> p]
              \in [at : States, req : Nat, total : Nat, left : Nat]
      BY DEF States, Busy
    <3> QED
      BY <3>1
  <2>3. /\ Types' /\ Requested' /\ BetweenNodes'
        /\ Aside(n, m) /\ View(n, m)' = v
        /\ AheadWith(n, m, Ready)'
        /\ Phase(n, m)' /\ Phase(m, n)' => InPhase'
    BY <1>11, <1>14, <1>15, <2>1, <2>2
  <2>4. BeginsToReceive(n, m, v, "CK", p)
    BY <1>3, <1>6, <1>8, <1>9, <1>11, <1>15, <2>1, <2>2, <2>3 DEF BeginsToReceive
  <2>5. Phase(n, m)' /\ Phase(m, n)'
    BY <1>5, <1>7, <2>3, <2>4, ReceiveBegun
  <2> QED
    BY <2>3, <2>5
<1>16. CASE Req(m, j).type = "MD" /\ AskForOutcomes(n, p)
  <2>1. CASE crashed' = TRUE /\ UNCHANGED <<free, nst, creates, recvs>>
    <3>1. Types'
      BY <1>1, <1>13, <2>1 DEF Types
    <3>2. Requested' /\ BetweenNodes'
      BY <1>1, <2>1 DEF Requested, BetweenNodes, IsRequest, Req, Code
    <3> QED
      BY <1>1, <2>1, <3>1, <3>2
  <2>2. CASE /\ crashed' = crashed
             /\ nst' = [nst EXCEPT ![n] = [at |-> "outcome", req |-> i,
                                           total |-> p, left |-> p]]
             /\ free' \in [Nodes -> Nat]
             /\ creates' \in [Nodes -> [Nodes -> Seq(Asked)]]
             /\ recvs' \in [Nodes -> [Nodes -> Nat]]
             /\ \A a, b \in Nodes : <<a, b>> # <<n, m>> =>
                    creates'[a][b] = creates[a][b] /\ recvs'[a][b] = recvs[a][b]
             /\ creates'[n][m] = creates[n][m] /\ recvs'[n][m] = recvs[n][m] + 1
    <3>1. PICK v \in [at : States, req : Nat, total : Nat, left : Nat] :
              /\ v = [at |-> "outcome", req |-> i, total |-> p, left |-> p]
              /\ v.at = "outcome" /\ v.req = i /\ v.left = p
      <4>1. [at |-> "outcome", req |-> i, total |-> p, left |-> p]
                \in [at : States, req : Nat, total : Nat, left : Nat]
        BY DEF States, Busy
      <4> QED
        BY <4>1
    <3>2. /\ Types' /\ Requested' /\ BetweenNodes'
          /\ Aside(n, m) /\ View(n, m)' = v
          /\ AheadWith(n, m, Ready)'
          /\ Phase(n, m)' /\ Phase(m, n)' => InPhase'
      BY <1>11, <1>14, <2>2, <3>1
    <3>3. BeginsToReceive(n, m, v, "MD", p)
      BY <1>3, <1>6, <1>8, <1>9, <1>11, <1>16, <2>2, <3>1, <3>2 DEF BeginsToReceive
    <3>4. Phase(n, m)' /\ Phase(m, n)'
      BY <1>5, <1>7, <3>2, <3>3, ReceiveBegun
    <3> QED
      BY <3>2, <3>4
  <2> QED
    <3>1. /\ Req(n, nst[n].req).role = "recv" /\ m = Peer(n) /\ AskForOutcomes(n, p)
          /\ Req(n, nst[n].req).role \in {"create", "recv"}
      BY <1>2, <1>3, <1>5, <1>16
    <3>2. \/ crashed' = TRUE /\ UNCHANGED <<free, nst, creates, recvs>>
          \/ /\ crashed' = crashed
             /\ nst' = [nst EXCEPT ![n] = [at |-> "outcome", req |-> nst[n].req,
                                           total |-> p, left |-> p]]
             /\ free' \in [Nodes -> Nat]
             /\ creates' \in [Nodes -> [Nodes -> Seq(Asked)]]
             /\ recvs' \in [Nodes -> [Nodes -> Nat]]
             /\ \A a, b \in Nodes : <<a, b>> # <<n, m>> =>
                    creates'[a][b] = creates[a][b] /\ recvs'[a][b] = recvs[a][b]
             /\ Req(n, nst[n].req).role = "create" =>
                    /\ recvs'[n][m] = recvs[n][m]
                    /\ creates[n][m] = <<>> =>
                           creates'[n][m] = <<[type |-> "MD", pairs |-> p]>>
             /\ Req(n, nst[n].req).role = "recv" =>
                    creates'[n][m] = creates[n][m] /\ recvs'[n][m] = recvs[n][m] + 1
      BY <3>1, AskForOutcomesFacts, Zenon
    <3> QED
      BY <1>2, <2>1, <2>2, <3>1, <3>2
<1>17. CASE Finish(n) /\ Req(m, j).type \notin {"CK", "MD"}
            /\ UNCHANGED <<free, creates, recvs, crashed>>
  <2>1. nst' = [nst EXCEPT ![n] = Idle]
    BY <1>17 DEF Finish
  <2>2. PICK v \in [at : States, req : Nat, total : Nat, left : Nat] :
            v = Idle /\ v.at = "idle"
    <3>1. Idle \in [at : States, req : Nat, total : Nat, left : Nat]
      BY DEF Idle, States
    <3> QED
      BY <3>1 DEF Idle
  <2>3. /\ free' \in [Nodes -> Nat]
        /\ creates' \in [Nodes -> [Nodes -> Seq(Asked)]] /\ recvs' \in [Nodes -> [Nodes -> Nat]]
    BY <1>17 DEF Types
  <2>4. /\ Types' /\ Requested' /\ BetweenNodes'
        /\ Aside(n, m) /\ View(n, m)' = Idle
        /\ Phase(n, m)' /\ Phase(m, n)' => InPhase'
    BY <1>14, <1>17, <2>1, <2>2, <2>3 DEF Busy
  <2>5. ~Begun(n, m)
    BY <1>6 DEF Begun, AheadWith
  <2>6. ~Making(n, m) /\ ~Making(m, n)
    BY <1>5, <1>6, <1>7, NotMaking
  <2>7. View(n, m).at \notin Busy /\ View(n, m)'.at \notin Busy
    BY <1>6, <2>2, <2>4 DEF Busy
  <2>8. Phase(n, m)' /\ Phase(m, n)'
    BY <1>5, <1>7, <1>17, <2>4, <2>5, <2>6, <2>7, NotBusy
  <2> QED
    BY <2>4, <2>8
<1> QED
  <2>1. \/ Req(m, j).type = "CK" /\ AskForPair(n, p, p) /\ crashed' = crashed
        \/ Req(m, j).type = "MD" /\ AskForOutcomes(n, p)
        \/ /\ Finish(n) /\ Req(m, j).type \notin {"CK", "MD"}
           /\ UNCHANGED <<free, creates, recvs, crashed>>
    <3> DEFINE msg == Head(chan[Peer(n)][n])
               type == IF msg.kind = "request" THEN Req(msg.of, msg.req).type ELSE "none"
               pairs == number[msg.of][msg.req]
    <3>1. \/ type = "CK" /\ AskForPair(n, pairs, pairs) /\ UNCHANGED crashed
          \/ type = "MD" /\ AskForOutcomes(n, pairs)
          \/ type \notin {"CK", "MD"} /\ Finish(n) /\ UNCHANGED <<free, puts, crashed>>
      BY Zenon DEF RequestReceived
    <3>2. msg.kind = "request" /\ msg.of = m /\ msg.req = j
      BY <1>5, <1>12
    <3>3. type = Req(m, j).type /\ pairs = p
      BY <1>10, <1>11, <3>2
    <3> HIDE DEF type, pairs
    <3> QED
      BY <3>1, <3>3 DEF puts
  <2> QED
    BY <1>15, <1>16, <1>17, <2>1
-----------------------------------------------------------------------------
(* A CK request waits for a communication qubit.                             *)

(* The messages are as they were when n goes from one state of work to another. *)
LEMMA StillBusy ==
    ASSUME Types, Requested, NEW n \in Nodes, NEW m \in Nodes, n # m, Aside(n, m),
           View(n, m).at \in Busy, View(n, m)'.at \in Busy \cup {"idle"},
           chan'[n][m] = chan[n][m], chan'[m][n] = chan[m][n]
    PROVE  /\ Synchronised(n, m) => Synchronised(n, m)'
           /\ Level(n, m) => Level(n, m)'
           /\ \A a : AheadWith(n, m, a) => AheadWith(n, m, a)'
<1>1. /\ ~Asking(n, m) /\ ~Asking(n, m)' /\ Sent(n, m) = <<>> /\ Sent(n, m)' = <<>>
      /\ Sent(m, n)' = Sent(m, n) /\ Asking(m, n)' = Asking(m, n)
  BY AsideFacts DEF Asking, Sent, Busy
<1>2. Level(n, m) => Level(n, m)'
  BY <1>1 DEF Level
<1>3. \A a : AheadWith(n, m, a) => AheadWith(n, m, a)'
  BY <1>1 DEF AheadWith
<1>4. ~Ahead(m, n)
  BY <1>1 DEF Ahead, AheadWith
<1> QED
  BY <1>2, <1>3, <1>4 DEF Synchronised, Ahead

(* A creator that waits for a qubit is going to ask for its pair.            *)
LEMMA CreatorAsks ==
    ASSUME Types, Requested, NEW n \in Nodes, NEW m \in Nodes, n # m, Aside(n, m),
           View(n, m).at = "comm", Creating(n, m), Creating(n, m)',
           NEW at \in {"comm", "pair"}, View(n, m)'.at = at,
           View(n, m)'.left = View(n, m).left,
           recvs'[n][m] = recvs[n][m],
           creates[n][m] = <<>> => creates'[n][m] = CreatesAsked(at),
           Level(n, m) => Level(n, m)',
           Phase(n, m), Phase(m, n)
    PROVE  Phase(n, m)' /\ Phase(m, n)'
<1>1. /\ ~Receiving(n, m) /\ ~Receiving(n, m)' /\ ~Asking(n, m)
      /\ at \in Busy /\ at # "outcome"
  BY ViewStates DEF Creating, Receiving, Busy
<1>2. Phase(m, n)'
  BY <1>1, CreatorOnly DEF Aside
<1>3. Creating(m, n)' = Creating(m, n) /\ Receiving(m, n)' = Receiving(m, n)
  BY AsideFacts
<1>4. ~Unused(n, m) /\ ~Begun(n, m)
  BY <1>1 DEF Unused, Begun, AheadWith
<1>5. Stuck(n, m) => Stuck(n, m)'
  BY <1>3 DEF Stuck, Aside
<1>6. CreatesAsked("comm") = <<>>
  BY DEF CreatesAsked
<1>7. ASSUME Even(n, m)  PROVE  Even(n, m)'
  <2>1. /\ Level(n, m)' /\ Receiving(m, n)' /\ Works(n, m)' = {}
        /\ View(m, n)' = View(m, n) /\ recvs'[m][n] = recvs[m][n]
        /\ View(n, m).left = View(m, n).left
        /\ View(m, n).at \in {"comm", "pair"} /\ recvs[m][n] = PairsAsked(View(m, n).at)
        /\ creates'[n][m] = CreatesAsked(at)
    BY <1>3, <1>6, <1>7 DEF Even, Aside
  <2> QED
    BY <2>1 DEF Even
<1>8. ASSUME Making(n, m)  PROVE  Making(n, m)'
  <2>1. PICK w \in Works(n, m) : MakingOf(w, n, m)
    BY <1>8 DEF Making
  <2>2. w.type = "CK" /\ n \notin w.todo
    BY <2>1 DEF MakingOf, Awaiting
  <2>3. /\ ToGo(View(n, m)', w, n) = ToGo(View(n, m), w, n)
        /\ ToGo(View(m, n)', w, m) = ToGo(View(m, n), w, m)
    BY <1>1 DEF ToGo, Aside, Busy
  <2>4. creates'[n][m] = CreatesAsked(at)
    BY <1>6, <2>1, <2>2 DEF MakingOf
  <2>5. MakingOf(w, n, m)'
    BY <1>1, <1>3, <2>1, <2>2, <2>3, <2>4 DEF MakingOf, Aside
  <2> QED
    BY <2>1, <2>5 DEF Making, Aside
<1> QED
  BY <1>2, <1>4, <1>5, <1>7, <1>8 DEF Phase

(* So is a receiver.                                                         *)
LEMMA ReceiverAsks ==
    ASSUME Types, Requested, NEW n \in Nodes, NEW m \in Nodes, n # m, Aside(n, m),
           View(n, m).at = "comm", Receiving(n, m), Receiving(n, m)',
           NEW at \in {"comm", "pair"}, View(n, m)'.at = at,
           View(n, m)'.left = View(n, m).left,
           creates'[n][m] = creates[n][m],
           recvs'[n][m] = recvs[n][m] + PairsAsked(at),
           Level(n, m) => Level(n, m)',
           \A a : AheadWith(n, m, a) => AheadWith(n, m, a)',
           Phase(n, m), Phase(m, n)
    PROVE  Phase(n, m)' /\ Phase(m, n)'
<1>1. /\ ~Creating(n, m) /\ ~Creating(n, m)' /\ ~Asking(n, m)
      /\ at \in Busy /\ at # "outcome"
  BY ViewStates DEF Creating, Receiving, Busy
<1>2. Phase(n, m)'
  BY <1>1, ReceiverOnly DEF Aside
<1>3. Creating(m, n)' = Creating(m, n) /\ Receiving(m, n)' = Receiving(m, n)
  BY AsideFacts
<1>4. ~Unused(m, n) /\ ~Stuck(m, n)
  BY <1>1 DEF Unused, Stuck
<1>5. PairsAsked("comm") = 0 /\ PairsAsked(at) \in Nat
  BY DEF PairsAsked
<1>6. recvs[n][m] = 0 => recvs'[n][m] = PairsAsked(at)
  BY <1>5
<1>7. ASSUME Begun(m, n)  PROVE  Begun(m, n)'
  <2>1. /\ AheadWith(n, m, Ready)' /\ creates'[m][n] = <<>> /\ Works(m, n)' = {}
        /\ View(m, n)' = View(m, n)
        /\ View(n, m).left = Req(m, View(m, n).req).number
        /\ Req(m, View(m, n).req).type = "CK"
        /\ recvs'[n][m] = PairsAsked(at)
    BY <1>5, <1>6, <1>7 DEF Begun, Aside
  <2>2. Req(m, View(m, n).req)' = Req(m, View(m, n).req)
    BY <2>1 DEF Aside, Req, Code
  <2> QED
    BY <2>1, <2>2 DEF Begun
<1>8. ASSUME Even(m, n)  PROVE  Even(m, n)'
  <2>1. /\ Level(m, n)' /\ Creating(m, n)' /\ Works(m, n)' = {}
        /\ View(m, n)' = View(m, n) /\ creates'[m][n] = creates[m][n]
        /\ View(m, n).left = View(n, m).left
        /\ View(m, n).at \in {"comm", "pair"}
        /\ creates[m][n] = CreatesAsked(View(m, n).at)
        /\ recvs'[n][m] = PairsAsked(at)
    BY <1>3, <1>5, <1>6, <1>8 DEF Even, Aside, Level
  <2> QED
    BY <2>1 DEF Even
<1>9. ASSUME Making(m, n)  PROVE  Making(m, n)'
  <2>1. PICK w \in Works(m, n) : MakingOf(w, m, n)
    BY <1>9 DEF Making
  <2>2. w.type = "CK" /\ n \notin w.todo
    BY <2>1 DEF MakingOf, Awaiting
  <2>3. /\ ToGo(View(n, m)', w, n) = ToGo(View(n, m), w, n)
        /\ ToGo(View(m, n)', w, m) = ToGo(View(m, n), w, m)
    BY <1>1 DEF ToGo, Aside, Busy
  <2>4. recvs'[n][m] = PairsAsked(at)
    BY <1>5, <1>6, <2>1, <2>2 DEF MakingOf
  <2>5. Level(m, n)'
    BY <2>1 DEF MakingOf, Level
  <2>6. MakingOf(w, m, n)'
    BY <1>1, <1>3, <2>1, <2>2, <2>3, <2>4, <2>5 DEF MakingOf, Aside
  <2> QED
    BY <2>1, <2>6 DEF Making, Aside
<1> QED
  BY <1>2, <1>4, <1>7, <1>8, <1>9 DEF Phase

(* A qubit was freed.                                                        *)
LEMMA MemoryFreedKeeps ==
    ASSUME Types, Requested, BetweenNodes, InPhase, NEW n \in Nodes, MemoryFreed(n),
           nst[n].at = "comm"
    PROVE  Types' /\ Requested' /\ BetweenNodes' /\ InPhase'
<1>1. /\ AskForPair(n, nst[n].total, nst[n].left)
      /\ UNCHANGED <<program, pc, inbox, chan, number, making, crashed>>
  BY DEF MemoryFreed
<1>2. PICK i \in Nat, t \in Nat, k \in Nat :
          i = nst[n].req /\ t = nst[n].total /\ k = nst[n].left
  BY DEF Types
<1>3. IsRequest(n, i) /\ k > 0
  BY <1>2 DEF Requested, Busy
<1>4. PICK m \in Nodes : m = Req(n, i).peer
  BY <1>3, RequestFacts
<1>5. m # n /\ m = Peer(n) /\ Req(n, nst[n].req).role \in {"create", "recv"}
  BY <1>2, <1>3, <1>4, RequestFacts DEF Peer
<1>6. PICK at \in {"comm", "pair"} :
             /\ nst' = [nst EXCEPT ![n] = [at |-> at, req |-> nst[n].req, total |-> t,
                                           left |-> k]]
             /\ free' \in [Nodes -> Nat]
             /\ creates' \in [Nodes -> [Nodes -> Seq(Asked)]]
             /\ recvs' \in [Nodes -> [Nodes -> Nat]]
             /\ \A a, b \in Nodes : <<a, b>> # <<n, m>> =>
                    creates'[a][b] = creates[a][b] /\ recvs'[a][b] = recvs[a][b]
             /\ Req(n, nst[n].req).role = "create" =>
                    /\ recvs'[n][m] = recvs[n][m]
                    /\ creates[n][m] = <<>> => creates'[n][m] = CreatesAsked(at)
             /\ Req(n, nst[n].req).role = "recv" =>
                    /\ creates'[n][m] = creates[n][m]
                    /\ recvs'[n][m] = recvs[n][m] + PairsAsked(at)
  <2>1. AskForPair(n, t, k)
    BY <1>1, <1>2
  <2> QED
    BY <1>5, <2>1, AskForPairFacts, SMTT(30)
<1>7. PICK v \in [at : States, req : Nat, total : Nat, left : Nat] :
          /\ v = [at |-> at, req |-> i, total |-> t, left |-> k]
          /\ v.at = at /\ v.req = i /\ v.left = k
          /\ nst' = [nst EXCEPT ![n] = v]
  <2>1. [at |-> at, req |-> i, total |-> t, left |-> k]
            \in [at : States, req : Nat, total : Nat, left : Nat]
    BY DEF States, Busy
  <2> QED
    BY <1>2, <1>6, <2>1
<1>8. nst' \in [Nodes -> [at : States, req : Nat, total : Nat, left : Nat]]
  BY <1>7 DEF Types
<1>9. Types'
  BY <1>1, <1>6, <1>8 DEF Types
<1>10. Requested'
  <2>1. /\ \A j \in DOMAIN inbox'[n] : IsRequest(n, inbox'[n][j])
        /\ number'[n] \in [DOMAIN Code(n) -> Nat]
    BY <1>1 DEF Requested
  <2> QED
    BY <1>1, <1>3, <1>6, <1>7, <2>1, RequestedFacts
<1>11. Dealing(n, m, v)
  BY <1>1, <1>4, <1>5, <1>6, <1>7 DEF Dealing
<1>12. /\ Aside(n, m) /\ View(n, m)' = v
       /\ BetweenNodes'
       /\ Synchronised(n, m)' /\ Phase(n, m)' /\ Phase(m, n)' => InPhase'
  <2>1. v.at # "idle"
    BY <1>7
  <2> QED
    BY <1>5, <1>11, <2>1, DealingFacts
<1>13. View(n, m) = nst[n] /\ View(n, m).at = "comm" /\ View(n, m).req = i
  BY <1>2, <1>5, ViewFacts
<1>14. /\ Synchronised(n, m) /\ Phase(n, m) /\ Phase(m, n)
       /\ chan'[n][m] = chan[n][m] /\ chan'[m][n] = chan[m][n]
  BY <1>1, <1>5 DEF InPhase
<1>15. View(n, m).at \in Busy /\ View(n, m)'.at \in Busy \cup {"idle"}
  BY <1>7, <1>12, <1>13 DEF Busy
<1>16. /\ Synchronised(n, m)'
       /\ Level(n, m) => Level(n, m)'
       /\ \A a : AheadWith(n, m, a) => AheadWith(n, m, a)'
  BY <1>5, <1>12, <1>14, <1>15, StillBusy
<1>17. View(n, m)'.at = at /\ View(n, m)'.left = View(n, m).left
  BY <1>2, <1>7, <1>12, <1>13
<1>18. Req(n, i)' = Req(n, i)
  BY <1>1 DEF Req, Code
<1>19. CASE Req(n, i).role = "create"
  <2>1. Creating(n, m) /\ Creating(n, m)'
    BY <1>7, <1>12, <1>13, <1>15, <1>18, <1>19 DEF Creating, Busy
  <2> QED
    BY <1>2, <1>5, <1>6, <1>9, <1>10, <1>12, <1>13, <1>14, <1>16, <1>17, <1>19, <2>1, CreatorAsks
<1>20. CASE Req(n, i).role = "recv"
  <2>1. Receiving(n, m) /\ Receiving(n, m)'
    BY <1>7, <1>12, <1>13, <1>15, <1>18, <1>20 DEF Receiving, Busy
  <2> QED
    BY <1>2, <1>5, <1>6, <1>9, <1>10, <1>12, <1>13, <1>14, <1>16, <1>17, <1>20, <2>1, ReceiverAsks
<1> QED
  BY <1>2, <1>5, <1>19, <1>20
-----------------------------------------------------------------------------
(* The link layer begins to make what both ends asked for.                   *)
LEMMA EgpStartKeeps ==
    ASSUME Types, Requested, BetweenNodes, InPhase,
           NEW c \in Nodes, NEW r \in Nodes, EgpStart(c, r)
    PROVE  Types' /\ Requested' /\ BetweenNodes' /\ InPhase'
<1>1. /\ creates[c][r] # <<>> /\ recvs[r][c] > 0
      /\ \A w \in making : {w.creator, w.receiver} # {c, r}
      /\ creates' = [creates EXCEPT ![c][r] = Tail(creates[c][r])]
      /\ recvs' = [recvs EXCEPT ![r][c] = recvs[r][c] - 1]
      /\ UNCHANGED <<program, pc, inbox, chan, number, nst, free, crashed>>
  BY DEF EgpStart
<1>2. c # r
  BY <1>1 DEF BetweenNodes
<1>3. PICK w : /\ making' = making \cup {w} /\ w \in Work
               /\ w.creator = c /\ w.receiver = r /\ w.todo = {c, r}
               /\ w.type = Head(creates[c][r]).type /\ w.left = Head(creates[c][r]).pairs
  <2> DEFINE new == [creator |-> c, receiver |-> r, type |-> Head(creates[c][r]).type,
                     left |-> Head(creates[c][r]).pairs, todo |-> {c, r}]
  <2>1. making' = making \cup {new}
    BY DEF EgpStart
  <2>2. /\ new.creator = c /\ new.receiver = r /\ new.todo = {c, r}
        /\ new.type = Head(creates[c][r]).type /\ new.left = Head(creates[c][r]).pairs
    OBVIOUS
  <2>3. Head(creates[c][r]) \in Asked
    <3>1. creates[c][r] \in Seq(Asked)
      BY DEF Types
    <3> HIDE DEF new
    <3> QED
      BY <1>1, <3>1
  <2>4. new \in Work
    BY <2>3 DEF Work, Asked
  <2> HIDE DEF new
  <2> QED
    BY <2>1, <2>2, <2>4
<1>4. /\ creates' \in [Nodes -> [Nodes -> Seq(Asked)]]
      /\ creates'[c][r] = Tail(creates[c][r])
      /\ \A a, b \in Nodes : <<a, b>> # <<c, r>> => creates'[a][b] = creates[a][b]
  <2> DEFINE S == Seq(Asked)
             rest == Tail(creates[c][r])
  <2>1. creates \in [Nodes -> [Nodes -> S]] /\ creates[c][r] \in S
    BY DEF Types
  <2>2. rest \in S
    BY <1>1, <2>1
  <2> HIDE DEF S, rest
  <2>3. /\ creates' \in [Nodes -> [Nodes -> S]] /\ creates'[c][r] = rest
        /\ \A a, b \in Nodes : <<a, b>> # <<c, r>> => creates'[a][b] = creates[a][b]
    <3>1. creates' = [creates EXCEPT ![c][r] = rest]
      BY <1>1 DEF rest
    <3> QED
      BY <2>1, <2>2, <3>1, OneEntry
  <2> QED
    BY <2>3 DEF S, rest
<1>5. /\ recvs' \in [Nodes -> [Nodes -> Nat]]
      /\ recvs'[r][c] = recvs[r][c] - 1
      /\ \A a, b \in Nodes : <<a, b>> # <<r, c>> => recvs'[a][b] = recvs[a][b]
  <2>1. recvs \in [Nodes -> [Nodes -> Nat]]
    BY DEF Types
  <2>2. recvs[r][c] - 1 \in Nat
    BY <1>1, <2>1
  <2> QED
    BY <1>1, <2>1, <2>2, OneEntry
<1>6. Types'
  BY <1>1, <1>4, <1>5 DEF Types
<1>7. Requested'
  BY <1>1 DEF Requested, IsRequest, Req, Code
<1>8. BetweenNodes'
  BY <1>2, <1>3, <1>5 DEF BetweenNodes
<1>9. /\ \A a, b \in Nodes : View(a, b)' = View(a, b)
      /\ \A a, b \in Nodes : <<a, b>> # <<c, r>> => Works(a, b)' = Works(a, b)
      /\ Works(c, r) = {} /\ Works(c, r)' = {w}
  <2>1. \A a, b \in Nodes : View(a, b)' = View(a, b)
    BY <1>1 DEF View, Peer, Req, Code, Idle
  <2>2. \A a, b \in Nodes : <<a, b>> # <<c, r>> => Works(a, b)' = Works(a, b)
    BY <1>3 DEF Works
  <2>3. Works(c, r) = {}
    BY <1>1 DEF Works
  <2>4. Works(c, r)' = {w}
    BY <1>3, <2>3 DEF Works
  <2> QED
    BY <2>1, <2>2, <2>3, <2>4
<1>10. /\ Creating(c, r)' = Creating(c, r) /\ Receiving(r, c)' = Receiving(r, c)
       /\ Level(c, r)' = Level(c, r)
  <2>1. Asking(c, r)' = Asking(c, r) /\ Asking(r, c)' = Asking(r, c)
    BY <1>9 DEF Asking
  <2>2. Sent(c, r)' = Sent(c, r) /\ Sent(r, c)' = Sent(r, c)
    BY <1>9, <2>1 DEF Sent
  <2>3. Creating(c, r)' = Creating(c, r) /\ Receiving(r, c)' = Receiving(r, c)
    BY <1>1, <1>9 DEF Creating, Receiving, Req, Code
  <2> QED
    BY <1>1, <2>2, <2>3 DEF Level
<1>11. Even(c, r)
  <2>1. Phase(c, r)
    BY <1>2 DEF InPhase
  <2>2. ~Unused(c, r) /\ ~Begun(c, r) /\ ~Stuck(c, r)
    BY <1>1 DEF Unused, Begun, Stuck
  <2>3. ~Making(c, r)
    BY <1>9 DEF Making
  <2> QED
    BY <2>1, <2>2, <2>3 DEF Phase
<1>12. /\ View(c, r).left \in Nat /\ View(c, r).left > 0 /\ View(r, c).left = View(c, r).left
       /\ View(c, r).at \in Busy /\ View(r, c).at \in Busy
  <2>1. View(c, r).at \in Busy /\ View(r, c).at \in Busy
    BY <1>11 DEF Even, Busy
  <2>2. View(c, r).left \in Nat /\ View(c, r).left > 0
    BY <2>1, ViewFacts, ViewStates
  <2> QED
    BY <1>11, <2>1, <2>2 DEF Even
<1>13. /\ ToGo(View(c, r), w, c) = View(c, r).left
       /\ ToGo(View(r, c), w, r) = View(c, r).left
  BY <1>3, <1>12 DEF ToGo
<1>14. \/ /\ View(c, r).at = "pair" /\ View(r, c).at = "pair"
          /\ creates[c][r] = <<[type |-> "CK", pairs |-> 1]>> /\ recvs[r][c] = 1
       \/ /\ View(c, r).at = "outcome" /\ View(r, c).at = "outcome"
          /\ creates[c][r] = <<[type |-> "MD", pairs |-> View(c, r).left]>> /\ recvs[r][c] = 1
  BY <1>1, <1>11 DEF Even, CreatesAsked, PairsAsked
<1>15. /\ creates'[c][r] = <<>> /\ recvs'[r][c] = 0
       /\ \/ /\ View(c, r).at = "pair" /\ View(r, c).at = "pair"
             /\ w.type = "CK" /\ w.left = 1
          \/ /\ View(c, r).at = "outcome" /\ View(r, c).at = "outcome"
             /\ w.type = "MD" /\ w.left = View(c, r).left
  <2>1. CASE /\ View(c, r).at = "pair" /\ View(r, c).at = "pair"
             /\ creates[c][r] = <<[type |-> "CK", pairs |-> 1]>> /\ recvs[r][c] = 1
    BY <1>3, <1>4, <1>5, <2>1
  <2>2. CASE /\ View(c, r).at = "outcome" /\ View(r, c).at = "outcome"
             /\ creates[c][r] = <<[type |-> "MD", pairs |-> View(c, r).left]>>
             /\ recvs[r][c] = 1
    BY <1>3, <1>4, <1>5, <2>2
  <2> QED
    BY <1>14, <2>1, <2>2
<1>16. MakingOf(w, c, r)'
  <2>1. View(c, r).at = Awaiting(w.type) /\ View(r, c).at = Awaiting(w.type)
    BY <1>15 DEF Awaiting
  <2>2. Level(c, r)' /\ Creating(c, r)' /\ Receiving(r, c)'
    BY <1>10, <1>11 DEF Even
  <2> QED
    BY <1>3, <1>9, <1>13, <1>15, <2>1, <2>2 DEF MakingOf
<1>17. Phase(c, r)'
  BY <1>9, <1>16 DEF Phase, Making
<1>18. Synchronised(c, r)'
  BY <1>10, <1>11 DEF Synchronised, Even
<1>19. Phase(r, c)'
  <2>1. Phase(r, c) /\ <<r, c>> # <<c, r>>
    BY <1>2 DEF InPhase
  <2> QED
    BY <1>1, <1>4, <1>5, <1>9, <2>1, Untouched
<1> QED
  <2>1. \A a, b \in Nodes : <<a, b>> # <<c, r>> /\ <<a, b>> # <<r, c>> =>
               /\ View(a, b)' = View(a, b)
               /\ chan'[a][b] = chan[a][b]
               /\ creates'[a][b] = creates[a][b] /\ recvs'[a][b] = recvs[a][b]
               /\ Works(a, b)' = Works(a, b)
    BY <1>1, <1>4, <1>5, <1>9
  <2>2. InPhase'
    BY <1>1, <1>17, <1>18, <1>19, <2>1, OneLink
  <2> QED
    BY <1>6, <1>7, <1>8, <2>2
-----------------------------------------------------------------------------
(* The link layer has made a pair.                                           *)

(* What is left of w after it was signalled to n.                            *)
LEMMA SignalledFacts ==
    ASSUME NEW w \in Work, w.creator # w.receiver, NEW n
    PROVE  /\ \A u \in Signalled(w, n) :
                  /\ u \in Work /\ u.type = w.type
                  /\ u.creator = w.creator /\ u.receiver = w.receiver
           /\ w.todo # {n} => \E u : /\ Signalled(w, n) = {u}
                                     /\ u.todo = w.todo \ {n} /\ u.left = w.left
                                     /\ u.type = w.type
           /\ w.todo = {n} /\ w.left > 1 =>
                  \E u : /\ Signalled(w, n) = {u}
                         /\ u.todo = {w.creator, w.receiver} /\ u.left = w.left - 1
                         /\ u.type = w.type
           /\ w.todo = {n} /\ ~(w.left > 1) => Signalled(w, n) = {}
<1> DEFINE u1 == [w EXCEPT !.todo = w.todo \ {n}]
           u2 == [w EXCEPT !.left = w.left - 1, !.todo = {w.creator, w.receiver}]
<1>1. /\ u1 \in Work /\ u1.type = w.type /\ u1.left = w.left
      /\ u1.creator = w.creator /\ u1.receiver = w.receiver /\ u1.todo = w.todo \ {n}
  BY DEF Work
<1>2. /\ w.left > 1 => u2 \in Work
      /\ u2.type = w.type /\ u2.left = w.left - 1
      /\ u2.creator = w.creator /\ u2.receiver = w.receiver
      /\ u2.todo = {w.creator, w.receiver}
  <2>1. /\ u2.type = w.type /\ u2.left = w.left - 1
        /\ u2.creator = w.creator /\ u2.receiver = w.receiver
        /\ u2.todo = {w.creator, w.receiver}
    BY DEF Work
  <2>2. ASSUME w.left > 1  PROVE  u2 \in Work
    <3>1. w.left - 1 \in Nat /\ {w.creator, w.receiver} \in SUBSET Nodes
      BY <2>2 DEF Work
    <3> QED
      BY <3>1 DEF Work
  <2> QED
    BY <2>1, <2>2
<1>3. /\ w.todo # {n} => Signalled(w, n) = {u1}
      /\ w.todo = {n} /\ w.left > 1 => Signalled(w, n) = {u2}
      /\ w.todo = {n} /\ ~(w.left > 1) => Signalled(w, n) = {}
  BY DEF Signalled
<1> HIDE DEF u1, u2
<1>4. ASSUME NEW u \in Signalled(w, n)
      PROVE  /\ u \in Work /\ u.type = w.type
             /\ u.creator = w.creator /\ u.receiver = w.receiver
  BY <1>1, <1>2, <1>3, <1>4
<1> QED
  BY <1>1, <1>2, <1>3, <1>4

\* n goes on after it got a pair: to the next one, or to its next request.
GoesOn(n, m, v, k, type, role) ==
    \/ /\ k > 1 /\ v.left = k - 1 /\ Req(n, v.req).role = role
       /\ \/ type = "CK" /\ v.at \in {"comm", "pair"}
          \/ type = "MD" /\ v.at = "outcome"
    \/ k = 1 /\ v.at = "idle"

(* What it means for the session, from both ends.                            *)
LEMMA PairSignalled ==
    ASSUME Types, Requested, BetweenNodes,
           NEW c \in Nodes, NEW r \in Nodes, c # r, NEW n \in Nodes, NEW m \in Nodes,
           \/ n = c /\ m = r
           \/ n = r /\ m = c,
           NEW w \in Work, w.creator = c, w.receiver = r, MakingOf(w, c, r), n \in w.todo,
           Works(c, r)' = Signalled(w, n),
           program' = program, View(m, n)' = View(m, n),
           NEW v, View(n, m)' = v, NEW k \in Nat, k = View(n, m).left,
           GoesOn(n, m, v, k, w.type, IF n = c THEN "create" ELSE "recv"),
           creates'[c][r] = IF n = c THEN CreatesAsked(v.at) ELSE creates[c][r],
           recvs'[r][c] = IF n = r THEN PairsAsked(v.at) ELSE recvs[r][c],
           Level(c, r)'
    PROVE  Phase(c, r)'
<1>1. /\ w.type \in {"CK", "MD"} /\ w.left \in Nat /\ w.todo \in {{c}, {r}, {c, r}}
      /\ View(n, m).at = Awaiting(w.type) /\ View(n, m).at \in Busy /\ k > 0
  <2>1. View(n, m).at = Awaiting(w.type) /\ w.type \in {"CK", "MD"}
    BY DEF MakingOf
  <2>2. View(n, m).at \in Busy
    BY <2>1 DEF Awaiting, Busy
  <2> QED
    BY <2>1, <2>2, ViewStates DEF MakingOf, Work
<1>2. /\ n # m /\ {n, m} = {c, r}
      /\ w.todo = {n} \/ (w.todo = {n, m} /\ w.todo # {n} /\ w.todo \ {n} = {m})
  BY <1>1
\* What m has to go.
<1>3. PICK b \in Nat : /\ b = IF View(m, n).at \in Busy THEN View(m, n).left ELSE 0
                       /\ View(m, n).at \in Busy <=> b > 0
  <2>1. View(m, n).left \in Nat /\ (View(m, n).at \in Busy => View(m, n).left > 0)
    BY ViewFacts, ViewStates
  <2> QED
    BY <2>1
<1>4. /\ w.todo = {n} => b + 1 = k
      /\ w.todo = {n, m} => b = k
  <2>1. ToGo(View(n, m), w, n) = ToGo(View(m, n), w, m)
    BY DEF MakingOf
  <2>2. ToGo(View(n, m), w, n) = k
    BY <1>1 DEF ToGo
  <2>3. ToGo(View(m, n), w, m) = b + (IF m \in w.todo THEN 0 ELSE 1)
    BY <1>3 DEF ToGo
  <2>4. k = b + (IF m \in w.todo THEN 0 ELSE 1)
    BY <2>1, <2>2, <2>3
  <2>5. ASSUME w.todo = {n}  PROVE  b + 1 = k
    <3>1. m \notin w.todo
      BY <1>2, <2>5
    <3> QED
      BY <2>4, <3>1
  <2>6. ASSUME w.todo = {n, m}  PROVE  b = k
    <3>1. m \in w.todo
      BY <2>6
    <3> QED
      BY <2>4, <3>1
  <2> QED
    BY <2>5, <2>6
<1>5. w.type = "MD" => w.left = k
  <2>1. ToGo(View(n, m), w, n) = ToGo(View(m, n), w, m)
    BY DEF MakingOf
  <2>2. ToGo(View(n, m), w, n) = k
    BY <1>1 DEF ToGo
  <2> QED
    BY <2>1, <2>2 DEF MakingOf
<1>6. /\ v.at \in Busy <=> k > 1
      /\ v.at \in Busy => v.left = k - 1
      /\ ~(k > 1) => k = 1
  BY <1>1 DEF GoesOn, Busy
<1>7. /\ n = c /\ v.at \in Busy => Creating(c, r)'
      /\ n = r /\ v.at \in Busy => Receiving(r, c)'
      /\ v.at \notin Busy => ~Creating(n, m)' /\ ~Receiving(n, m)'
  BY <1>6 DEF GoesOn, Creating, Receiving, Req, Code
<1>8. /\ Creating(m, n)' = Creating(m, n) /\ Receiving(m, n)' = Receiving(m, n)
      /\ n = r /\ View(m, n).at \in Busy => Creating(c, r)'
      /\ n = c /\ View(m, n).at \in Busy => Receiving(r, c)'
  BY DEF Creating, Receiving, Req, Code, MakingOf
<1>9. /\ View(n, m)' = v /\ View(m, n)' = View(m, n) /\ Level(c, r)'
      /\ View(m, n).at \in Busy <=> b > 0
      /\ View(m, n).at \in Busy => View(m, n).left = b
  BY <1>3
\* Both ends go on to the same pair, or are done.
<1>10. ASSUME Works(c, r)' = {}, w.todo = {n}, w.type = "CK" \/ k = 1
       PROVE  Phase(c, r)'
  <2>1. /\ creates'[c][r] = CreatesAsked(View(c, r)'.at)
        /\ recvs'[r][c] = PairsAsked(View(r, c)'.at)
        /\ w.type = "CK" => v.at # "outcome" /\ View(m, n).at # "outcome"
    <3>1. CASE w.type = "CK"
      BY <1>2, <1>9, <1>10, <3>1 DEF MakingOf, GoesOn
    <3>2. CASE w.type = "MD"
      <4>1. creates[c][r] = <<>> /\ recvs[r][c] = 0 /\ View(m, n).at \notin {"comm", "pair"}
        BY <3>2 DEF MakingOf
      <4> QED
        BY <1>9, <3>2, <4>1 DEF CreatesAsked, PairsAsked
    <3> QED
      BY <1>1, <3>1, <3>2
  <2>2. CASE k > 1
    <3>1. /\ v.at \in Busy /\ v.left = k - 1 /\ View(m, n).at \in Busy /\ View(m, n).left = k - 1
      BY <1>4, <1>6, <1>9, <1>10, <2>2
    <3>2. /\ v.at \in {"comm", "pair"} /\ View(m, n).at \in {"comm", "pair"}
      BY <1>10, <2>1, <2>2, <3>1 DEF Busy
    <3>3. /\ Creating(c, r)' /\ Receiving(r, c)'
          /\ View(c, r)'.left = View(r, c)'.left
          /\ View(c, r)'.at \in {"comm", "pair"} /\ View(r, c)'.at \in {"comm", "pair"}
      BY <1>7, <1>8, <1>9, <3>1, <3>2
    <3>4. Even(c, r)'
      BY <1>9, <1>10, <2>1, <3>3 DEF Even
    <3> QED
      BY <3>4 DEF Phase
  <2>3. CASE ~(k > 1)
    <3>1. v.at \notin Busy /\ View(m, n).at \notin Busy
      BY <1>4, <1>6, <1>9, <1>10, <2>3
    <3>2. View(c, r)'.at \notin Busy /\ View(r, c)'.at \notin Busy
      BY <1>9, <3>1
    <3>3. /\ ~Creating(c, r)' /\ ~Receiving(r, c)'
          /\ creates'[c][r] = <<>> /\ recvs'[r][c] = 0
      BY <2>1, <3>2 DEF Creating, Receiving, Busy, CreatesAsked, PairsAsked
    <3>4. Unused(c, r)'
      BY <1>10, <3>3 DEF Unused
    <3> QED
      BY <3>4 DEF Phase
  <2> QED
    BY <2>2, <2>3
\* The other end has not got its pair.
<1>11. ASSUME w.todo = {n, m}  PROVE  Phase(c, r)'
  <2>1. PICK u : Signalled(w, n) = {u} /\ u.todo = {m} /\ u.left = w.left /\ u.type = w.type
    <3>1. w.creator # w.receiver /\ w.todo # {n} /\ w.todo \ {n} = {m}
      BY <1>2, <1>11
    <3>2. \E u : /\ Signalled(w, n) = {u}
                 /\ u.todo = w.todo \ {n} /\ u.left = w.left /\ u.type = w.type
      BY <3>1, SignalledFacts
    <3> QED
      BY <3>1, <3>2
  <2>2. View(m, n).at = Awaiting(w.type) /\ b = k
    BY <1>4, <1>11 DEF MakingOf
  <2>3. ToGo(v, u, n) = k
    BY <1>1, <1>2, <1>6, <2>1 DEF ToGo
  <2>4. ToGo(View(m, n), u, m) = k
    BY <1>3, <2>1, <2>2 DEF ToGo
  <2>5. /\ ToGo(View(c, r)', u, c) = ToGo(View(r, c)', u, r)
        /\ ToGo(View(c, r)', u, c) = k
    BY <1>9, <2>3, <2>4
  <2>6. /\ View(c, r)'.at \in Busy => Creating(c, r)'
        /\ View(r, c)'.at \in Busy => Receiving(r, c)'
    BY <1>7, <1>8, <1>9
  <2>7. /\ u.todo \in {{c}, {r}, {c, r}} /\ u.type \in {"CK", "MD"}
        /\ c \in u.todo => View(c, r)'.at = Awaiting(u.type)
        /\ r \in u.todo => View(r, c)'.at = Awaiting(u.type)
    BY <1>1, <1>2, <1>9, <2>1, <2>2
  <2>8. CASE w.type = "CK"
    <3>1. /\ u.left = 1 /\ creates[c][r] = <<>> /\ recvs[r][c] = 0
          /\ View(m, n).at # "outcome" /\ v.at # "outcome"
      BY <1>2, <1>11, <2>1, <2>8 DEF MakingOf, GoesOn
    <3>2. /\ creates'[c][r] = IF c \in u.todo THEN <<>> ELSE CreatesAsked(View(c, r)'.at)
          /\ recvs'[r][c] = IF r \in u.todo THEN 0 ELSE PairsAsked(View(r, c)'.at)
      BY <1>2, <1>9, <2>1, <3>1
    <3>3. MakingOf(u, c, r)'
      BY <1>9, <2>1, <2>5, <2>6, <2>7, <2>8, <3>1, <3>2 DEF MakingOf
    <3> QED
      BY <2>1, <3>3 DEF Phase, Making
  <2>9. CASE w.type = "MD"
    <3>1. /\ u.left = k /\ creates[c][r] = <<>> /\ recvs[r][c] = 0
          /\ View(m, n).at \notin {"comm", "pair"} /\ v.at \notin {"comm", "pair"}
      BY <1>5, <2>1, <2>9 DEF MakingOf, GoesOn
    <3>2. creates'[c][r] = <<>> /\ recvs'[r][c] = 0
      BY <3>1 DEF CreatesAsked, PairsAsked
    <3>3. MakingOf(u, c, r)'
      BY <1>9, <2>1, <2>5, <2>6, <2>7, <2>9, <3>1, <3>2 DEF MakingOf
    <3> QED
      BY <2>1, <3>3 DEF Phase, Making
  <2> QED
    BY <1>1, <2>8, <2>9
\* The next pair of an MD request is made at once.
<1>12. ASSUME w.todo = {n}, w.type = "MD", k > 1  PROVE  Phase(c, r)'
  <2>1. PICK u : Signalled(w, n) = {u} /\ u.todo = {c, r} /\ u.left = w.left - 1 /\ u.type = "MD"
    <3>1. w.creator # w.receiver /\ w.left > 1
      BY <1>5, <1>12
    <3>2. \E u : /\ Signalled(w, n) = {u}
                 /\ u.todo = {w.creator, w.receiver} /\ u.left = w.left - 1
                 /\ u.type = w.type
      BY <1>12, <3>1, SignalledFacts
    <3> QED
      BY <1>12, <3>2
  <2>2. /\ v.at = "outcome" /\ v.left = k - 1 /\ View(m, n).at = "outcome"
        /\ View(m, n).left = k - 1 /\ u.left = k - 1
    <3>1. View(m, n).at \in Busy /\ View(m, n).left = k - 1
      BY <1>4, <1>9, <1>12
    <3>2. View(m, n).at \notin {"comm", "pair"}
      BY <1>12 DEF MakingOf
    <3> QED
      BY <1>5, <1>12, <2>1, <3>1, <3>2 DEF GoesOn, Busy
  <2>3. /\ View(c, r)'.at = "outcome" /\ View(r, c)'.at = "outcome"
        /\ View(c, r)'.left = k - 1 /\ View(r, c)'.left = k - 1
    BY <1>9, <2>2
  <2>4. ToGo(View(c, r)', u, c) = k - 1 /\ ToGo(View(r, c)', u, r) = k - 1
    BY <1>12, <2>1, <2>3 DEF ToGo, Busy
  <2>5. Creating(c, r)' /\ Receiving(r, c)'
    BY <1>6, <1>7, <1>8, <1>12, <2>2 DEF Busy
  <2>6. creates'[c][r] = <<>> /\ recvs'[r][c] = 0
    BY <1>12, <2>2 DEF CreatesAsked, PairsAsked, MakingOf
  <2>7. Awaiting(u.type) = "outcome"
    BY <2>1 DEF Awaiting
  <2>8. MakingOf(u, c, r)'
    BY <1>9, <2>1, <2>2, <2>3, <2>4, <2>5, <2>6, <2>7 DEF MakingOf
  <2> QED
    BY <2>1, <2>8 DEF Phase, Making
<1>13. w.type = "CK" => w.left = 1
  BY DEF MakingOf
<1>14. CASE w.todo = {n} /\ (w.type = "CK" \/ ~(k > 1))
  <2>1. ~(w.left > 1)
    BY <1>1, <1>5, <1>13, <1>14
  <2> QED
    BY <1>6, <1>10, <1>14, <2>1, SignalledFacts
<1> QED
  BY <1>1, <1>2, <1>11, <1>12, <1>14
\* n gets a pair of its request i with m, of which k are to go.
Gets(n, m, i, k, type, role) ==
    /\ m = Peer(n) /\ n # m
    /\ i = nst[n].req /\ role = Req(n, i).role
    /\ k = nst[n].left /\ k > 0
    /\ nst[n].at = Awaiting(type)
    /\ role = "create" => creates[n][m] = <<>>
    /\ role = "recv" => recvs[n][m] = 0
    /\ \/ type = "CK" /\ PairResult(n)
       \/ type = "MD" /\ OutcomeResult(n)

\* Having got it, n's network stack goes to v.
GoesTo(n, m, v, i, k, type, role) ==
    /\ nst' = [nst EXCEPT ![n] = v]
    /\ GoesOn(n, m, v, k, type, role)
    /\ v.at \notin {"ack", "request"} /\ (v.at # "idle" => v.req = i)
    /\ v.at \in Busy => v.left > 0
    /\ free' \in [Nodes -> Nat]
    /\ creates' \in [Nodes -> [Nodes -> Seq(Asked)]]
    /\ recvs' \in [Nodes -> [Nodes -> Nat]]
    /\ \A a, b \in Nodes : <<a, b>> # <<n, m>> =>
           creates'[a][b] = creates[a][b] /\ recvs'[a][b] = recvs[a][b]
    /\ role = "create" => /\ recvs'[n][m] = recvs[n][m]
                          /\ creates'[n][m] = CreatesAsked(v.at)
    /\ role = "recv" => /\ creates'[n][m] = creates[n][m]
                        /\ recvs'[n][m] = PairsAsked(v.at)

(* What a network stack does with the pair: it asks for the next one, or is  *)
(* done.                                                                     *)
LEMMA ResultFacts ==
    ASSUME Types, NEW n \in Nodes, NEW m \in Nodes, NEW i \in Nat, NEW k \in Nat,
           NEW type \in {"CK", "MD"}, NEW role \in {"create", "recv"},
           Gets(n, m, i, k, type, role)
    PROVE  \E v \in [at : States, req : Nat, total : Nat, left : Nat] :
               GoesTo(n, m, v, i, k, type, role)
<1>0. /\ m = Peer(n) /\ n # m
      /\ i = nst[n].req /\ role = Req(n, i).role
      /\ k = nst[n].left /\ k > 0
      /\ nst[n].at = Awaiting(type)
      /\ role = "create" => creates[n][m] = <<>>
      /\ role = "recv" => recvs[n][m] = 0
      /\ \/ type = "CK" /\ PairResult(n)
         \/ type = "MD" /\ OutcomeResult(n)
  BY DEF Gets
<1>1. PICK t \in Nat : t = nst[n].total
  BY DEF Types
<1>2. /\ free \in [Nodes -> Nat]
      /\ creates \in [Nodes -> [Nodes -> Seq(Asked)]] /\ recvs \in [Nodes -> [Nodes -> Nat]]
  BY DEF Types
<1>3. ASSUME k > 1, NEW at \in {"comm", "pair", "outcome"},
             NEW u, u = [at |-> at, req |-> i, total |-> t, left |-> k - 1]
      PROVE  /\ u \in [at : States, req : Nat, total : Nat, left : Nat]
             /\ u.at = at /\ u.req = i /\ u.left = k - 1 /\ u.left > 0
  BY <1>3 DEF States, Busy
<1>4. Idle \in [at : States, req : Nat, total : Nat, left : Nat] /\ Idle.at = "idle"
  BY DEF Idle, States
<1>5. /\ PairsAsked("comm") = 0 /\ CreatesAsked("comm") = <<>>
      /\ PairsAsked("outcome") = 0 /\ CreatesAsked("outcome") = <<>>
      /\ PairsAsked("idle") = 0 /\ CreatesAsked("idle") = <<>>
      /\ PairsAsked("pair") = 1
  BY DEF PairsAsked, CreatesAsked
<1>6. CASE k > 1 /\ type = "CK"
  <2>1. AskForPair(n, t, k - 1) /\ k - 1 \in Nat
    BY <1>0, <1>1, <1>6 DEF PairResult
  <2>2. Req(n, nst[n].req).role \in {"create", "recv"} /\ Req(n, nst[n].req).role = role
    BY <1>0
  <2> DEFINE j == k - 1
  <2> HIDE DEF j
  <2>3. AskForPair(n, t, j) /\ j \in Nat
    BY <2>1 DEF j
  <2>4. PICK at \in {"comm", "pair"} :
             /\ nst' = [nst EXCEPT ![n] = [at |-> at, req |-> nst[n].req, total |-> t,
                                           left |-> j]]
             /\ free' \in [Nodes -> Nat]
             /\ creates' \in [Nodes -> [Nodes -> Seq(Asked)]]
             /\ recvs' \in [Nodes -> [Nodes -> Nat]]
             /\ \A a, b \in Nodes : <<a, b>> # <<n, m>> =>
                    creates'[a][b] = creates[a][b] /\ recvs'[a][b] = recvs[a][b]
             /\ Req(n, nst[n].req).role = "create" =>
                    /\ recvs'[n][m] = recvs[n][m]
                    /\ creates[n][m] = <<>> => creates'[n][m] = CreatesAsked(at)
             /\ Req(n, nst[n].req).role = "recv" =>
                    /\ creates'[n][m] = creates[n][m]
                    /\ recvs'[n][m] = recvs[n][m] + PairsAsked(at)
    BY <1>0, <2>2, <2>3, AskForPairFacts, SMTT(30)
  <2>5. PICK v : v = [at |-> at, req |-> i, total |-> t, left |-> k - 1]
    OBVIOUS
  <2>6. /\ v \in [at : States, req : Nat, total : Nat, left : Nat]
        /\ v.at = at /\ v.req = i /\ v.left = k - 1 /\ v.left > 0
    BY <1>3, <1>6, <2>5
  <2>7. nst' = [nst EXCEPT ![n] = v]
    BY <1>0, <2>4, <2>5 DEF j
  <2>8. GoesOn(n, m, v, k, type, role)
    BY <1>0, <1>6, <2>6 DEF GoesOn
  <2>9. 0 + PairsAsked(at) = PairsAsked(at)
    BY <1>5
  <2>10. /\ role = "create" => /\ recvs'[n][m] = recvs[n][m]
                               /\ creates'[n][m] = CreatesAsked(v.at)
         /\ role = "recv" => /\ creates'[n][m] = creates[n][m]
                             /\ recvs'[n][m] = PairsAsked(v.at)
    BY <1>0, <2>2, <2>4, <2>6, <2>9
  <2>11. /\ v.at \notin {"ack", "request"} /\ (v.at # "idle" => v.req = i)
         /\ v.at \in Busy => v.left > 0
    BY <2>6
  <2> QED
    BY <2>4, <2>6, <2>7, <2>8, <2>10, <2>11 DEF GoesTo
<1>7. CASE k > 1 /\ type = "MD"
  <2>1. /\ Await(n, "outcome", t, k - 1) /\ k - 1 \in Nat
        /\ free' = free /\ creates' = creates /\ recvs' = recvs
    BY <1>0, <1>1, <1>7 DEF OutcomeResult, puts
  <2>2. PICK v : v = [at |-> "outcome", req |-> i, total |-> t, left |-> k - 1]
    OBVIOUS
  <2>3. /\ v \in [at : States, req : Nat, total : Nat, left : Nat]
        /\ v.at = "outcome" /\ v.req = i /\ v.left = k - 1 /\ v.left > 0
    BY <1>3, <1>7, <2>2
  <2>4. nst' = [nst EXCEPT ![n] = v]
    BY <1>0, <2>1, <2>2, AwaitFacts DEF States, Busy
  <2>5. GoesOn(n, m, v, k, type, role)
    BY <1>0, <1>7, <2>3 DEF GoesOn
  <2> QED
    BY <1>0, <1>2, <1>5, <2>1, <2>3, <2>4, <2>5 DEF GoesTo
<1>8. CASE ~(k > 1)
  <2>1. /\ nst' = [nst EXCEPT ![n] = Idle]
        /\ creates' = creates /\ recvs' = recvs
        /\ free' = free \/ free' = [free EXCEPT ![n] = @ + 1]
    BY <1>0, <1>8 DEF PairResult, OutcomeResult, Finish, puts
  <2>2. free' \in [Nodes -> Nat]
    <3>1. free[n] + 1 \in Nat
      BY <1>2
    <3> QED
      BY <1>2, <2>1, <3>1
  <2>3. PICK v : v = Idle /\ v.at = "idle"
    BY <1>4
  <2>4. k = 1
    BY <1>0, <1>8
  <2>5. GoesOn(n, m, v, k, type, role)
    BY <2>3, <2>4 DEF GoesOn
  <2> QED
    BY <1>0, <1>2, <1>4, <1>5, <2>1, <2>2, <2>3, <2>5 DEF Busy, GoesTo
<1> QED
  BY <1>6, <1>7, <1>8

(* A network stack is signalled the result of the pair it waits for.         *)
LEMMA EgpResultKeeps ==
    ASSUME Types, Requested, BetweenNodes, InPhase,
           NEW w \in making, NEW n \in w.todo, EgpResult(w, n)
    PROVE  Types' /\ Requested' /\ BetweenNodes' /\ InPhase'
<1>1. /\ making' = (making \ {w}) \cup Signalled(w, n)
      /\ UNCHANGED <<program, pc, inbox, chan, number, crashed>>
      /\ Peer(n) \in {w.creator, w.receiver}
      /\ \/ w.type = "CK" /\ PairResult(n)
         \/ w.type = "MD" /\ OutcomeResult(n)
  BY DEF EgpResult
<1>2. w \in Work /\ w.creator # w.receiver
  BY DEF BetweenNodes
<1>3. PICK c \in Nodes, r \in Nodes : c = w.creator /\ r = w.receiver /\ c # r
  BY <1>2 DEF Work
<1>4. MakingOf(w, c, r) /\ Works(c, r) = {w} /\ Level(c, r)
  <2>1. w \in Works(c, r) /\ Phase(c, r)
    BY <1>3 DEF Works, InPhase
  <2>2. ~Unused(c, r) /\ ~Begun(c, r) /\ ~Stuck(c, r) /\ ~Even(c, r)
    BY <2>1 DEF Unused, Begun, Stuck, Even
  <2>3. PICK u \in Works(c, r) : MakingOf(u, c, r)
    BY <2>1, <2>2 DEF Phase, Making
  <2>4. Works(c, r) = {u} /\ Level(c, r)
    BY <2>3 DEF MakingOf
  <2> QED
    BY <2>1, <2>3, <2>4
<1>5. PICK m \in Nodes : /\ n \in Nodes
                         /\ \/ n = c /\ m = r
                            \/ n = r /\ m = c
  <2>1. n \in {c, r}
    BY <1>4 DEF MakingOf
  <2> QED
    BY <2>1
<1>6. n # m
  BY <1>3, <1>5
<1>7. View(n, m).at = Awaiting(w.type) /\ View(n, m).at \in Busy /\ w.type \in {"CK", "MD"}
  BY <1>4, <1>5 DEF MakingOf, Awaiting, Busy
<1>8. View(n, m) = nst[n] /\ Peer(n) = m /\ nst[n].at = Awaiting(w.type)
  BY <1>5, <1>7, ViewFacts DEF Busy
<1>9. PICK i \in Nat, k \in Nat : i = nst[n].req /\ k = nst[n].left /\ k > 0
  <2>1. nst[n].req \in Nat /\ nst[n].left \in Nat
    BY <1>5 DEF Types
  <2>2. nst[n].left > 0
    BY <1>5, <1>7, <1>8 DEF Requested
  <2> QED
    BY <2>1, <2>2
<1>10. IsRequest(n, i) /\ Req(n, i).peer = m
  BY <1>5, <1>7, <1>8, <1>9 DEF Requested, Busy, Peer
<1>11. PICK role \in {"create", "recv"} : role = Req(n, i).role
  BY <1>5, <1>10, RequestFacts
<1>12. /\ n = c => role = "create" /\ Creating(n, m) /\ ~Receiving(n, m) /\ creates[n][m] = <<>>
       /\ n = r => role = "recv" /\ Receiving(n, m) /\ ~Creating(n, m) /\ recvs[n][m] = 0
  <2>1. /\ n = c => Creating(n, m) /\ creates[n][m] = <<>>
        /\ n = r => Receiving(n, m) /\ recvs[n][m] = 0
    BY <1>3, <1>4, <1>5, <1>7 DEF MakingOf
  <2>2. Creating(n, m) <=> ~Receiving(n, m)
    BY <1>5, <1>7, ViewStates
  <2> QED
    BY <1>8, <1>9, <1>11, <2>1, <2>2 DEF Creating, Receiving
<1>13. (role = "create" <=> n = c) /\ (role = "recv" <=> n = r)
  BY <1>3, <1>5, <1>12
<1>14. PICK v \in [at : States, req : Nat, total : Nat, left : Nat] :
             /\ nst' = [nst EXCEPT ![n] = v]
             /\ GoesOn(n, m, v, k, w.type, role)
             /\ v.at \notin {"ack", "request"} /\ (v.at # "idle" => v.req = i)
             /\ v.at \in Busy => v.left > 0
             /\ free' \in [Nodes -> Nat]
             /\ creates' \in [Nodes -> [Nodes -> Seq(Asked)]]
             /\ recvs' \in [Nodes -> [Nodes -> Nat]]
             /\ \A a, b \in Nodes : <<a, b>> # <<n, m>> =>
                    creates'[a][b] = creates[a][b] /\ recvs'[a][b] = recvs[a][b]
             /\ role = "create" => /\ recvs'[n][m] = recvs[n][m]
                                   /\ creates'[n][m] = CreatesAsked(v.at)
             /\ role = "recv" => /\ creates'[n][m] = creates[n][m]
                                 /\ recvs'[n][m] = PairsAsked(v.at)
  <2>1. /\ role = "create" => creates[n][m] = <<>>
        /\ role = "recv" => recvs[n][m] = 0
    BY <1>12, <1>13
  <2>2. PICK type \in {"CK", "MD"} : type = w.type
    BY <1>7
  <2>3. Gets(n, m, i, k, type, role)
    BY <1>1, <1>6, <1>8, <1>9, <1>11, <2>1, <2>2 DEF Gets
  <2>4. n \in Nodes
    BY <1>5
  <2>5. PICK v \in [at : States, req : Nat, total : Nat, left : Nat] :
            GoesTo(n, m, v, i, k, type, role)
    BY <2>3, <2>4, ResultFacts
  <2> QED
    BY <2>2, <2>5 DEF GoesTo
<1>15. nst' \in [Nodes -> [at : States, req : Nat, total : Nat, left : Nat]]
  BY <1>14 DEF Types
<1>16. Types'
  BY <1>1, <1>14, <1>15 DEF Types
<1>17. Requested'
  <2>1. /\ \A j \in DOMAIN inbox'[n] : IsRequest(n, inbox'[n][j])
        /\ number'[n] \in [DOMAIN Code(n) -> Nat]
    BY <1>1, <1>5 DEF Requested
  <2> QED
    BY <1>1, <1>5, <1>10, <1>14, <2>1, RequestedFacts
<1>18. \A u \in Signalled(w, n) :
           u \in Work /\ u.creator = c /\ u.receiver = r /\ u.creator # u.receiver
  BY <1>2, <1>3, SignalledFacts
<1>19. BetweenNodes'
  <2>1. \A a \in Nodes : recvs'[a][a] = recvs[a][a]
    BY <1>5, <1>6, <1>14
  <2> QED
    BY <1>1, <1>18, <2>1 DEF BetweenNodes
<1>20. /\ Works(c, r)' = Signalled(w, n)
       /\ \A a, b \in Nodes : <<a, b>> # <<c, r>> => Works(a, b)' = Works(a, b)
  <2>1. Works(c, r)' = Signalled(w, n)
    BY <1>1, <1>4, <1>18 DEF Works
  <2>2. \A a, b \in Nodes : <<a, b>> # <<c, r>> => Works(a, b)' = Works(a, b)
    BY <1>1, <1>3, <1>18 DEF Works
  <2> QED
    BY <2>1, <2>2
<1>21. /\ \A a, b \in Nodes : <<a, b>> # <<n, m>> => View(a, b)' = View(a, b)
       /\ View(n, m)' = IF v.at # "idle" THEN v ELSE Idle
  <2>1. v.at # "idle" => Req(n, v.req).peer = m
    BY <1>10, <1>14
  <2>2. nst' = [nst EXCEPT ![n] = v] /\ program' = program
    BY <1>1, <1>14
  <2> QED
    BY <1>5, <1>8, <2>1, <2>2, OneView
<1>22. PICK z : /\ View(n, m)' = z
                /\ z.at = v.at /\ GoesOn(n, m, z, k, w.type, role)
  <2>1. Idle.at = "idle"
    BY DEF Idle
  <2>2. CASE v.at # "idle"
    BY <1>14, <1>21, <2>2
  <2>3. CASE v.at = "idle"
    <3>1. k = 1
      BY <1>14, <2>3 DEF GoesOn
    <3> QED
      BY <1>21, <2>1, <2>3, <3>1 DEF GoesOn
  <2> QED
    BY <2>2, <2>3
<1>23. View(m, n)' = View(m, n)
  BY <1>5, <1>6, <1>21
<1>24. Level(c, r)' /\ Level(r, c)'
  <2>1. /\ ~Asking(n, m) /\ ~Asking(n, m)'
        /\ Asking(m, n)' = Asking(m, n)
    BY <1>7, <1>14, <1>22, <1>23 DEF Asking, Busy
  <2>2. Sent(n, m)' = Sent(n, m) /\ Sent(m, n)' = Sent(m, n)
    BY <1>23, <2>1 DEF Sent
  <2> QED
    BY <1>1, <1>4, <1>5, <2>2 DEF Level
<1>25. /\ creates'[c][r] = IF n = c THEN CreatesAsked(z.at) ELSE creates[c][r]
       /\ recvs'[r][c] = IF n = r THEN PairsAsked(z.at) ELSE recvs[r][c]
  BY <1>3, <1>5, <1>13, <1>14, <1>22
<1>26. role = IF n = c THEN "create" ELSE "recv"
  BY <1>3, <1>5, <1>13
<1>27. Phase(c, r)'
  <2>1. GoesOn(n, m, z, k, w.type, IF n = c THEN "create" ELSE "recv")
    BY <1>22, <1>26
  <2>2. k = View(n, m).left
    BY <1>8, <1>9
  <2> QED
    BY <1>1, <1>2, <1>3, <1>4, <1>5, <1>20, <1>22, <1>23, <1>24, <1>25, <2>1, <2>2,
       PairSignalled
<1>28. Phase(r, c)'
  <2>1. Phase(r, c) /\ Works(r, c)' = Works(r, c)
    BY <1>3, <1>20 DEF InPhase
  <2>3. z.at \in Busy => Req(n, z.req)'.role = role
    BY <1>1, <1>11, <1>22 DEF GoesOn, Busy, Req, Code
  <2>4. CASE n = c /\ m = r
    <3>1. ~Receiving(n, m)'
      BY <1>13, <1>22, <2>3, <2>4 DEF Receiving, Req, Code
    <3>2. creates'[m][n] = creates[m][n] /\ recvs'[n][m] = recvs[n][m]
      BY <1>5, <1>6, <1>13, <1>14, <2>4
    <3> QED
      BY <1>1, <1>5, <1>6, <1>12, <1>23, <2>1, <2>4, <3>1, <3>2, CreatorOnly
  <2>5. CASE n = r /\ m = c
    <3>1. ~Creating(n, m)'
      BY <1>13, <1>22, <2>3, <2>5 DEF Creating, Req, Code
    <3>2. creates'[n][m] = creates[n][m] /\ recvs'[m][n] = recvs[m][n]
      BY <1>5, <1>6, <1>13, <1>14, <2>5
    <3> QED
      BY <1>1, <1>5, <1>6, <1>12, <1>23, <2>1, <2>5, <3>1, <3>2, ReceiverOnly
  <2> QED
    BY <1>5, <2>4, <2>5
<1>29. Synchronised(c, r)'
  BY <1>24 DEF Synchronised
<1>30. \A a, b \in Nodes : <<a, b>> # <<c, r>> /\ <<a, b>> # <<r, c>> =>
           /\ View(a, b)' = View(a, b)
           /\ chan'[a][b] = chan[a][b]
           /\ creates'[a][b] = creates[a][b] /\ recvs'[a][b] = recvs[a][b]
           /\ Works(a, b)' = Works(a, b)
  BY <1>1, <1>5, <1>14, <1>20, <1>21, ZenonT(40)
<1>31. InPhase'
  BY <1>1, <1>27, <1>28, <1>29, <1>30, OneLink
<1> QED
  BY <1>16, <1>17, <1>19, <1>31

-----------------------------------------------------------------------------
(* In phase, each pair that is being made is awaited.                        *)
LEMMA Awaited ==
    ASSUME Types, BetweenNodes, InPhase
    PROVE  ResultAwaited
<1> SUFFICES ASSUME NEW w \in making, NEW n \in w.todo
             PROVE  /\ nst[n].at = IF w.type = "CK" THEN "pair" ELSE "outcome"
                    /\ Peer(n) \in {w.creator, w.receiver} \ {n}
  BY DEF ResultAwaited
<1>1. PICK c \in Nodes, r \in Nodes : c = w.creator /\ r = w.receiver /\ c # r
  BY DEF BetweenNodes, Work
<1>2. MakingOf(w, c, r)
  <2>1. w \in Works(c, r) /\ Phase(c, r)
    BY <1>1 DEF Works, InPhase
  <2>2. ~Unused(c, r) /\ ~Begun(c, r) /\ ~Stuck(c, r) /\ ~Even(c, r)
    BY <2>1 DEF Unused, Begun, Stuck, Even
  <2>3. PICK u \in Works(c, r) : MakingOf(u, c, r)
    BY <2>1, <2>2 DEF Phase, Making
  <2> QED
    BY <2>1, <2>3 DEF MakingOf
<1>3. PICK m \in Nodes : n \in Nodes /\ n # m /\ {n, m} = {c, r}
                         /\ View(n, m).at = Awaiting(w.type)
  <2>1. n \in {c, r}
    BY <1>2 DEF MakingOf
  <2>2. CASE n = c
    BY <1>1, <1>2, <2>2 DEF MakingOf
  <2>3. CASE n = r
    <3>1. {r, c} = {c, r}
      OBVIOUS
    <3> QED
      BY <1>1, <1>2, <2>3, <3>1 DEF MakingOf
  <2> QED
    BY <2>1, <2>2, <2>3
<1>4. View(n, m) = nst[n] /\ Peer(n) = m
  BY <1>3, ViewFacts DEF Awaiting
<1> QED
  BY <1>1, <1>3, <1>4 DEF Awaiting

-----------------------------------------------------------------------------
(* The processor.                                                            *)
LEMMA ProcessorKeeps ==
    ASSUME Types, Requested, BetweenNodes, InPhase, NEW n \in Nodes,
           Processor(n) \/ (MemoryFreed(n) /\ nst[n].at # "comm")
    PROVE  Types' /\ Requested' /\ BetweenNodes' /\ InPhase'
<1>1. /\ UNCHANGED <<program, chan, number, nst, creates, recvs, making, crashed>>
      /\ free' = free \/ free' = [free EXCEPT ![n] = @ + 1]
  BY DEF Processor, SubmitEpr, WaitAll, QFree, MemoryFreed, puts
<1>2. /\ \A a, b \in Nodes : View(a, b)' = View(a, b) /\ Works(a, b)' = Works(a, b)
  BY <1>1 DEF View, Peer, Req, Code, Idle, Works
<1>3. InPhase'
  <2>1. ASSUME NEW a \in Nodes, NEW b \in Nodes, a # b
        PROVE  Synchronised(a, b)' /\ Phase(a, b)'
    <3>1. Synchronised(a, b) /\ Phase(a, b)
      BY <2>1 DEF InPhase
    <3> QED
      BY <1>1, <1>2, <3>1, Untouched
  <2> QED
    BY <2>1 DEF InPhase
<1>4. BetweenNodes'
  BY <1>1 DEF BetweenNodes
<1>5. free' \in [Nodes -> Nat]
  <2>1. free \in [Nodes -> Nat] /\ free[n] + 1 \in Nat
    BY DEF Types
  <2> QED
    BY <1>1, <2>1
<1>6. /\ inbox' \in [Nodes -> Seq(Nat)]
      /\ \A a \in Nodes : \A k \in DOMAIN inbox'[a] : IsRequest(a, inbox'[a][k])
  <2>1. /\ inbox \in [Nodes -> Seq(Nat)]
        /\ \A a \in Nodes : \A k \in DOMAIN inbox[a] : IsRequest(a, inbox[a][k])
    BY DEF Types, Requested
  <2>2. CASE inbox' = inbox
    BY <2>1, <2>2
  <2>3. CASE SubmitEpr(n)
    <3>1. PICK i \in Nat \ {0} : i = pc[n]
      BY DEF Types
    <3>2. /\ i =< Len(Code(n)) /\ Req(n, i).op = "epr"
          /\ inbox' = [inbox EXCEPT ![n] = Append(inbox[n], i)]
      BY <2>3, <3>1 DEF SubmitEpr, Executes
    <3>3. IsRequest(n, i)
      <4>1. Code(n) \in Seq(Instrs)
        BY NetstackAssumption DEF Types, Code
      <4> HIDE DEF Instrs
      <4>2. i \in DOMAIN Code(n)
        BY <3>2, <4>1
      <4> QED
        BY <3>2, <4>2 DEF IsRequest
    <3> DEFINE more == Append(inbox[n], i)
    <3>4. /\ more \in Seq(Nat)
          /\ \A k \in DOMAIN more : more[k] = i \/ (k \in DOMAIN inbox[n] /\ more[k] = inbox[n][k])
      BY <2>1
    <3> HIDE DEF more
    <3>5. /\ inbox' \in [Nodes -> Seq(Nat)] /\ inbox'[n] = more
          /\ \A a \in Nodes : a # n => inbox'[a] = inbox[a]
      BY <2>1, <3>2, <3>4 DEF more
    <3> QED
      BY <2>1, <3>3, <3>4, <3>5
  <2> QED
    BY <2>2, <2>3 DEF Processor, WaitAll, QFree, MemoryFreed
<1>7. pc' \in [Nodes -> Nat \ {0}]
  <2>1. pc \in [Nodes -> Nat \ {0}] /\ pc[n] + 1 \in Nat \ {0}
    BY DEF Types
  <2>2. pc' = pc \/ pc' = [pc EXCEPT ![n] = @ + 1]
    BY DEF Processor, SubmitEpr, WaitAll, QFree, Executes, MemoryFreed
  <2> QED
    BY <2>1, <2>2
<1>8. Types'
  BY <1>1, <1>5, <1>6, <1>7 DEF Types
<1>9. Requested'
  BY <1>1, <1>6 DEF Requested, IsRequest, Req, Code
<1> QED
  BY <1>3, <1>4, <1>8, <1>9
-----------------------------------------------------------------------------
(* At the start nothing was asked for.                                       *)
LEMMA Start == Init => IInv
<1> SUFFICES ASSUME Init  PROVE  IInv
  OBVIOUS
<1>1. /\ program \in Programs /\ making = {} /\ crashed = FALSE
      /\ pc = [n \in Nodes |-> 1]
      /\ inbox = [n \in Nodes |-> <<>>]
      /\ chan = [n \in Nodes |-> [m \in Nodes |-> <<>>]]
      /\ number = [n \in Nodes |-> [i \in DOMAIN Code(n) |-> 0]]
      /\ nst = [n \in Nodes |-> Idle]
      /\ free = [n \in Nodes |-> NumComm]
      /\ creates = [n \in Nodes |-> [m \in Nodes |-> <<>>]]
      /\ recvs = [n \in Nodes |-> [m \in Nodes |-> 0]]
  BY DEF Init
<1>2. Idle \in [at : States, req : Nat, total : Nat, left : Nat] /\ Idle.at = "idle"
  BY DEF Idle, States
<1>3. Types
  <2>1. /\ inbox \in [Nodes -> Seq(Nat)]
        /\ chan \in [Nodes -> [Nodes -> Seq(Messages)]]
        /\ creates \in [Nodes -> [Nodes -> Seq(Asked)]]
        /\ recvs \in [Nodes -> [Nodes -> Nat]]
    <3>1. <<>> \in Seq(Nat) /\ <<>> \in Seq(Messages) /\ <<>> \in Seq(Asked)
      OBVIOUS
    <3> QED
      BY <1>1, <3>1
  <2>2. /\ nst \in [Nodes -> [at : States, req : Nat, total : Nat, left : Nat]]
        /\ free \in [Nodes -> Nat] /\ pc \in [Nodes -> Nat \ {0}]
        /\ number = [n \in Nodes |-> number[n]]
    BY <1>1, <1>2, NetstackAssumption
  <2> QED
    BY <1>1, <2>1, <2>2 DEF Types
<1>4. Requested
  <2>1. \A n \in Nodes : nst[n].at = "idle" /\ DOMAIN inbox[n] = {}
    BY <1>1, <1>2
  <2>2. \A n \in Nodes : number[n] \in [DOMAIN Code(n) -> Nat]
    BY <1>1
  <2> QED
    BY <2>1, <2>2 DEF Requested, Busy
<1>5. BetweenNodes
  BY <1>1 DEF BetweenNodes
<1>6. ASSUME NEW n \in Nodes, NEW m \in Nodes
      PROVE  /\ View(n, m).at = "idle" /\ View(m, n).at = "idle"
             /\ chan[n][m] = <<>> /\ chan[m][n] = <<>>
             /\ creates[n][m] = <<>> /\ recvs[m][n] = 0 /\ Works(n, m) = {}
  BY <1>1, <1>2 DEF View, Works
<1>7. InPhase
  <2>1. ASSUME NEW n \in Nodes, NEW m \in Nodes, n # m
        PROVE  Synchronised(n, m) /\ Phase(n, m)
    <3>1. /\ Sent(n, m) = <<>> /\ Sent(m, n) = <<>>
          /\ ~Creating(n, m) /\ ~Receiving(m, n)
      BY <1>3, <1>4, <1>6, ViewStates
    <3> QED
      BY <1>6, <3>1 DEF Synchronised, Level, Phase, Unused
  <2> QED
    BY <2>1 DEF InPhase
<1> QED
  BY <1>3, <1>4, <1>5, <1>7, Awaited DEF IInv

(* Awaited, one step later.                                                  *)
LEMMA AwaitedNext == Types' /\ BetweenNodes' /\ InPhase' => ResultAwaited'
<1>1. Types /\ BetweenNodes /\ InPhase => ResultAwaited
  BY Awaited
<1> QED
  BY <1>1, PTL

(* Every step keeps the invariant.  The step that raises an exception only   *)
(* needs to leave what is being made, and what is awaited, as it is.         *)
LEMMA Step == IInv /\ [Next]_vars => IInv'
<1> SUFFICES ASSUME IInv, [Next]_vars  PROVE  IInv'
  OBVIOUS
<1>1. Types /\ Requested /\ BetweenNodes /\ ResultAwaited
  BY DEF IInv
<1>2. CASE Next
  <2>1. InPhase
    BY <1>2 DEF Next, IInv
  <2>2. ASSUME NEW n \in Nodes, Acknowledged(n) \/ RequestReceived(n)  PROVE  IInv'
    <3>1. /\ Types' /\ Requested' /\ BetweenNodes'
          /\ InPhase' \/ (crashed' = TRUE /\ UNCHANGED <<program, nst, making>>)
      BY <1>1, <2>1, <2>2, AcknowledgedKeeps, RequestReceivedKeeps
    <3>2. CASE InPhase'
      <4>1. ResultAwaited'
        BY <3>1, <3>2, AwaitedNext
      <4> QED
        BY <3>1, <3>2, <4>1 DEF IInv
    <3>3. CASE crashed' = TRUE /\ UNCHANGED <<program, nst, making>>
      <4>1. ResultAwaited'
        BY <1>1, <3>3 DEF ResultAwaited, Peer, Req, Code
      <4> QED
        BY <3>1, <3>3, <4>1 DEF IInv
    <3> QED
      BY <3>1, <3>2, <3>3
  <2>3. ASSUME Types' /\ Requested' /\ BetweenNodes' /\ InPhase'  PROVE  IInv'
    <3>1. ResultAwaited'
      BY <2>3, AwaitedNext
    <3> QED
      BY <2>3, <3>1 DEF IInv
  <2>4. ASSUME NEW n \in Nodes, TakeRequest(n)  PROVE  IInv'
    BY <1>1, <2>1, <2>3, <2>4, TakeRequestKeeps
  <2>5. ASSUME NEW n \in Nodes, MemoryFreed(n)  PROVE  IInv'
    <3>1. CASE nst[n].at = "comm"
      BY <1>1, <2>1, <2>3, <2>5, <3>1, MemoryFreedKeeps
    <3>2. CASE nst[n].at # "comm"
      BY <1>1, <2>1, <2>3, <2>5, <3>2, ProcessorKeeps
    <3> QED
      BY <3>1, <3>2
  <2>6. ASSUME NEW n \in Nodes, Processor(n)  PROVE  IInv'
    BY <1>1, <2>1, <2>3, <2>6, ProcessorKeeps
  <2>7. ASSUME NEW c \in Nodes, NEW r \in Nodes, EgpStart(c, r)  PROVE  IInv'
    BY <1>1, <2>1, <2>3, <2>7, EgpStartKeeps
  <2>8. ASSUME NEW w \in making, NEW n \in w.todo, EgpResult(w, n)  PROVE  IInv'
    BY <1>1, <2>1, <2>3, <2>8, EgpResultKeeps
  <2> QED
    BY <1>2, <2>2, <2>4, <2>5, <2>6, <2>7, <2>8 DEF Next, NetworkStack, LinkLayer
<1>3. CASE UNCHANGED vars
  <2>1. UNCHANGED <<program, pc, inbox, chan, number, nst, free, creates, recvs, making,
                    crashed>>
    BY <1>3 DEF vars, puts
  <2>2. Types' /\ Requested' /\ BetweenNodes' /\ ResultAwaited'
    BY <1>1, <2>1 DEF Types, Requested, BetweenNodes, ResultAwaited, IsRequest, Req, Code, Peer
  <2>3. ASSUME InPhase  PROVE  InPhase'
    <3>1. \A a, b \in Nodes : View(a, b)' = View(a, b) /\ Works(a, b)' = Works(a, b)
      BY <2>1 DEF View, Peer, Req, Code, Idle, Works
    <3>2. ASSUME NEW a \in Nodes, NEW b \in Nodes, a # b
          PROVE  Synchronised(a, b)' /\ Phase(a, b)'
      <4>1. Synchronised(a, b) /\ Phase(a, b)
        BY <2>3, <3>2 DEF InPhase
      <4> QED
        BY <2>1, <3>1, <4>1, Untouched
    <3> QED
      BY <3>2 DEF InPhase
  <2> QED
    BY <2>1, <2>2, <2>3 DEF IInv
<1> QED
  BY <1>2, <1>3

(* IInv is an invariant, for any nodes and any programs.                     *)
THEOREM Invariance == Spec => []IInv
BY Start, Step, PTL DEF Spec

(* A pair that the link layer signals is awaited by the network stack that   *)
(* it is signalled to, whether or not the programs' requests match up: no    *)
(* result of put_create_request or put_receive_request finds its handler not *)
(* at its await.                                                             *)
THEOREM ResultsAwaited == Spec => []ResultAwaited
<1>1. IInv => ResultAwaited
  BY DEF IInv
<1> QED
  BY Invariance, <1>1, PTL

-----------------------------------------------------------------------------
(* Sessions.                                                                 *)

\* The requests of n for m, and the place of one among them.
Links(n, m) == Requests(program.code, n, m)
Place(n, i) == Rank(program.code, n, i)

\* i is still to be taken by n's network stack.
Queued(n, i) == i >= pc[n] \/ \E k \in DOMAIN inbox[n] : inbox[n][k] = i

\* i's handshake is not over at n, and i is being worked on.
Waiting(n, i) == Queued(n, i) \/ (nst[n].req = i /\ nst[n].at \in {"ack", "request"})
Working(n, i) == nst[n].req = i /\ nst[n].at \in Busy

\* The receiver has not answered n's request i for m, as creator or receiver.
Pending(n, m, i) ==
    \/ Queued(n, i)
    \/ nst[n].req = i /\ nst[n].at = "request"
    \/ nst[n].req = i /\ nst[n].at = "ack" /\ chan[n][m] # <<>>
Answered(n, m) == {i \in Links(n, m) : ~Pending(n, m, i)}

\* A network stack takes its requests in the order of the program.
InTurn ==
    \A n \in Nodes :
        /\ \A k, l \in DOMAIN inbox[n] : k < l => inbox[n][k] < inbox[n][l]
        /\ \A k \in DOMAIN inbox[n] : inbox[n][k] < pc[n]
        /\ \A i, j : /\ IsRequest(n, i) /\ IsRequest(n, j)
                     /\ Queued(n, i) /\ i < j
                     => Queued(n, j)
        /\ nst[n].at # "idle" =>
               \A i : IsRequest(n, i) => (Queued(n, i) <=> i > nst[n].req)

\* Request i of n meets request j of m, and the one that asks for the pairs.
Meet(n, i, m, j) == i \in Links(n, m) /\ j \in Links(m, n) /\ Place(n, i) = Place(m, j)
Asks(n, i, m, j) == IF Req(n, i).role = "create" THEN Req(n, i) ELSE Req(m, j)

\* What n has got for request i, of `ask`.
Fares(n, i, ask) ==
    /\ Waiting(n, i) => got[n][i] = 0
    /\ Working(n, i) =>
           /\ nst[n].total = ask.number
           /\ \/ /\ ask.type = "CK" /\ nst[n].at # "outcome"
                 /\ got[n][i] + nst[n].left = ask.number
              \/ /\ ask.type = "MD" /\ nst[n].at = "outcome"
                 /\ got[n][i] = 0
    /\ ~Waiting(n, i) /\ ~Working(n, i) => got[n][i] = ask.number

Progress ==
    \A n, m \in Nodes : \A i, j : Meet(n, i, m, j) => Fares(n, i, Asks(n, i, m, j))

\* The requests whose handshake is over are the same at both ends.
Partnered ==
    \A n, m \in Nodes : \A i \in Answered(n, m) : \E j \in Answered(m, n) :
        Place(n, i) = Place(m, j)
Counted ==
    \A n, m \in Nodes : Cardinality(Answered(n, m)) = Cardinality(Answered(m, n))

Counters ==
    /\ got = [n \in Nodes |-> got[n]]
    /\ \A n \in Nodes : got[n] \in [DOMAIN Code(n) -> Nat]

\* The second invariant: while all is well, sessions are served as they should.
Meets == Progress /\ Partnered /\ Counted
SInv ==
    /\ IInv /\ Counters /\ InTurn
    /\ program.matched /\ ~crashed => Meets

-----------------------------------------------------------------------------
(* Requests of n for m, and their places.                                    *)
LEMMA LinkFacts ==
    ASSUME Types, NEW n \in Nodes, NEW m \in Nodes
    PROVE  /\ \A i : i \in Links(n, m) <=> IsRequest(n, i) /\ Req(n, i).peer = m
           /\ \A i \in Links(n, m) : i \in Nat /\ i \in DOMAIN Code(n)
           /\ IsFiniteSet(Links(n, m))
<1>1. \A i : i \in Links(n, m) <=> IsRequest(n, i) /\ Req(n, i).peer = m
  BY DEF Links, Requests, IsRequest, Req, Code
<1>2. \A i \in Links(n, m) : i \in Nat /\ i \in DOMAIN Code(n)
  BY <1>1, RequestFacts DEF IsRequest
<1>3. Code(n) \in Seq(Instrs)
  BY NetstackAssumption DEF Types, Code
<1>4. Len(Code(n)) \in Nat /\ DOMAIN Code(n) = 1 .. Len(Code(n))
  BY <1>3
<1>5. IsFiniteSet(1 .. Len(Code(n)))
  BY <1>4, FS_Interval
<1>6. Links(n, m) \in SUBSET (1 .. Len(Code(n)))
  BY <1>2, <1>4
<1> QED
  BY <1>1, <1>2, <1>5, <1>6, FS_Subset

\* A place is the number of earlier requests for the same peer.
LEMMA PlaceFacts ==
    ASSUME Types, NEW n \in Nodes, NEW m \in Nodes, NEW i \in Links(n, m)
    PROVE  /\ Place(n, i) = Cardinality({j \in Links(n, m) : j < i})
           /\ Place(n, i) \in Nat
           /\ IsFiniteSet({j \in Links(n, m) : j < i})
           /\ {j \in Links(n, m) : j < i} \in SUBSET Links(n, m)
<1>1. Req(n, i).peer = m
  BY LinkFacts
<1>2. Place(n, i) = Cardinality({j \in Links(n, m) : j < i})
  BY <1>1 DEF Place, Rank, Links, Req, Code
<1>3. IsFiniteSet({j \in Links(n, m) : j < i})
  BY LinkFacts, FS_Subset
<1> QED
  BY <1>2, <1>3, FS_CardinalityType

\* Earlier requests have smaller places, so a place names one request.
LEMMA PlaceOrder ==
    ASSUME Types, NEW n \in Nodes, NEW m \in Nodes,
           NEW i \in Links(n, m), NEW j \in Links(n, m)
    PROVE  /\ i < j => Place(n, i) < Place(n, j)
           /\ Place(n, i) = Place(n, j) => i = j
<1>1. ASSUME NEW a \in Links(n, m), NEW b \in Links(n, m), a < b
      PROVE  Place(n, a) < Place(n, b)
  <2> DEFINE below(x) == {y \in Links(n, m) : y < x}
  <2>1. /\ Place(n, a) = Cardinality(below(a)) /\ IsFiniteSet(below(a))
        /\ Place(n, b) = Cardinality(below(b)) /\ IsFiniteSet(below(b))
        /\ Place(n, a) \in Nat /\ Place(n, b) \in Nat
    BY PlaceFacts
  <2>2. a \in Nat /\ b \in Nat /\ \A y \in Links(n, m) : y \in Nat
    BY LinkFacts
  <2>3. below(a) \in SUBSET below(b)
    <3>1. ASSUME NEW y \in Links(n, m), y < a  PROVE  y < b
      BY <1>1, <2>2, <3>1
    <3> QED
      BY <3>1
  <2>4. a \in below(b) /\ a \notin below(a)
    BY <1>1, <2>2
  <2> HIDE DEF below
  <2>5. below(a) # below(b)
    BY <2>4
  <2>6. /\ Cardinality(below(a)) <= Cardinality(below(b))
        /\ Cardinality(below(b)) = Cardinality(below(a)) => below(b) = below(a)
    BY <2>1, <2>3, FS_Subset
  <2> QED
    BY <2>1, <2>5, <2>6
<1>2. i \in Nat /\ j \in Nat /\ Place(n, i) \in Nat /\ Place(n, j) \in Nat
  BY LinkFacts, PlaceFacts
<1> QED
  BY <1>1, <1>2

\* Requests are answered in order: the answered ones are those whose place is
\* below their number, which is the place of the next one.
LEMMA AnsweredPlaces ==
    ASSUME Types, InTurn, NEW n \in Nodes, NEW m \in Nodes
    PROVE  /\ IsFiniteSet(Answered(n, m)) /\ Cardinality(Answered(n, m)) \in Nat
           /\ \A i \in Links(n, m) :
                  /\ i \in Answered(n, m) <=> Place(n, i) < Cardinality(Answered(n, m))
                  /\ /\ nst[n].at # "idle" /\ nst[n].req = i
                     /\ i \notin Answered(n, m)
                     => Place(n, i) = Cardinality(Answered(n, m))
<1> DEFINE A == Answered(n, m)
           below(x) == {y \in Links(n, m) : y < x}
<1>1. A \in SUBSET Links(n, m) /\ IsFiniteSet(A) /\ Cardinality(A) \in Nat
  <2>1. A \in SUBSET Links(n, m)
    BY DEF Answered
  <2> QED
    BY <2>1, LinkFacts, FS_Subset, FS_CardinalityType
<1>2. /\ \A x \in Links(n, m) : x \in Nat /\ IsRequest(n, x)
      /\ \A x \in Links(n, m) : x \in A <=> ~Pending(n, m, x)
  BY LinkFacts DEF Answered
<1>3. /\ \A x, y \in Links(n, m) : Queued(n, x) /\ x < y => Queued(n, y)
      /\ nst[n].at # "idle" =>
             \A x \in Links(n, m) : Queued(n, x) <=> x > nst[n].req
  BY <1>2 DEF InTurn
<1>4. ASSUME NEW x \in Links(n, m), NEW y \in Links(n, m), x < y, Pending(n, m, x)
      PROVE  Pending(n, m, y)
  <2>1. CASE Queued(n, x)
    BY <1>3, <1>4, <2>1 DEF Pending
  <2>2. CASE nst[n].req = x /\ nst[n].at # "idle"
    BY <1>2, <1>3, <1>4, <2>2 DEF Pending
  <2> QED
    BY <1>4, <2>1, <2>2 DEF Pending
<1>5. \A x \in Links(n, m) :
          /\ Place(n, x) = Cardinality(below(x)) /\ Place(n, x) \in Nat
          /\ IsFiniteSet(below(x)) /\ below(x) \in SUBSET Links(n, m)
  BY PlaceFacts
<1>6. \A x, y \in Links(n, m) : y \in below(x) <=> y < x
  OBVIOUS
<1> HIDE DEF A, below
<1>7. ASSUME NEW i \in Links(n, m), i \notin A
      PROVE  Cardinality(A) =< Place(n, i)
  <2>1. ASSUME NEW a \in A  PROVE  a < i
    <3>1. a \in Links(n, m) /\ a \in Nat /\ i \in Nat /\ a # i
      BY <1>1, <1>2, <1>7
    <3>2. ~(i < a)
      BY <1>2, <1>4, <1>7, <3>1
    <3> QED
      BY <3>1, <3>2
  <2>2. A \in SUBSET below(i)
    BY <1>1, <1>6, <2>1
  <2> QED
    BY <1>5, <2>2, FS_Subset
<1>8. ASSUME NEW i \in Links(n, m), i \in A
      PROVE  Place(n, i) < Cardinality(A)
  <2>1. \A y \in below(i) : y \in A
    BY <1>2, <1>4, <1>5, <1>6, <1>8
  <2>2. below(i) \in SUBSET A /\ i \notin below(i)
    BY <1>2, <1>6, <2>1
  <2>3. below(i) # A
    BY <1>8, <2>2
  <2>4. /\ Cardinality(below(i)) <= Cardinality(A)
        /\ Cardinality(A) = Cardinality(below(i)) => A = below(i)
    BY <1>1, <2>2, FS_Subset
  <2> QED
    BY <1>1, <1>5, <2>3, <2>4
<1>9. ASSUME NEW i \in Links(n, m), nst[n].at # "idle", nst[n].req = i, i \notin A
      PROVE  Place(n, i) = Cardinality(A)
  <2>1. ASSUME NEW y \in below(i)  PROVE  y \in A
    <3>1. y \in Links(n, m) /\ y < i /\ y \in Nat /\ i \in Nat
      BY <1>2, <1>5, <1>6
    <3>2. ~Queued(n, y) /\ y # i
      BY <1>3, <1>9, <3>1
    <3> QED
      BY <1>2, <1>9, <3>1, <3>2 DEF Pending
  <2>2. Place(n, i) =< Cardinality(A)
    BY <1>1, <1>5, <2>1, FS_Subset
  <2> QED
    BY <1>1, <1>5, <1>7, <1>9, <2>2
<1>10. \A i \in Links(n, m) : i \in A <=> Place(n, i) < Cardinality(A)
  BY <1>1, <1>5, <1>7, <1>8
<1> QED
  BY <1>1, <1>9, <1>10 DEF A

\* What is answered at one end is answered at the other.
LEMMA BothAnswered ==
    ASSUME Types, InTurn, Counted, NEW n \in Nodes, NEW m \in Nodes,
           NEW i, NEW j, Meet(n, i, m, j)
    PROVE  /\ Meet(m, j, n, i)
           /\ i \in Answered(n, m) <=> j \in Answered(m, n)
<1>1. i \in Links(n, m) /\ j \in Links(m, n) /\ Place(n, i) = Place(m, j)
  BY DEF Meet
<1>2. Cardinality(Answered(n, m)) = Cardinality(Answered(m, n))
  BY DEF Counted
<1>3. /\ i \in Answered(n, m) <=> Place(n, i) < Cardinality(Answered(n, m))
      /\ j \in Answered(m, n) <=> Place(m, j) < Cardinality(Answered(m, n))
  BY <1>1, AnsweredPlaces
<1> QED
  BY <1>1, <1>2, <1>3 DEF Meet

\* The next ones of two nodes for each other meet, and match up.
LEMMA NextMeet ==
    ASSUME Types, InTurn, Counted, NEW n \in Nodes, NEW m \in Nodes,
           NEW i \in Links(n, m), nst[n].at # "idle", nst[n].req = i,
           i \notin Answered(n, m),
           NEW j \in Links(m, n), nst[m].at # "idle", nst[m].req = j,
           j \notin Answered(m, n)
    PROVE  Meet(n, i, m, j)
<1>1. /\ Place(n, i) = Cardinality(Answered(n, m))
      /\ Place(m, j) = Cardinality(Answered(m, n))
  BY AnsweredPlaces
<1> QED
  BY <1>1 DEF Counted, Meet

\* Requests that meet match up, and each meets no other.
LEMMA MeetFacts ==
    ASSUME Types, program.matched, NEW n \in Nodes, NEW m \in Nodes,
           NEW i, NEW j, Meet(n, i, m, j)
    PROVE  /\ IsRequest(n, i) /\ IsRequest(m, j)
           /\ Req(n, i).peer = m /\ Req(m, j).peer = n
           /\ Req(n, i).role # Req(m, j).role
           /\ Req(n, i).type \in {"CK", "MD"} /\ Req(m, j).type \in {"CK", "MD"}
           /\ Asks(n, i, m, j) = Asks(m, j, n, i)
           /\ \A k : Meet(n, i, m, k) => k = j
<1>1. i \in Links(n, m) /\ j \in Links(m, n) /\ Place(n, i) = Place(m, j)
  BY DEF Meet
<1>2. /\ IsRequest(n, i) /\ IsRequest(m, j)
      /\ Req(n, i).peer = m /\ Req(m, j).peer = n
  BY <1>1, LinkFacts
<1>3. MatchUp(program.code)
  BY NetstackAssumption DEF Types
<1>4. /\ Req(n, i).role # Req(m, j).role
      /\ Req(n, i).type # "R" /\ Req(m, j).type # "R"
  BY <1>1, <1>3 DEF MatchUp, Links, Place, Req, Code
<1>5. /\ Req(n, i).type \in {"CK", "MD"} /\ Req(m, j).type \in {"CK", "MD"}
      /\ Req(n, i).role \in {"create", "recv"} /\ Req(m, j).role \in {"create", "recv"}
  BY <1>2, <1>4, RequestFacts
<1>6. Asks(n, i, m, j) = Asks(m, j, n, i)
  BY <1>4, <1>5 DEF Asks
<1>7. \A k : Meet(n, i, m, k) => k = j
  BY <1>1, PlaceOrder DEF Meet
<1> QED
  BY <1>2, <1>4, <1>5, <1>6, <1>7
-----------------------------------------------------------------------------
(* What a step of one node leaves alone.                                     *)
LEMMA ProgramSame ==
    ASSUME program' = program
    PROVE  /\ \A n, m : Links(n, m)' = Links(n, m)
           /\ \A n, i : Place(n, i)' = Place(n, i) /\ Req(n, i)' = Req(n, i)
           /\ \A n, i : IsRequest(n, i)' <=> IsRequest(n, i)
           /\ \A n : Code(n)' = Code(n)
           /\ \A n, i, m, j : /\ Meet(n, i, m, j)' <=> Meet(n, i, m, j)
                              /\ Asks(n, i, m, j)' = Asks(n, i, m, j)
<1>1. /\ \A n, m : Links(n, m)' = Links(n, m)
      /\ \A n, i : Place(n, i)' = Place(n, i) /\ Req(n, i)' = Req(n, i)
      /\ \A n : Code(n)' = Code(n)
  BY DEF Links, Place, Req, Code
<1>2. \A n, i : IsRequest(n, i)' <=> IsRequest(n, i)
  BY <1>1 DEF IsRequest
<1>3. \A n, i, m, j : Meet(n, i, m, j)' <=> Meet(n, i, m, j)
  BY <1>1, Zenon DEF Meet
<1>4. \A n, i, m, j : Asks(n, i, m, j)' = Asks(n, i, m, j)
  BY <1>1 DEF Asks
<1> QED
  BY <1>1, <1>2, <1>3, <1>4

\* If the same requests are answered, what is left to show is what they get.
LEMMA MeetsKept ==
    ASSUME program' = program, Meets,
           \A n, m \in Nodes : \A i \in Links(n, m) :
               Pending(n, m, i)' <=> Pending(n, m, i),
           Progress'
    PROVE  Meets'
<1>1. \A n, m \in Nodes : Answered(n, m)' = Answered(n, m)
  BY ProgramSame DEF Answered
<1>2. Partnered'
  BY <1>1, ProgramSame DEF Meets, Partnered
<1>3. Counted'
  BY <1>1 DEF Meets, Counted
<1> QED
  BY <1>2, <1>3 DEF Meets

\* What n's request i fares depends on what n knows of it.
LEMMA SameFares ==
    ASSUME program' = program, NEW n \in Nodes, NEW i, NEW ask,
           Waiting(n, i)' <=> Waiting(n, i), Working(n, i)' <=> Working(n, i),
           got'[n][i] = got[n][i],
           Working(n, i) => /\ nst'[n].at = nst[n].at
                            /\ nst'[n].total = nst[n].total /\ nst'[n].left = nst[n].left,
           Fares(n, i, ask)
    PROVE  /\ Waiting(n, i)' => got'[n][i] = 0
           /\ Working(n, i)' =>
                  /\ nst'[n].total = ask.number
                  /\ \/ /\ ask.type = "CK" /\ nst'[n].at # "outcome"
                        /\ got'[n][i] + nst'[n].left = ask.number
                     \/ /\ ask.type = "MD" /\ nst'[n].at = "outcome"
                        /\ got'[n][i] = 0
           /\ ~Waiting(n, i)' /\ ~Working(n, i)' => got'[n][i] = ask.number
BY DEF Fares

\* A step that changes nothing a request is about.
LEMMA AllSame ==
    ASSUME Types, program' = program, got' = got, nst' = nst, chan' = chan,
           \A n \in Nodes : \A i : IsRequest(n, i) => (Queued(n, i)' <=> Queued(n, i))
    PROVE  /\ Meets => Meets'
           /\ \A n, m \in Nodes : Answered(n, m)' = Answered(n, m)
<1>1. ASSUME NEW n \in Nodes, NEW m \in Nodes, NEW i \in Links(n, m)
      PROVE  /\ Pending(n, m, i)' <=> Pending(n, m, i)
             /\ Waiting(n, i)' <=> Waiting(n, i)
             /\ Working(n, i)' <=> Working(n, i)
  <2>1. Queued(n, i)' <=> Queued(n, i)
    BY LinkFacts
  <2>2. nst'[n] = nst[n] /\ chan'[n][m] = chan[n][m]
    OBVIOUS
  <2> QED
    BY <2>1, <2>2 DEF Pending, Waiting, Working
<1>2. ASSUME Meets  PROVE  Progress'
  <2> SUFFICES ASSUME NEW n \in Nodes, NEW m \in Nodes, NEW i, NEW j, Meet(n, i, m, j)
               PROVE  Fares(n, i, Asks(n, i, m, j))'
    BY ProgramSame DEF Progress
  <2>1. i \in Links(n, m)
    BY DEF Meet
  <2>2. PICK ask : ask = Asks(n, i, m, j) /\ ask = Asks(n, i, m, j)'
    BY ProgramSame
  <2>3. Fares(n, i, ask)
    BY <1>2, <2>2 DEF Meets, Progress
  <2>4. /\ Waiting(n, i)' <=> Waiting(n, i)
        /\ Working(n, i)' <=> Working(n, i)
    BY <1>1, <2>1
  <2> QED
    BY <2>2, <2>3, <2>4, SameFares DEF Fares
<1>3. \A n, m \in Nodes : Answered(n, m)' = Answered(n, m)
  BY <1>1, ProgramSame DEF Answered
<1> QED
  BY <1>1, <1>2, <1>3, MeetsKept
-----------------------------------------------------------------------------
(* Requests are taken in order.                                              *)
LEMMA TurnKept ==
    ASSUME InTurn, UNCHANGED <<program, pc, inbox>>,
           \A n \in Nodes : nst'[n].at # "idle" =>
               nst[n].at # "idle" /\ nst'[n].req = nst[n].req
    PROVE  /\ InTurn'
           /\ \A n, i : Queued(n, i)' <=> Queued(n, i)
<1>1. \A n, i : Queued(n, i)' <=> Queued(n, i)
  BY DEF Queued
<1>2. \A n, i : IsRequest(n, i)' <=> IsRequest(n, i)
  BY ProgramSame
<1> SUFFICES ASSUME NEW n \in Nodes
             PROVE  /\ \A k, l \in DOMAIN inbox'[n] : k < l => inbox'[n][k] < inbox'[n][l]
                    /\ \A k \in DOMAIN inbox'[n] : inbox'[n][k] < pc'[n]
                    /\ \A i, j : /\ IsRequest(n, i)' /\ IsRequest(n, j)'
                                 /\ Queued(n, i)' /\ i < j
                                 => Queued(n, j)'
                    /\ nst'[n].at # "idle" =>
                           \A i : IsRequest(n, i)' => (Queued(n, i)' <=> i > nst'[n].req)
  BY <1>1 DEF InTurn
<1>3. inbox' = inbox /\ pc' = pc
  OBVIOUS
<1>4. /\ \A k, l \in DOMAIN inbox[n] : k < l => inbox[n][k] < inbox[n][l]
      /\ \A k \in DOMAIN inbox[n] : inbox[n][k] < pc[n]
      /\ \A i, j : /\ IsRequest(n, i) /\ IsRequest(n, j)
                   /\ Queued(n, i) /\ i < j
                   => Queued(n, j)
      /\ nst[n].at # "idle" =>
             \A i : IsRequest(n, i) => (Queued(n, i) <=> i > nst[n].req)
  BY DEF InTurn
<1> QED
  BY <1>1, <1>2, <1>3, <1>4

\* The processor goes on: what it submits was queued from the start.
LEMMA TurnProcessor ==
    ASSUME Types, InTurn, NEW n \in Nodes, program' = program, nst' = nst,
           pc' = [pc EXCEPT ![n] = @ + 1],
           \/ ~IsRequest(n, pc[n]) /\ inbox' = inbox
           \/ inbox' = [inbox EXCEPT ![n] = Append(@, pc[n])]
    PROVE  /\ InTurn'
           /\ \A a \in Nodes : \A i : IsRequest(a, i) => (Queued(a, i)' <=> Queued(a, i))
<1>1. /\ pc[n] \in Nat /\ pc'[n] = pc[n] + 1
      /\ \A a \in Nodes : a # n => pc'[a] = pc[a]
      /\ inbox[n] \in Seq(Nat)
  BY DEF Types
<1>2. \A a \in Nodes : a # n => inbox'[a] = inbox[a]
  BY DEF Types
<1>3. \A a, i : IsRequest(a, i)' <=> IsRequest(a, i)
  BY ProgramSame
<1>4. \A i : IsRequest(n, i) => i \in Nat
  BY RequestFacts
<1>5. /\ \A k, l \in DOMAIN inbox[n] : k < l => inbox[n][k] < inbox[n][l]
      /\ \A k \in DOMAIN inbox[n] : inbox[n][k] < pc[n]
  BY DEF InTurn
<1>6. ASSUME \A i : IsRequest(n, i) => (Queued(n, i)' <=> Queued(n, i)),
             \A k, l \in DOMAIN inbox'[n] : k < l => inbox'[n][k] < inbox'[n][l],
             \A k \in DOMAIN inbox'[n] : inbox'[n][k] < pc'[n]
      PROVE  /\ InTurn'
             /\ \A a \in Nodes : \A i : IsRequest(a, i) => (Queued(a, i)' <=> Queued(a, i))
  <2>1. ASSUME NEW a \in Nodes, NEW i, IsRequest(a, i)
        PROVE  Queued(a, i)' <=> Queued(a, i)
    <3>1. CASE a = n
      BY <1>6, <2>1, <3>1
    <3>2. CASE a # n
      <4>1. pc'[a] = pc[a] /\ inbox'[a] = inbox[a]
        BY <1>1, <1>2, <3>2
      <4> QED
        BY <4>1 DEF Queued
    <3> QED
      BY <3>1, <3>2
  <2>2. ASSUME NEW a \in Nodes
        PROVE  /\ \A k, l \in DOMAIN inbox'[a] : k < l => inbox'[a][k] < inbox'[a][l]
               /\ \A k \in DOMAIN inbox'[a] : inbox'[a][k] < pc'[a]
               /\ \A i, j : /\ IsRequest(a, i)' /\ IsRequest(a, j)'
                            /\ Queued(a, i)' /\ i < j
                            => Queued(a, j)'
               /\ nst'[a].at # "idle" =>
                      \A i : IsRequest(a, i)' => (Queued(a, i)' <=> i > nst'[a].req)
    <3>1. /\ \A k, l \in DOMAIN inbox[a] : k < l => inbox[a][k] < inbox[a][l]
          /\ \A k \in DOMAIN inbox[a] : inbox[a][k] < pc[a]
          /\ \A i, j : /\ IsRequest(a, i) /\ IsRequest(a, j)
                       /\ Queued(a, i) /\ i < j
                       => Queued(a, j)
          /\ nst[a].at # "idle" =>
                 \A i : IsRequest(a, i) => (Queued(a, i) <=> i > nst[a].req)
      BY DEF InTurn
    <3>2. /\ \A k, l \in DOMAIN inbox'[a] : k < l => inbox'[a][k] < inbox'[a][l]
          /\ \A k \in DOMAIN inbox'[a] : inbox'[a][k] < pc'[a]
      <4>1. CASE a = n
        BY <1>6, <4>1
      <4>2. CASE a # n
        BY <1>1, <1>2, <3>1, <4>2
      <4> QED
        BY <4>1, <4>2
    <3>3. /\ \A i, j : /\ IsRequest(a, i)' /\ IsRequest(a, j)'
                       /\ Queued(a, i)' /\ i < j
                       => Queued(a, j)'
          /\ nst'[a].at # "idle" =>
                 \A i : IsRequest(a, i)' => (Queued(a, i)' <=> i > nst'[a].req)
      BY <1>3, <2>1, <3>1
    <3> QED
      BY <3>2, <3>3
  <2> QED
    BY <2>1, <2>2 DEF InTurn
<1>7. CASE ~IsRequest(n, pc[n]) /\ inbox' = inbox
  <2>1. ASSUME NEW i, IsRequest(n, i)
        PROVE  Queued(n, i)' <=> Queued(n, i)
    <3>1. i \in Nat /\ i # pc[n]
      BY <1>4, <1>7, <2>1
    <3>2. i >= pc'[n] <=> i >= pc[n]
      BY <1>1, <3>1
    <3> QED
      BY <1>7, <3>2 DEF Queued
  <2>2. /\ \A k, l \in DOMAIN inbox'[n] : k < l => inbox'[n][k] < inbox'[n][l]
        /\ \A k \in DOMAIN inbox'[n] : inbox'[n][k] < pc'[n]
    <3>1. \A k \in DOMAIN inbox[n] : inbox[n][k] \in Nat
      BY <1>1
    <3> QED
      BY <1>1, <1>5, <1>7, <3>1
  <2> QED
    BY <1>6, <2>1, <2>2
<1>8. CASE inbox' = [inbox EXCEPT ![n] = Append(@, pc[n])]
  <2>1. inbox'[n] = Append(inbox[n], pc[n])
    BY <1>8 DEF Types
  <2>2. PICK q \in Seq(Nat), p \in Nat, u \in Nat :
            q = inbox[n] /\ p = pc[n] /\ u = Len(q)
    BY <1>1
  <2>3. /\ DOMAIN q = 1 .. u /\ DOMAIN Append(q, p) = 1 .. u + 1
        /\ \A k \in 1 .. u : Append(q, p)[k] = q[k] /\ q[k] \in Nat
        /\ Append(q, p)[u + 1] = p
    BY <2>2
  <2> DEFINE t == Append(q, p)
  <2> HIDE DEF t
  <2>4. /\ DOMAIN t = 1 .. u + 1 /\ t = inbox'[n]
        /\ \A k \in 1 .. u : t[k] = q[k] /\ q[k] \in Nat /\ q[k] < p
        /\ t[u + 1] = p
    BY <1>5, <2>1, <2>2, <2>3 DEF t
  <2>5. /\ \A k, l \in DOMAIN t : k < l => t[k] < t[l]
        /\ \A k \in DOMAIN t : t[k] < p + 1
    <3>1. \A k, l \in 1 .. u : k < l => q[k] < q[l]
      BY <1>5, <2>2, <2>3
    <3>2. ASSUME NEW k \in DOMAIN t, NEW l \in DOMAIN t, k < l  PROVE  t[k] < t[l]
      <4>1. k \in 1 .. u
        BY <2>4, <3>2
      <4>2. CASE l \in 1 .. u
        BY <2>4, <3>1, <3>2, <4>1, <4>2
      <4>3. CASE l = u + 1
        BY <2>4, <4>1, <4>3
      <4> QED
        BY <2>4, <4>2, <4>3
    <3>3. ASSUME NEW k \in DOMAIN t  PROVE  t[k] < p + 1
      <4>1. CASE k \in 1 .. u
        BY <2>4, <4>1
      <4>2. CASE k = u + 1
        BY <2>4, <4>2
      <4> QED
        BY <2>4, <4>1, <4>2
    <3> QED
      BY <3>2, <3>3
  <2>6. ASSUME NEW i, IsRequest(n, i)
        PROVE  Queued(n, i)' <=> Queued(n, i)
    <3>1. i \in Nat
      BY <1>4, <2>6
    <3>2. (\E k \in DOMAIN t : t[k] = i) <=> i = p \/ \E k \in DOMAIN q : q[k] = i
      <4>1. /\ \A k : k \in DOMAIN t <=> k \in DOMAIN q \/ k = u + 1
            /\ \A k \in DOMAIN q : t[k] = q[k]
        BY <2>2, <2>3, <2>4
      <4>2. t[u + 1] = p
        BY <2>4
      <4> QED
        BY <4>1, <4>2, Zenon
    <3>3. i >= p + 1 \/ i = p <=> i >= p
      BY <3>1
    <3>4. Queued(n, i)' <=> i >= p + 1 \/ \E k \in DOMAIN t : t[k] = i
      BY <1>1, <2>2, <2>4 DEF Queued
    <3>5. Queued(n, i) <=> i >= p \/ \E k \in DOMAIN q : q[k] = i
      BY <2>2 DEF Queued
    <3> QED
      BY <3>2, <3>3, <3>4, <3>5, Zenon
  <2>7. pc'[n] = p + 1
    BY <1>1, <2>2
  <2> QED
    BY <1>6, <2>4, <2>5, <2>6, <2>7
<1> QED
  BY <1>7, <1>8

\* The network stack takes the next request: only that one is queued no more.
LEMMA TurnTaken ==
    ASSUME Types, Requested, InTurn, NEW n \in Nodes, program' = program, pc' = pc,
           nst[n].at = "idle", inbox[n] # <<>>, NEW i, i = Head(inbox[n]),
           inbox' = [inbox EXCEPT ![n] = Tail(inbox[n])],
           NEW v, nst' = [nst EXCEPT ![n] = v], v.req = i
    PROVE  /\ InTurn'
           /\ Queued(n, i)
           /\ \A j : IsRequest(n, j) => (Queued(n, j)' <=> Queued(n, j) /\ j # i)
           /\ \A a \in Nodes : a # n => \A j : (Queued(a, j)' <=> Queued(a, j))
<1>1. PICK q \in Seq(Nat), p \in Nat, u \in Nat :
          q = inbox[n] /\ p = pc[n] /\ u = Len(q) - 1 /\ u + 1 = Len(q)
  <2>1. inbox[n] \in Seq(Nat) /\ pc[n] \in Nat /\ inbox[n] # <<>>
    BY DEF Types
  <2>2. Len(inbox[n]) \in Nat /\ Len(inbox[n]) > 0
    BY <2>1
  <2>3. Len(inbox[n]) - 1 \in Nat /\ (Len(inbox[n]) - 1) + 1 = Len(inbox[n])
    BY <2>2
  <2> QED
    BY <2>1, <2>3
<1>2. /\ DOMAIN q = 1 .. u + 1 /\ q[1] = i /\ DOMAIN Tail(q) = 1 .. u
      /\ \A k \in 1 .. u : Tail(q)[k] = q[k + 1]
      /\ \A k \in 1 .. u + 1 : q[k] \in Nat
  <2>1. q # <<>> /\ Len(q) = u + 1 /\ i = Head(q)
    BY <1>1
  <2>2. q[1] = Head(q) /\ Len(Tail(q)) = Len(q) - 1 /\ Tail(q) \in Seq(Nat)
    BY <2>1
  <2>3. \A k \in 1 .. Len(q) - 1 : Tail(q)[k] = q[k + 1]
    BY <2>1
  <2>4. Len(q) - 1 = u
    BY <2>1
  <2> QED
    BY <2>1, <2>2, <2>3, <2>4
<1> DEFINE t == Tail(q)
<1> HIDE DEF t
<1>3. /\ DOMAIN t = 1 .. u /\ t = inbox'[n] /\ q = inbox[n]
      /\ \A k \in 1 .. u : t[k] = q[k + 1]
  BY <1>1, <1>2 DEF t, Types
<1>4. /\ \A a \in Nodes : a # n => inbox'[a] = inbox[a] /\ nst'[a] = nst[a]
      /\ nst'[n] = v
  BY DEF Types
<1>5. /\ \A k, l \in 1 .. u + 1 : k < l => q[k] < q[l]
      /\ \A k \in 1 .. u + 1 : q[k] < p
  BY <1>1, <1>2 DEF InTurn
<1>6. /\ \A a, j : IsRequest(a, j)' <=> IsRequest(a, j)
      /\ \A j : IsRequest(n, j) => j \in Nat
  BY ProgramSame, RequestFacts
<1>7. 1 \in 1 .. u + 1 /\ i \in Nat /\ i < p
  BY <1>2, <1>5
<1>8. Queued(n, i) /\ IsRequest(n, i)
  BY <1>2, <1>3, <1>7 DEF Queued, Requested
<1>9. \A a \in Nodes : a # n => \A j : (Queued(a, j)' <=> Queued(a, j))
  BY <1>4 DEF Queued
<1>10. /\ \A k, l \in DOMAIN t : k < l => t[k] < t[l]
       /\ \A k \in DOMAIN t : t[k] < p /\ i < t[k]
  <2>1. \A k \in 1 .. u : k \in Nat /\ k + 1 \in 1 .. u + 1 /\ 1 < k + 1
    BY <1>1
  <2>2. ASSUME NEW k \in 1 .. u  PROVE  t[k] < p /\ i < t[k]
    BY <1>2, <1>3, <1>5, <1>7, <2>1
  <2>3. ASSUME NEW k \in 1 .. u, NEW l \in 1 .. u, k < l  PROVE  t[k] < t[l]
    <3>1. k + 1 < l + 1
      BY <2>1, <2>3
    <3> QED
      BY <1>3, <1>5, <2>1, <3>1
  <2> QED
    BY <1>3, <2>2, <2>3
<1>11. ASSUME NEW j, IsRequest(n, j)
       PROVE  /\ Queued(n, j)' <=> Queued(n, j) /\ j # i
              /\ Queued(n, j)' => j > i
  <2>1. j \in Nat
    BY <1>6, <1>11
  <2>2. Queued(n, j) <=> j >= p \/ \E k \in 1 .. u + 1 : q[k] = j
    BY <1>1, <1>2 DEF Queued
  <2>3. Queued(n, j)' <=> j >= p \/ \E k \in 1 .. u : t[k] = j
    BY <1>1, <1>3 DEF Queued
  <2>4. Queued(n, j)' => j > i /\ j # i
    <3>1. j >= p => j > i
      BY <1>7, <2>1
    <3>2. ASSUME NEW k \in 1 .. u, t[k] = j  PROVE  j > i
      <4>1. i < t[k]
        BY <1>3, <1>10
      <4> QED
        BY <1>7, <2>1, <3>2, <4>1
    <3>3. j > i => j # i
      BY <1>7, <2>1
    <3> QED
      BY <2>3, <3>1, <3>2, <3>3
  <2>5. Queued(n, j)' => Queued(n, j)
    <3>1. ASSUME NEW k \in 1 .. u, t[k] = j  PROVE  k + 1 \in 1 .. u + 1 /\ q[k + 1] = j
      BY <1>1, <1>3, <3>1
    <3> QED
      BY <2>2, <2>3, <3>1
  <2>6. Queued(n, j) /\ j # i => Queued(n, j)'
    <3>1. ASSUME NEW k \in 1 .. u + 1, q[k] = j, j # i
          PROVE  \E l \in 1 .. u : t[l] = j
      <4>1. k - 1 \in 1 .. u /\ (k - 1) + 1 = k
        BY <1>1, <1>2, <3>1
      <4> QED
        BY <1>3, <3>1, <4>1
    <3> QED
      BY <2>2, <2>3, <3>1
  <2> QED
    BY <2>4, <2>5, <2>6
<1>12. \A j, k : /\ IsRequest(n, j) /\ IsRequest(n, k) /\ Queued(n, j) /\ j < k
                 => Queued(n, k)
  BY DEF InTurn
<1>13. ASSUME NEW j, IsRequest(n, j)  PROVE  Queued(n, j)' <=> j > i
  BY <1>6, <1>7, <1>8, <1>11, <1>12, <1>13
<1>14. InTurn'
  <2> SUFFICES ASSUME NEW a \in Nodes
               PROVE  /\ \A k, l \in DOMAIN inbox'[a] : k < l => inbox'[a][k] < inbox'[a][l]
                      /\ \A k \in DOMAIN inbox'[a] : inbox'[a][k] < pc'[a]
                      /\ \A j, k : /\ IsRequest(a, j)' /\ IsRequest(a, k)'
                                   /\ Queued(a, j)' /\ j < k
                                   => Queued(a, k)'
                      /\ nst'[a].at # "idle" =>
                             \A j : IsRequest(a, j)' => (Queued(a, j)' <=> j > nst'[a].req)
    BY DEF InTurn
  <2>1. CASE a = n
    <3>1. \A j, k : /\ IsRequest(n, j) /\ IsRequest(n, k) /\ Queued(n, j)' /\ j < k
                   => Queued(n, k)'
      BY <1>6, <1>7, <1>13
    <3>2. /\ \A k, l \in DOMAIN inbox'[n] : k < l => inbox'[n][k] < inbox'[n][l]
          /\ \A k \in DOMAIN inbox'[n] : inbox'[n][k] < pc'[n]
      BY <1>1, <1>3, <1>10
    <3>3. \A j : IsRequest(n, j) => (Queued(n, j)' <=> j > nst'[n].req)
      BY <1>4, <1>13
    <3> QED
      BY <1>6, <2>1, <3>1, <3>2, <3>3
  <2>2. CASE a # n
    <3>1. inbox'[a] = inbox[a] /\ pc'[a] = pc[a] /\ nst'[a] = nst[a]
      BY <1>4, <2>2
    <3>2. /\ \A k, l \in DOMAIN inbox[a] : k < l => inbox[a][k] < inbox[a][l]
          /\ \A k \in DOMAIN inbox[a] : inbox[a][k] < pc[a]
          /\ \A j, k : /\ IsRequest(a, j) /\ IsRequest(a, k)
                       /\ Queued(a, j) /\ j < k
                       => Queued(a, k)
          /\ nst[a].at # "idle" =>
                 \A j : IsRequest(a, j) => (Queued(a, j) <=> j > nst[a].req)
      BY DEF InTurn
    <3> QED
      BY <1>6, <1>9, <2>2, <3>1, <3>2
  <2> QED
    BY <2>1, <2>2
<1> QED
  BY <1>8, <1>9, <1>11, <1>14
-----------------------------------------------------------------------------
(* What becomes of sessions.                                                 *)

\* What n has got for its request i is a number of pairs.
LEMMA CountersKept ==
    ASSUME Types, Counters, program' = program, NEW n \in Nodes, NEW i, NEW x \in Nat,
           NEW g, g = [got EXCEPT ![n][i] = x], got' = g
    PROVE  /\ Counters'
           /\ i \in DOMAIN Code(n) => got'[n][i] = x
           /\ \A k \in DOMAIN Code(n) : k # i => got'[n][k] = got[n][k]
           /\ \A a \in Nodes : a # n => got'[a] = got[a]
<1>1. /\ got = [a \in Nodes |-> got[a]] /\ \A a \in Nodes : got[a] \in [DOMAIN Code(a) -> Nat]
  BY DEF Counters
<1> DEFINE h == [got[n] EXCEPT ![i] = x]
<1>2. /\ h \in [DOMAIN Code(n) -> Nat]
      /\ i \in DOMAIN Code(n) => h[i] = x
      /\ \A k \in DOMAIN Code(n) : k # i => h[k] = got[n][k]
  BY <1>1
<1>3. got' = [got EXCEPT ![n] = h]
  OBVIOUS
<1> HIDE DEF h
<1>4. got'[n] = h /\ \A a \in Nodes : a # n => got'[a] = got[a]
  BY <1>1, <1>3
<1>5. Counters'
  <2>1. got' = [a \in Nodes |-> got'[a]]
    BY <1>1, <1>3
  <2>2. \A a \in Nodes : got'[a] \in [DOMAIN Code(a) -> Nat]
    BY <1>1, <1>2, <1>4
  <2> QED
    BY <2>1, <2>2, ProgramSame DEF Counters
<1> QED
  BY <1>2, <1>4, <1>5

\* A step of n's request i for m, whose handshake is over: n's network stack goes
\* to v, and the request has x pairs from then on.
Proceeds(n, m, i, v, x) ==
    /\ program' = program /\ pc' = pc /\ inbox' = inbox
    /\ IsRequest(n, i) /\ Req(n, i).peer = m
    /\ nst[n].at # "idle" /\ nst[n].req = i /\ i \in Answered(n, m)
    /\ nst' = [nst EXCEPT ![n] = v]
    /\ v.at = "idle" \/ (v.at \in Busy /\ v.req = i)
    /\ got'[n][i] = x
    /\ \A k \in DOMAIN Code(n) : k # i => got'[n][k] = got[n][k]
    /\ \A a \in Nodes : a # n => got'[a] = got[a]
    /\ \A a, b \in Nodes : \/ chan'[a][b] = <<>> <=> chan[a][b] = <<>>
                          \/ nst[a].at # "ack" \/ Req(a, nst[a].req).peer # b

\* It is done with the pairs asked for, or has x of them and the others to go.
GoesRight(v, x, ask) ==
    \/ v.at = "idle" /\ x = ask.number
    \/ /\ v.total = ask.number
       /\ \/ ask.type = "CK" /\ v.at \in {"comm", "pair"} /\ x + v.left = ask.number
          \/ ask.type = "MD" /\ v.at = "outcome" /\ x = 0

\* Such a step keeps all sessions as they should be, and no handshake is over.
LEMMA MovesOn ==
    ASSUME Types, Counters, InTurn, Meets, NEW n \in Nodes, NEW m \in Nodes, NEW i,
           NEW v, NEW x, Proceeds(n, m, i, v, x),
           \A j : Meet(n, i, m, j) => GoesRight(v, x, Asks(n, i, m, j))
    PROVE  /\ Meets'
           /\ \A a, b \in Nodes : Answered(a, b)' = Answered(a, b)
<1>0. /\ program' = program /\ pc' = pc /\ inbox' = inbox
      /\ IsRequest(n, i) /\ Req(n, i).peer = m
      /\ nst[n].at # "idle" /\ nst[n].req = i /\ i \in Links(n, m) /\ ~Pending(n, m, i)
      /\ nst' = [nst EXCEPT ![n] = v]
      /\ v.at = "idle" \/ (v.at \in Busy /\ v.req = i)
      /\ got'[n][i] = x
      /\ \A k \in DOMAIN Code(n) : k # i => got'[n][k] = got[n][k]
      /\ \A a \in Nodes : a # n => got'[a] = got[a]
      /\ \A a, b \in Nodes : \/ chan'[a][b] = <<>> <=> chan[a][b] = <<>>
                            \/ nst[a].at # "ack" \/ Req(a, nst[a].req).peer # b
  BY DEF Proceeds, Answered
<1>1. /\ nst'[n] = v /\ \A a \in Nodes : a # n => nst'[a] = nst[a]
      /\ v.at # "ack" /\ v.at # "request" /\ "idle" \notin Busy
  BY <1>0 DEF Types, Busy
<1>2. \A a, k : Queued(a, k)' <=> Queued(a, k)
  BY <1>0 DEF Queued
<1>3. ~Queued(n, i)
  BY <1>0 DEF Pending
<1>4. ASSUME NEW a \in Nodes, NEW b \in Nodes, NEW k \in Links(a, b)
      PROVE  Pending(a, b, k)' <=> Pending(a, b, k)
  <2>1. CASE a = n
    <3>1. CASE k = i
      <4>1. b = m
        BY <1>0, <2>1, <3>1, LinkFacts
      <4>2. ~Pending(n, m, i)'
        BY <1>0, <1>1, <1>2, <1>3, Zenon DEF Pending
      <4> QED
        BY <1>0, <2>1, <3>1, <4>1, <4>2
    <3>2. CASE k # i
      <4>1. Pending(n, b, k) <=> Queued(n, k)
        BY <1>0, <3>2 DEF Pending
      <4>2. Pending(n, b, k)' <=> Queued(n, k)'
        BY <1>0, <1>1, Zenon DEF Pending
      <4> QED
        BY <1>0, <1>2, <2>1, <4>1, <4>2
    <3> QED
      BY <1>0, <3>1, <3>2
  <2>2. CASE a # n
    <3>1. nst'[a] = nst[a]
      BY <1>0, <1>1, <2>2
    <3>2. nst[a].at = "ack" /\ nst[a].req = k =>
              (chan'[a][b] = <<>> <=> chan[a][b] = <<>>)
      BY <1>0, LinkFacts
    <3> QED
      BY <1>0, <1>2, <3>1, <3>2 DEF Pending
  <2> QED
    BY <1>0, <2>1, <2>2
<1>5. i \in DOMAIN Code(n)
  BY <1>0 DEF IsRequest
<1>6. Progress'
  <2> SUFFICES ASSUME NEW a \in Nodes, NEW b \in Nodes, NEW k, NEW j, Meet(a, k, b, j)
               PROVE  Fares(a, k, Asks(a, k, b, j))'
    BY <1>0, ProgramSame DEF Progress
  <2>1. /\ k \in Links(a, b) /\ IsRequest(a, k) /\ Req(a, k).peer = b
        /\ k \in DOMAIN Code(a)
    BY <1>0, LinkFacts DEF Meet
  <2>2. PICK ask : ask = Asks(a, k, b, j) /\ ask = Asks(a, k, b, j)'
    BY <1>0, ProgramSame
  <2>3. Fares(a, k, ask)
    <3>1. Fares(a, k, Asks(a, k, b, j))
      BY <1>0 DEF Meets, Progress
    <3> QED
      BY <1>0, <2>2, <3>1, Zenon
  <2>4. CASE a = n /\ k = i
    <3>1. b = m
      BY <1>0, <2>1, <2>4
    <3>2. GoesRight(v, x, ask)
      <4>1. Meet(n, i, m, j) /\ ask = Asks(n, i, m, j)
        BY <1>0, <2>2, <2>4, <3>1
      <4> QED
        BY <1>0, <4>1
    <3>3. ~Waiting(n, i)'
      BY <1>0, <1>1, <1>2, <1>3 DEF Waiting
    <3>4. Working(n, i)' <=> v.at # "idle"
      BY <1>0, <1>1 DEF Working
    <3>5. /\ Working(n, i)' =>
                 /\ nst'[n].total = ask.number
                 /\ \/ /\ ask.type = "CK" /\ nst'[n].at # "outcome"
                       /\ got'[n][i] + nst'[n].left = ask.number
                    \/ /\ ask.type = "MD" /\ nst'[n].at = "outcome"
                       /\ got'[n][i] = 0
          /\ ~Working(n, i)' => got'[n][i] = ask.number
      BY <1>0, <1>1, <1>5, <3>2, <3>4 DEF GoesRight
    <3> QED
      BY <1>0, <2>2, <2>4, <3>3, <3>5 DEF Fares
  <2>5. CASE ~(a = n /\ k = i)
    <3>1. got'[a][k] = got[a][k]
      BY <1>0, <1>5, <2>1, <2>5
    <3>2. /\ Waiting(a, k)' <=> Waiting(a, k)
          /\ Working(a, k)' <=> Working(a, k)
          /\ Working(a, k) => nst'[a] = nst[a]
      <4>1. CASE a # n
        <5>1. nst'[a] = nst[a]
          BY <1>0, <1>1, <4>1
        <5> QED
          BY <1>0, <1>2, <5>1 DEF Waiting, Working
      <4>2. CASE a = n
        <5>1. k # i
          BY <1>0, <2>5, <4>2
        <5>2. /\ Waiting(n, k) <=> Queued(n, k)
              /\ ~Working(n, k) /\ ~Working(n, k)'
          BY <1>0, <1>1, <5>1 DEF Waiting, Working
        <5>3. Waiting(n, k)' <=> Queued(n, k)'
          BY <1>0, <1>1 DEF Waiting
        <5> QED
          BY <1>0, <1>2, <4>2, <5>2, <5>3
      <4> QED
        BY <1>0, <4>1, <4>2
    <3> QED
      BY <1>0, <2>2, <2>3, <3>1, <3>2, SameFares DEF Fares
  <2> QED
    BY <1>0, <2>4, <2>5
<1>7. \A a, b \in Nodes : Answered(a, b)' = Answered(a, b)
  BY <1>0, <1>4, ProgramSame DEF Answered
<1> QED
  BY <1>0, <1>4, <1>6, <1>7, MeetsKept

\* The network stack takes a request: it is pending as before.
LEMMA TakeRequestMeets ==
    ASSUME IInv, Counters, InTurn, NEW n \in Nodes, TakeRequest(n)
    PROVE  /\ Counters' /\ InTurn' /\ got' = got /\ program' = program
           /\ \A a, b \in Nodes : Answered(a, b)' = Answered(a, b)
           /\ Meets => Meets'
<1>0. Types /\ Requested
  BY DEF IInv
<1>1. /\ nst[n].at = "idle" /\ inbox[n] # <<>> /\ inbox[n] \in Seq(Nat)
      /\ inbox' = [inbox EXCEPT ![n] = Tail(inbox[n])]
      /\ program' = program /\ pc' = pc /\ got' = got
  BY <1>0 DEF TakeRequest, Types
<1>2. PICK i : i = Head(inbox[n])
  OBVIOUS
<1>3. IsRequest(n, i)
  <2>1. 1 \in DOMAIN inbox[n] /\ inbox[n][1] = i
    BY <1>1, <1>2
  <2> QED
    BY <1>0, <2>1 DEF Requested
<1>4. PICK m \in Nodes : m = Req(n, i).peer
  BY <1>0, <1>3, RequestFacts
<1>5. PICK v :
              /\ nst' = [nst EXCEPT ![n] = v]
              /\ v.at \in {"ack", "request"} /\ v.req = i
              /\ v.at = "ack" => chan'[n][m] # <<>>
              /\ \A a, b \in Nodes : a # n => chan'[a][b] = chan[a][b]
  <2>1. chan \in [Nodes -> [Nodes -> Seq(Messages)]] /\ i \in Nat
    BY <1>0, <1>3, RequestFacts DEF Types
  <2> DEFINE message == [kind |-> "request", of |-> n, req |-> i]
             v(at) == [Idle EXCEPT !.at = at, !.req = i]
  <2>2. \A at : v(at).at = at /\ v(at).req = i
    BY DEF Idle
  <2>3. CASE /\ chan' = [chan EXCEPT ![n][m] = Append(chan[n][m], message)]
             /\ nst' = [nst EXCEPT ![n] = v("ack")]
    <3>1. message \in Messages /\ chan[n][m] \in Seq(Messages)
      BY <2>1 DEF Messages
    <3> HIDE DEF message, v
    <3>2. chan'[n][m] # <<>> /\ \A a, b \in Nodes : a # n => chan'[a][b] = chan[a][b]
      <4> DEFINE more == Append(chan[n][m], message)
      <4>1. more # <<>>
        BY <3>1
      <4>2. chan' = [chan EXCEPT ![n][m] = more]
        BY <2>3
      <4> HIDE DEF more
      <4> QED
        BY <2>1, <4>1, <4>2
    <3>3. PICK u : u = v("ack") /\ u.at = "ack" /\ u.req = i
      BY <2>2
    <3> QED
      BY <2>3, <3>2, <3>3
  <2>4. CASE nst' = [nst EXCEPT ![n] = v("request")] /\ chan' = chan
    <3> HIDE DEF v
    <3>1. PICK u : u = v("request") /\ u.at = "request" /\ u.req = i
      BY <2>2
    <3> QED
      BY <2>4, <3>1
  <2> QED
    BY <1>2, <1>4, <2>3, <2>4 DEF TakeRequest
<1>6. /\ InTurn' /\ Queued(n, i)
      /\ \A j : IsRequest(n, j) => (Queued(n, j)' <=> Queued(n, j) /\ j # i)
      /\ \A a \in Nodes : a # n => \A j : (Queued(a, j)' <=> Queued(a, j))
  BY <1>0, <1>1, <1>2, <1>5, TurnTaken
<1>7. /\ nst'[n] = v /\ \A a \in Nodes : a # n => nst'[a] = nst[a]
      /\ v.at \notin Busy /\ v.at # "idle" /\ nst[n].at \notin Busy
  BY <1>0, <1>1, <1>5 DEF Types, Busy
<1>8. ASSUME NEW a \in Nodes, NEW k, IsRequest(a, k)
      PROVE  /\ Waiting(a, k)' <=> Waiting(a, k)
             /\ Working(a, k)' <=> Working(a, k)
             /\ Working(a, k) => nst'[a] = nst[a]
             /\ \A b \in Nodes : k \in Links(a, b) =>
                    (Pending(a, b, k)' <=> Pending(a, b, k))
  <2>1. CASE a # n
    <3>1. nst'[a] = nst[a] /\ (Queued(a, k)' <=> Queued(a, k))
      BY <1>6, <1>7, <2>1
    <3>2. \A b \in Nodes : chan'[a][b] = chan[a][b]
      BY <1>5, <2>1
    <3> QED
      BY <3>1, <3>2 DEF Waiting, Working, Pending
  <2>2. CASE a = n
    <3>1. /\ Waiting(n, k) <=> Queued(n, k)
          /\ ~Working(n, k) /\ ~Working(n, k)'
          /\ \A b \in Nodes : Pending(n, b, k) <=> Queued(n, k)
      BY <1>1, <1>7 DEF Waiting, Working, Pending
    <3>2. Waiting(n, k)' <=> Queued(n, k)
      BY <1>5, <1>6, <1>7, <1>8, <2>2 DEF Waiting
    <3>3. ASSUME NEW b \in Nodes, k \in Links(n, b)
          PROVE  Pending(n, b, k)' <=> Queued(n, k)
      <4>1. CASE k = i
        <5>1. b = m
          BY <1>0, <1>4, <3>3, <4>1, LinkFacts
        <5>2. Pending(n, m, i)'
          BY <1>5, <1>7 DEF Pending
        <5> QED
          BY <1>6, <4>1, <5>1, <5>2
      <4>2. CASE k # i
        <5>1. Pending(n, b, k)' <=> Queued(n, k)'
          BY <1>5, <1>7, <4>2, Zenon DEF Pending
        <5> QED
          BY <1>6, <1>8, <2>2, <4>2, <5>1
      <4> QED
        BY <4>1, <4>2
    <3> QED
      BY <2>2, <3>1, <3>2, <3>3
  <2> QED
    BY <2>1, <2>2
<1>9. Counters'
  BY <1>1, ProgramSame DEF Counters
<1>10. ASSUME Meets  PROVE  Meets'
  <2>1. Progress'
    <3> SUFFICES ASSUME NEW a \in Nodes, NEW b \in Nodes, NEW k, NEW j, Meet(a, k, b, j)
                 PROVE  Fares(a, k, Asks(a, k, b, j))'
      BY <1>1, ProgramSame DEF Progress
    <3>1. IsRequest(a, k)
      BY <1>0, LinkFacts DEF Meet
    <3>2. PICK ask : ask = Asks(a, k, b, j) /\ ask = Asks(a, k, b, j)'
      BY <1>1, ProgramSame
    <3>3. Fares(a, k, ask)
      BY <1>10, <3>2 DEF Meets, Progress
    <3> QED
      BY <1>1, <1>8, <3>1, <3>2, <3>3, SameFares DEF Fares
  <2>2. \A a, b \in Nodes : \A k \in Links(a, b) : Pending(a, b, k)' <=> Pending(a, b, k)
    BY <1>0, <1>8, LinkFacts
  <2> QED
    BY <1>1, <1>10, <2>1, <2>2, MeetsKept
<1>11. \A a, b \in Nodes : Answered(a, b)' = Answered(a, b)
  <2>1. \A a, b \in Nodes : \A k \in Links(a, b) : Pending(a, b, k)' <=> Pending(a, b, k)
    BY <1>0, <1>8, LinkFacts
  <2> QED
    BY <1>1, <2>1, ProgramSame DEF Answered
<1> QED
  BY <1>1, <1>6, <1>9, <1>10, <1>11

\* A creator's request that is acknowledged has been answered: were it the peer's
\* own request, the two requests would not match up.
LEMMA AcknowledgedAnswered ==
    ASSUME IInv, ~crashed, InTurn, program.matched, Meets,
           NEW n \in Nodes, NEW m \in Nodes, nst[n].at = "ack", Peer(n) = m,
           chan[m][n] # <<>>
    PROVE  /\ Ahead(m, n) /\ chan[n][m] = <<>>
           /\ nst[n].req \in Answered(n, m)
<1>1. Types /\ Requested /\ InPhase
  BY DEF IInv
<1>2. PICK i : i = nst[n].req
  OBVIOUS
<1>3. IsRequest(n, i) /\ Req(n, i).role = "create" /\ Req(n, i).peer = m /\ n # m
  BY <1>1, <1>2, RequestFacts DEF Requested, Peer
<1>4. /\ View(n, m) = nst[n] /\ Asking(n, m)
      /\ i \in Links(n, m) /\ Synchronised(n, m)
      /\ Sent(n, m) # <<>>
  <2>1. View(n, m) = nst[n]
    BY <1>1, ViewFacts
  <2>2. Asking(n, m) /\ Sent(n, m) # <<>>
    BY <1>1, <2>1, ViewStates
  <2> QED
    BY <1>1, <1>3, <2>1, <2>2, LinkFacts DEF InPhase
<1>5. ~Ahead(n, m)
  BY DEF Ahead, AheadWith
<1>6. ~Queued(n, i)
  <2>1. Queued(n, i) <=> i > nst[n].req
    BY <1>3 DEF InTurn
  <2>2. i \in Nat
    BY <1>1, <1>3, RequestFacts
  <2> QED
    BY <1>2, <2>1, <2>2
<1>7. ~Level(n, m)
  <2> SUFFICES ASSUME Level(n, m)  PROVE  FALSE
    OBVIOUS
  <2>1. /\ chan[n][m] # <<>> /\ Sent(m, n) # <<>>
    BY <1>4 DEF Level
  <2>2. /\ Asking(m, n)
    BY <1>1, <2>1, ViewStates
  <2>3. View(m, n).at # "idle" /\ View(m, n).at = "ack"
    BY <2>2 DEF Asking
  <2>4. View(m, n) = nst[m] /\ Peer(m) = n
    BY <1>1, <2>3, ViewFacts
  <2>5. PICK j : j = nst[m].req
    OBVIOUS
  <2>6. /\ nst[m].at = "ack" /\ chan[m][n] # <<>>
        /\ IsRequest(m, j) /\ Req(m, j).peer = n /\ Req(m, j).role = "create"
    BY <1>1, <2>3, <2>4, <2>5 DEF Requested, Peer
  <2>7. j \in Links(m, n) /\ j \notin Answered(m, n)
    BY <1>1, <2>5, <2>6, LinkFacts DEF Answered, Pending
  <2>8. i \notin Answered(n, m)
    BY <1>2, <2>1 DEF Answered, Pending
  <2>9. Meet(n, i, m, j)
    BY <1>1, <1>2, <1>4, <2>5, <2>6, <2>7, <2>8, NextMeet DEF Meets
  <2> QED
    BY <1>1, <1>3, <2>6, <2>9, MeetFacts
<1>8. Ahead(m, n)
  BY <1>4, <1>5, <1>7 DEF Synchronised
<1>9. chan[n][m] = <<>>
  BY <1>8 DEF Ahead, AheadWith
<1>10. ~Pending(n, m, i)
  BY <1>6, <1>9 DEF Pending
<1> QED
  BY <1>2, <1>4, <1>8, <1>9, <1>10 DEF Answered

\* The creator begins with its session.
LEMMA AcknowledgedMeets ==
    ASSUME IInv, ~crashed, Counters, InTurn, NEW n \in Nodes, Acknowledged(n)
    PROVE  /\ Counters' /\ InTurn' /\ got' = got /\ program' = program
           /\ crashed' => nst' = nst
           /\ program.matched /\ ~crashed' /\ Meets =>
                  /\ Meets'
                  /\ \A a, b \in Nodes : Answered(a, b)' = Answered(a, b)
<1>0. Types /\ Requested /\ InPhase
  BY DEF IInv
<1>1. /\ nst[n].at = "ack" /\ chan[Peer(n)][n] # <<>>
      /\ chan' = [chan EXCEPT ![Peer(n)][n] = Tail(chan[Peer(n)][n])]
      /\ program' = program /\ pc' = pc /\ inbox' = inbox /\ got' = got
  BY DEF Acknowledged
<1>2. PICK i \in Nat : i = nst[n].req
  BY <1>0 DEF Types
<1>3. /\ IsRequest(n, i) /\ Req(n, i).role = "create"
      /\ number[n][i] = Req(n, i).number
  BY <1>0, <1>1, <1>2 DEF Requested
<1>4. PICK m \in Nodes, p \in Nat : m = Req(n, i).peer /\ p = Req(n, i).number
  BY <1>0, <1>3, RequestFacts
<1>5. /\ m = Peer(n) /\ m # n /\ Req(n, i).type \in {"CK", "MD", "R"}
  BY <1>0, <1>2, <1>3, <1>4, RequestFacts DEF Peer
<1>6. \/ crashed' = TRUE /\ nst' = nst
      \/ \E v :
               /\ nst' = [nst EXCEPT ![n] = v] /\ crashed' = crashed
               /\ v.at = "idle" \/ (v.at \in Busy /\ v.req = i)
               /\ \/ Req(n, i).type = "R"
                  \/ /\ Req(n, i).type = "CK" /\ v.at \in {"comm", "pair"}
                     /\ v.total = p /\ v.left = p
                  \/ Req(n, i).type = "MD" /\ v.at = "outcome" /\ v.total = p
  <2>1. CASE Req(n, i).type = "CK"
    <3>1. AskForPair(n, p, p) /\ crashed' = crashed
      BY <1>2, <1>3, <1>4, <2>1 DEF Acknowledged
    <3>2. PICK at \in {"comm", "pair"} :
              nst' = [nst EXCEPT ![n] = [at |-> at, req |-> nst[n].req, total |-> p, left |-> p]]
      BY <1>0, <1>2, <1>3, <1>5, <3>1, AskForPairFacts
    <3>3. PICK v : v = [at |-> at, req |-> nst[n].req, total |-> p, left |-> p]
      OBVIOUS
    <3>4. /\ v.at \in {"comm", "pair"} /\ v.at \in Busy
          /\ v.req = i /\ v.total = p /\ v.left = p
      BY <1>2, <3>3 DEF Busy
    <3>5. nst' = [nst EXCEPT ![n] = v]
      BY <3>2, <3>3
    <3> QED
      BY <2>1, <3>1, <3>4, <3>5, Zenon
  <2>2. CASE Req(n, i).type = "MD"
    <3>1. AskForOutcomes(n, p)
      BY <1>2, <1>3, <1>4, <2>2 DEF Acknowledged
    <3>2. \/ crashed' = TRUE /\ nst' = nst
          \/ /\ crashed' = crashed
             /\ nst' = [nst EXCEPT ![n] = [at |-> "outcome", req |-> nst[n].req,
                                           total |-> p, left |-> p]]
      BY <1>0, <1>2, <1>3, <1>5, <3>1, AskForOutcomesFacts
    <3>3. PICK v : v = [at |-> "outcome", req |-> nst[n].req, total |-> p, left |-> p]
      OBVIOUS
    <3>4. /\ v.at = "outcome" /\ v.req = i /\ v.total = p /\ v.at \in Busy
      BY <1>2, <3>3 DEF Busy
    <3> QED
      BY <2>2, <3>2, <3>3, <3>4
  <2>3. CASE Req(n, i).type = "R"
    <3>1. nst' = [nst EXCEPT ![n] = Idle] /\ Idle.at = "idle" /\ crashed' = crashed
      BY <1>2, <2>3 DEF Acknowledged, Finish, Idle
    <3> QED
      BY <2>3, <3>1
  <2> QED
    BY <1>5, <2>1, <2>2, <2>3
<1>7. Counters'
  BY <1>1, ProgramSame DEF Counters
<1>8. CASE crashed' = TRUE /\ nst' = nst
  <2>1. InTurn'
    BY <1>1, <1>8, TurnKept
  <2> QED
    BY <1>1, <1>7, <1>8, <2>1
<1>9. ASSUME NEW v, nst' = [nst EXCEPT ![n] = v],
             v.at = "idle" \/ (v.at \in Busy /\ v.req = i),
             \/ Req(n, i).type = "R"
             \/ /\ Req(n, i).type = "CK" /\ v.at \in {"comm", "pair"}
                /\ v.total = p /\ v.left = p
             \/ Req(n, i).type = "MD" /\ v.at = "outcome" /\ v.total = p
      PROVE  /\ InTurn'
             /\ program.matched /\ Meets =>
                    /\ Meets'
                    /\ \A a, b \in Nodes : Answered(a, b)' = Answered(a, b)
  <2>1. nst'[n] = v /\ \A a \in Nodes : a # n => nst'[a] = nst[a]
    BY <1>0, <1>9 DEF Types
  <2>2. InTurn'
    <3>1. \A a \in Nodes : nst'[a].at # "idle" =>
              nst[a].at # "idle" /\ nst'[a].req = nst[a].req
      BY <1>1, <1>2, <1>9, <2>1
    <3> QED
      BY <1>1, <3>1, TurnKept
  <2>3. ASSUME program.matched, Meets
        PROVE  /\ Meets'
               /\ \A a, b \in Nodes : Answered(a, b)' = Answered(a, b)
    <3>1. /\ Ahead(m, n) /\ chan[n][m] = <<>> /\ i \in Answered(n, m)
      BY <1>1, <1>2, <1>5, <2>3, AcknowledgedAnswered
    <3>2. ~Pending(n, m, i)
      BY <3>1 DEF Answered
    <3>3. \A a, b \in Nodes : \/ chan'[a][b] = <<>> <=> chan[a][b] = <<>>
                             \/ nst[a].at # "ack" \/ Req(a, nst[a].req).peer # b
      <4> SUFFICES ASSUME NEW a \in Nodes, NEW b \in Nodes,
                          nst[a].at = "ack", Req(a, nst[a].req).peer = b
                   PROVE  chan'[a][b] = <<>> <=> chan[a][b] = <<>>
        OBVIOUS
      <4>1. CASE a = m /\ b = n
        <5>1. View(m, n) = nst[m] /\ Asking(m, n)
          BY <1>0, <4>1, ViewFacts DEF Peer, Asking
        <5>2. Sent(m, n) # <<>> /\ Sent(m, n) \in Seq(Messages)
          BY <1>0, <5>1, ViewStates
        <5>3. PICK x \in Messages : chan[m][n] = <<x>> \o Sent(m, n)
          BY <3>1 DEF Ahead, AheadWith
        <5>4. Tail(chan[m][n]) = Sent(m, n)
          BY <5>2, <5>3, ShortQueue
        <5>5. chan'[m][n] = Tail(chan[m][n])
          <6> DEFINE rest == Tail(chan[m][n])
          <6>1. chan' = [chan EXCEPT ![m][n] = rest]
            BY <1>1, <1>5
          <6>2. chan \in [Nodes -> [Nodes -> Seq(Messages)]]
            BY <1>0 DEF Types
          <6> HIDE DEF rest
          <6>3. chan'[m][n] = rest
            BY <6>1, <6>2
          <6> QED
            BY <6>3 DEF rest
        <5> QED
          BY <1>1, <1>5, <4>1, <5>2, <5>4, <5>5
      <4>2. CASE ~(a = m /\ b = n)
        <5> DEFINE rest == Tail(chan[m][n])
        <5>1. chan' = [chan EXCEPT ![m][n] = rest]
          BY <1>1, <1>5
        <5>2. chan \in [Nodes -> [Nodes -> Seq(Messages)]]
          BY <1>0 DEF Types
        <5> HIDE DEF rest
        <5>3. chan'[a][b] = chan[a][b]
          BY <4>2, <5>1, <5>2
        <5> QED
          BY <5>3
      <4> QED
        BY <4>1, <4>2
    <3>4. PICK x \in Nat : x = got[n][i]
      BY <1>3 DEF Counters, IsRequest
    <3>5. ASSUME NEW j, Meet(n, i, m, j)
          PROVE  GoesRight(v, x, Asks(n, i, m, j))
      <4>1. Fares(n, i, Asks(n, i, m, j))
        BY <2>3, <3>5 DEF Meets, Progress
      <4>2. x = 0
        BY <1>1, <1>2, <3>4, <4>1 DEF Fares, Waiting
      <4>3. Asks(n, i, m, j) = Req(n, i) /\ Req(n, i).type # "R"
        BY <1>0, <1>3, <2>3, <3>5, MeetFacts DEF Asks
      <4> QED
        BY <1>4, <1>9, <4>2, <4>3 DEF GoesRight
    <3>6. Proceeds(n, m, i, v, x)
      BY <1>1, <1>2, <1>3, <1>4, <1>9, <3>1, <3>3, <3>4 DEF Proceeds
    <3> QED
      BY <1>0, <2>3, <3>5, <3>6, MovesOn
  <2> QED
    BY <2>2, <2>3
<1>10. CASE ~(crashed' = TRUE /\ nst' = nst)
  <2>1. InTurn' /\ crashed' = crashed
    BY <1>6, <1>9, <1>10
  <2>2. program.matched /\ Meets =>
            /\ Meets'
            /\ \A a, b \in Nodes : Answered(a, b)' = Answered(a, b)
    BY <1>6, <1>9, <1>10
  <2> QED
    BY <1>1, <1>7, <2>1, <2>2
<1> QED
  BY <1>8, <1>10

\* n answers j, the request of m that its own request i meets, and goes to v.
Answers(n, i, m, j, v) ==
    /\ program' = program /\ pc' = pc /\ inbox' = inbox /\ got' = got
    /\ n # m /\ Meet(n, i, m, j)
    /\ nst[n].at = "request" /\ nst[n].req = i
    /\ nst[m].at = "ack" /\ nst[m].req = j
    /\ nst' = [nst EXCEPT ![n] = v] /\ v.at \in Busy /\ v.req = i
    /\ chan[m][n] # <<>> /\ chan'[m][n] = <<>>
    /\ \A a, b \in Nodes : a # n /\ <<a, b>> # <<m, n>> => chan'[a][b] = chan[a][b]
    /\ GoesRight(v, 0, Asks(n, i, m, j))

\* From then on the handshake of the two is over, at both ends.
LEMMA AnswersBoth ==
    ASSUME Types, InTurn, Meets, NEW n \in Nodes, NEW m \in Nodes, NEW i, NEW j, NEW v,
           Answers(n, i, m, j, v)
    PROVE  /\ Meets'
           /\ i \notin Answered(n, m) /\ j \notin Answered(m, n)
           /\ Answered(n, m)' = Answered(n, m) \cup {i}
           /\ Answered(m, n)' = Answered(m, n) \cup {j}
           /\ \A a, b \in Nodes : {a, b} # {n, m} => Answered(a, b)' = Answered(a, b)
<1>0. /\ program' = program /\ pc' = pc /\ inbox' = inbox /\ got' = got
      /\ n # m /\ i \in Links(n, m) /\ j \in Links(m, n) /\ Place(n, i) = Place(m, j)
      /\ nst[n].at = "request" /\ nst[n].req = i
      /\ nst[m].at = "ack" /\ nst[m].req = j
      /\ nst' = [nst EXCEPT ![n] = v] /\ v.at \in Busy /\ v.req = i
      /\ chan[m][n] # <<>> /\ chan'[m][n] = <<>>
      /\ \A a, b \in Nodes : a # n /\ <<a, b>> # <<m, n>> => chan'[a][b] = chan[a][b]
  BY DEF Answers, Meet
<1>1. /\ nst'[n] = v /\ \A a \in Nodes : a # n => nst'[a] = nst[a]
      /\ v.at # "ack" /\ v.at # "request" /\ v.at # "idle"
  BY <1>0 DEF Types, Busy
<1>2. \A a, k : Queued(a, k)' <=> Queued(a, k)
  BY <1>0 DEF Queued
<1>3. /\ IsRequest(n, i) /\ Req(n, i).peer = m /\ i \in Nat
      /\ IsRequest(m, j) /\ Req(m, j).peer = n /\ j \in Nat
  BY <1>0, LinkFacts
<1>4. ~Queued(n, i) /\ ~Queued(m, j)
  <2>1. /\ Queued(n, i) <=> i > i
        /\ Queued(m, j) <=> j > j
    BY <1>0, <1>3 DEF InTurn
  <2> QED
    BY <1>3, <2>1
<1>5. /\ Pending(n, m, i) /\ ~Pending(n, m, i)'
      /\ Pending(m, n, j) /\ ~Pending(m, n, j)'
  <2>1. ~Pending(n, m, i)'
    BY <1>1, <1>2, <1>4, Zenon DEF Pending
  <2>2. ~Pending(m, n, j)'
    <3>1. nst'[m].at = "ack"
      BY <1>0, <1>1
    <3> QED
      BY <1>0, <1>2, <1>4, <3>1 DEF Pending
  <2>3. Pending(n, m, i) /\ Pending(m, n, j)
    BY <1>0 DEF Pending
  <2> QED
    BY <2>1, <2>2, <2>3
<1>6. ASSUME NEW a \in Nodes, NEW b \in Nodes, NEW k \in Links(a, b),
             <<a, k>> # <<n, i>>, <<a, k>> # <<m, j>>
      PROVE  Pending(a, b, k)' <=> Pending(a, b, k)
  <2>1. CASE a = n \/ a = m
    <3>1. nst[a].req # k /\ nst'[a].req # k
      BY <1>0, <1>1, <1>6, <2>1
    <3>2. /\ Pending(a, b, k) <=> Queued(a, k)
          /\ Pending(a, b, k)' <=> Queued(a, k)'
      BY <3>1, Zenon DEF Pending
    <3> QED
      BY <1>2, <3>2
  <2>2. CASE a # n /\ a # m
    <3>1. nst'[a] = nst[a] /\ chan'[a][b] = chan[a][b]
      BY <1>0, <1>1, <2>2
    <3> QED
      BY <1>2, <3>1 DEF Pending
  <2> QED
    BY <2>1, <2>2
<1>7. /\ i \notin Answered(n, m) /\ j \notin Answered(m, n)
      /\ Answered(n, m)' = Answered(n, m) \cup {i}
      /\ Answered(m, n)' = Answered(m, n) \cup {j}
      /\ \A a, b \in Nodes : {a, b} # {n, m} => Answered(a, b)' = Answered(a, b)
  <2>1. \A a, b \in Nodes : Answered(a, b)' = {k \in Links(a, b) : ~Pending(a, b, k)'}
    BY <1>0, ProgramSame DEF Answered
  <2>2. i \notin Answered(n, m) /\ j \notin Answered(m, n)
    BY <1>5 DEF Answered
  <2>3. Answered(n, m)' = Answered(n, m) \cup {i}
    <3>1. \A k \in Links(n, m) : k # i => (Pending(n, m, k)' <=> Pending(n, m, k))
      BY <1>0, <1>6
    <3> QED
      BY <1>0, <1>5, <2>1, <3>1 DEF Answered
  <2>4. Answered(m, n)' = Answered(m, n) \cup {j}
    <3>1. \A k \in Links(m, n) : k # j => (Pending(m, n, k)' <=> Pending(m, n, k))
      BY <1>0, <1>6
    <3> QED
      BY <1>0, <1>5, <2>1, <3>1 DEF Answered
  <2>5. ASSUME NEW a \in Nodes, NEW b \in Nodes, {a, b} # {n, m}
        PROVE  Answered(a, b)' = Answered(a, b)
    <3>1. ASSUME NEW k \in Links(a, b)
          PROVE  Pending(a, b, k)' <=> Pending(a, b, k)
      <4>1. <<a, k>> # <<n, i>> /\ <<a, k>> # <<m, j>>
        BY <1>3, <2>5, <3>1, LinkFacts
      <4> QED
        BY <1>6, <4>1
    <3> QED
      BY <2>1, <3>1 DEF Answered
  <2> QED
    BY <2>2, <2>3, <2>4, <2>5
<1>8. Partnered'
  <2> SUFFICES ASSUME NEW a \in Nodes, NEW b \in Nodes, NEW k \in Answered(a, b)'
               PROVE  \E l \in Answered(b, a)' : Place(a, k) = Place(b, l)
    BY <1>0, ProgramSame DEF Partnered
  <2>1. CASE k \in Answered(a, b)
    <3>1. PICK l \in Answered(b, a) : Place(a, k) = Place(b, l)
      BY <2>1 DEF Meets, Partnered
    <3>2. l \in Answered(b, a)'
      <4>1. CASE {a, b} # {n, m}
        BY <1>7, <4>1
      <4>2. CASE {a, b} = {n, m}
        <5>1. (a = n /\ b = m) \/ (a = m /\ b = n)
          BY <4>2
        <5> QED
          BY <1>7, <5>1
      <4> QED
        BY <4>1, <4>2
    <3> QED
      BY <3>1, <3>2
  <2>2. CASE k \notin Answered(a, b)
    <3>1. (a = n /\ b = m /\ k = i) \/ (a = m /\ b = n /\ k = j)
      <4>1. {a, b} = {n, m}
        BY <1>7, <2>2
      <4>2. (a = n /\ b = m) \/ (a = m /\ b = n)
        BY <4>1
      <4> QED
        BY <1>7, <2>2, <4>2
    <3> QED
      BY <1>0, <1>7, <3>1
  <2> QED
    BY <2>1, <2>2
<1>9. Counted'
  <2>1. /\ IsFiniteSet(Answered(n, m)) /\ IsFiniteSet(Answered(m, n))
        /\ Cardinality(Answered(n, m)) = Cardinality(Answered(m, n))
    BY AnsweredPlaces DEF Meets, Counted
  <2>2. Cardinality(Answered(n, m)') = Cardinality(Answered(m, n)')
    <3>1. /\ Cardinality(Answered(n, m) \cup {i}) = Cardinality(Answered(n, m)) + 1
          /\ Cardinality(Answered(m, n) \cup {j}) = Cardinality(Answered(m, n)) + 1
      BY <1>7, <2>1, FS_AddElement
    <3> QED
      BY <1>7, <2>1, <3>1
  <2> SUFFICES ASSUME NEW a \in Nodes, NEW b \in Nodes
               PROVE  Cardinality(Answered(a, b)') = Cardinality(Answered(b, a)')
    BY DEF Counted
  <2>3. CASE {a, b} = {n, m}
    <3>1. (a = n /\ b = m) \/ (a = m /\ b = n)
      BY <2>3
    <3> QED
      BY <2>2, <3>1
  <2>4. CASE {a, b} # {n, m}
    <3>1. Answered(a, b)' = Answered(a, b) /\ Answered(b, a)' = Answered(b, a)
      BY <1>7, <2>4
    <3> QED
      BY <3>1 DEF Meets, Counted
  <2> QED
    BY <2>3, <2>4
<1>10. Progress'
  <2> SUFFICES ASSUME NEW a \in Nodes, NEW b \in Nodes, NEW k, NEW l, Meet(a, k, b, l)
               PROVE  Fares(a, k, Asks(a, k, b, l))'
    BY <1>0, ProgramSame DEF Progress
  <2>1. k \in Links(a, b) /\ IsRequest(a, k) /\ Req(a, k).peer = b
    BY LinkFacts DEF Meet
  <2>2. PICK ask : ask = Asks(a, k, b, l) /\ ask = Asks(a, k, b, l)'
    BY <1>0, ProgramSame
  <2>3. Fares(a, k, ask)
    BY <2>2 DEF Meets, Progress
  <2>4. CASE a = n /\ k = i
    <3>1. l = j /\ b = m
      <4>1. b = m
        BY <1>3, <2>1, <2>4
      <4>2. l \in Links(m, n) /\ Place(n, i) = Place(m, l)
        BY <2>4, <4>1 DEF Meet
      <4>3. Place(m, l) = Place(m, j) => l = j
        BY <1>0, <4>2, PlaceOrder, ZenonT(40)
      <4> QED
        BY <1>0, <4>1, <4>2, <4>3
    <3>2. GoesRight(v, 0, ask)
      BY <2>2, <2>4, <3>1 DEF Answers
    <3>3. got[n][i] = 0
      BY <1>0, <2>3, <2>4 DEF Fares, Waiting
    <3>4. ~Waiting(n, i)' /\ Working(n, i)'
      BY <1>0, <1>1, <1>2, <1>4 DEF Waiting, Working
    <3>5. /\ nst'[n].total = ask.number
          /\ \/ /\ ask.type = "CK" /\ nst'[n].at # "outcome"
                /\ got'[n][i] + nst'[n].left = ask.number
             \/ /\ ask.type = "MD" /\ nst'[n].at = "outcome"
                /\ got'[n][i] = 0
      BY <1>0, <1>1, <3>2, <3>3 DEF GoesRight
    <3> QED
      BY <2>2, <2>4, <3>4, <3>5 DEF Fares
  <2>5. CASE ~(a = n /\ k = i)
    <3>1. /\ Waiting(a, k)' <=> Waiting(a, k)
          /\ Working(a, k)' <=> Working(a, k)
          /\ Working(a, k) => nst'[a] = nst[a]
      <4>1. CASE a # n
        <5>1. nst'[a] = nst[a]
          BY <1>1, <4>1
        <5> QED
          BY <1>2, <5>1 DEF Waiting, Working
      <4>2. CASE a = n
        <5>1. k # i
          BY <2>5, <4>2
        <5>2. /\ Waiting(n, k) <=> Queued(n, k)
              /\ ~Working(n, k) /\ ~Working(n, k)'
          BY <1>0, <1>1, <5>1 DEF Waiting, Working
        <5>3. Waiting(n, k)' <=> Queued(n, k)'
          BY <1>0, <1>1, <5>1, Zenon DEF Waiting
        <5> QED
          BY <1>2, <4>2, <5>2, <5>3
      <4> QED
        BY <4>1, <4>2
    <3> QED
      BY <1>0, <2>2, <2>3, <3>1, SameFares DEF Fares
  <2> QED
    BY <2>4, <2>5
<1> QED
  BY <1>7, <1>8, <1>9, <1>10 DEF Meets

\* The receiver answers a creator, and begins with its session.
LEMMA RequestReceivedMeets ==
    ASSUME IInv, ~crashed, Counters, InTurn, NEW n \in Nodes, RequestReceived(n)
    PROVE  /\ Counters' /\ InTurn' /\ got' = got /\ program' = program
           /\ crashed' => nst' = nst
           /\ program.matched /\ ~crashed' /\ Meets =>
                  \E m \in Nodes : \E i, j, v : Answers(n, i, m, j, v)
<1>0. Types /\ Requested /\ InPhase
  BY DEF IInv
<1>1. /\ nst[n].at = "request" /\ chan[Peer(n)][n] # <<>>
      /\ chan' = [chan EXCEPT ![Peer(n)][n] = Tail(@),
                              ![n][Peer(n)] = Append(@, Ready)]
      /\ program' = program /\ pc' = pc /\ inbox' = inbox /\ got' = got
  BY DEF RequestReceived, Ready
<1>2. PICK i \in Nat : i = nst[n].req
  BY <1>0 DEF Types
<1>3. IsRequest(n, i) /\ Req(n, i).role = "recv"
  BY <1>0, <1>1, <1>2 DEF Requested
<1>4. PICK m \in Nodes : m = Req(n, i).peer
  BY <1>0, <1>3, RequestFacts
<1>5. m # n /\ m = Peer(n)
  BY <1>0, <1>2, <1>3, <1>4, RequestFacts DEF Peer
<1>6. View(n, m).at = "request" /\ Synchronised(n, m) /\ chan[m][n] # <<>>
  BY <1>0, <1>1, <1>5, ViewFacts DEF InPhase
<1>7. PICK j \in Nat : j = nst[m].req
  BY <1>0 DEF Types
<1>8. /\ View(m, n).at = "ack" /\ nst[m].at = "ack" /\ View(m, n) = nst[m]
      /\ chan[m][n] = <<[kind |-> "request", of |-> m, req |-> j]>>
      /\ chan[n][m] = <<>>
  BY <1>0, <1>5, <1>6, <1>7, RequestBefore
<1>9. /\ IsRequest(m, j) /\ Req(m, j).role = "create" /\ Req(m, j).peer = n
      /\ number[m][j] = Req(m, j).number
  BY <1>0, <1>7, <1>8, ViewFacts DEF Requested, Peer
<1>10. PICK p \in Nat : p = Req(m, j).number
  BY <1>0, <1>9, RequestFacts
<1>11. PICK msg : msg = Head(chan[m][n]) /\ msg.kind = "request" /\ msg.of = m /\ msg.req = j
  BY <1>8
<1>12. \/ Req(m, j).type = "CK" /\ AskForPair(n, p, p) /\ crashed' = crashed
       \/ Req(m, j).type = "MD" /\ AskForOutcomes(n, p)
       \/ Req(m, j).type \notin {"CK", "MD"} /\ Finish(n) /\ crashed' = crashed
  BY <1>5, <1>9, <1>10, <1>11 DEF RequestReceived
<1>13. \/ crashed' = TRUE /\ nst' = nst
       \/ \E v :
               /\ nst' = [nst EXCEPT ![n] = v] /\ crashed' = crashed
               /\ v.at = "idle" \/ (v.at \in Busy /\ v.req = i)
               /\ \/ Req(m, j).type \notin {"CK", "MD"}
                  \/ /\ Req(m, j).type = "CK" /\ v.at \in {"comm", "pair"}
                     /\ v.at \in Busy /\ v.total = p /\ v.left = p
                  \/ Req(m, j).type = "MD" /\ v.at = "outcome" /\ v.at \in Busy /\ v.total = p
  <2>1. CASE Req(m, j).type = "CK" /\ AskForPair(n, p, p) /\ crashed' = crashed
    <3>1. PICK at \in {"comm", "pair"} :
              nst' = [nst EXCEPT ![n] = [at |-> at, req |-> nst[n].req, total |-> p, left |-> p]]
      BY <1>0, <1>2, <1>3, <1>5, <2>1, AskForPairFacts
    <3>2. PICK v : v = [at |-> at, req |-> nst[n].req, total |-> p, left |-> p]
      OBVIOUS
    <3>3. /\ v.at \in {"comm", "pair"} /\ v.at \in Busy
          /\ v.req = i /\ v.total = p /\ v.left = p
      BY <1>2, <3>2 DEF Busy
    <3>4. nst' = [nst EXCEPT ![n] = v]
      BY <3>1, <3>2
    <3> QED
      BY <2>1, <3>3, <3>4, Zenon
  <2>2. CASE Req(m, j).type = "MD" /\ AskForOutcomes(n, p)
    <3>1. \/ crashed' = TRUE /\ nst' = nst
          \/ /\ crashed' = crashed
             /\ nst' = [nst EXCEPT ![n] = [at |-> "outcome", req |-> nst[n].req,
                                           total |-> p, left |-> p]]
      BY <1>0, <1>2, <1>3, <1>5, <2>2, AskForOutcomesFacts
    <3>2. PICK v : v = [at |-> "outcome", req |-> nst[n].req, total |-> p, left |-> p]
      OBVIOUS
    <3>3. /\ v.at = "outcome" /\ v.req = i /\ v.total = p /\ v.at \in Busy
      BY <1>2, <3>2 DEF Busy
    <3> QED
      BY <2>2, <3>1, <3>2, <3>3
  <2>3. CASE Req(m, j).type \notin {"CK", "MD"} /\ Finish(n) /\ crashed' = crashed
    <3>1. nst' = [nst EXCEPT ![n] = Idle] /\ Idle.at = "idle" /\ crashed' = crashed
      BY <2>3 DEF Finish, Idle
    <3> QED
      BY <2>3, <3>1
  <2> QED
    BY <1>12, <2>1, <2>2, <2>3
<1>14. Counters'
  BY <1>1, ProgramSame DEF Counters
<1>15. \A v : nst' = [nst EXCEPT ![n] = v] =>
           /\ nst'[n] = v
           /\ \A a \in Nodes : a # n => nst'[a] = nst[a]
  BY <1>0 DEF Types
<1>16. InTurn'
  <2>1. \A a \in Nodes : nst'[a].at # "idle" =>
            nst[a].at # "idle" /\ nst'[a].req = nst[a].req
    BY <1>1, <1>2, <1>13, <1>15
  <2> QED
    BY <1>1, <2>1, TurnKept
<1>17. crashed' => nst' = nst
  BY <1>13
<1>18. ASSUME program.matched, ~crashed', Meets
       PROVE  \E a \in Nodes : \E x, y, v : Answers(n, x, a, y, v)
  <2>1. /\ i \in Links(n, m) /\ j \in Links(m, n)
        /\ i \notin Answered(n, m) /\ j \notin Answered(m, n)
    BY <1>0, <1>1, <1>2, <1>3, <1>4, <1>6, <1>7, <1>8, <1>9, LinkFacts DEF Answered, Pending
  <2>2. Meet(n, i, m, j)
    BY <1>0, <1>1, <1>2, <1>7, <1>8, <1>18, <2>1, NextMeet DEF Meets
  <2>3. Asks(n, i, m, j) = Req(m, j) /\ Req(m, j).type \in {"CK", "MD"}
    BY <1>0, <1>3, <1>18, <2>2, MeetFacts DEF Asks
  <2>4. PICK v :
              /\ nst' = [nst EXCEPT ![n] = v] /\ v.at \in Busy /\ v.req = i
              /\ v.total = p
              /\ \/ /\ Req(m, j).type = "CK" /\ v.at \in {"comm", "pair"}
                    /\ v.left = p
                 \/ Req(m, j).type = "MD" /\ v.at = "outcome"
    BY <1>13, <1>18, <2>3 DEF Busy
  <2>5. GoesRight(v, 0, Asks(n, i, m, j))
    BY <1>10, <2>3, <2>4 DEF GoesRight
  <2>6. /\ chan'[m][n] = <<>>
        /\ \A a, b \in Nodes : a # n /\ <<a, b>> # <<m, n>> => chan'[a][b] = chan[a][b]
    <3> DEFINE in == Tail(chan[m][n])
               half == [chan EXCEPT ![m][n] = in]
               out == Append(half[n][m], Ready)
    <3>1. chan \in [Nodes -> [Nodes -> Seq(Messages)]]
      BY <1>0 DEF Types
    <3>2. in = <<>>
      BY <1>8
    <3>3. chan' = [half EXCEPT ![n][m] = out]
      BY <1>1, <1>5
    <3> HIDE DEF in, out
    <3>4. /\ half[m][n] = in /\ half \in [Nodes -> [Nodes -> Seq(Messages)]]
          /\ \A a, b \in Nodes : <<a, b>> # <<m, n>> => half[a][b] = chan[a][b]
      <4>1. in \in Seq(Messages)
        BY <3>2
      <4> QED
        BY <3>1, <4>1
    <3> HIDE DEF half
    <3>5. \A a, b \in Nodes : a # n => chan'[a][b] = half[a][b]
      BY <3>3, <3>4
    <3> QED
      BY <1>5, <3>2, <3>4, <3>5
  <2>7. Answers(n, i, m, j, v)
    BY <1>1, <1>2, <1>5, <1>6, <1>7, <1>8, <2>2, <2>4, <2>5, <2>6 DEF Answers
  <2> QED
    BY <2>7
<1> QED
  BY <1>1, <1>14, <1>16, <1>17, <1>18

\* The request that a network stack works on has been answered.
LEMMA BusyAnswered ==
    ASSUME Types, Requested, InTurn, NEW n \in Nodes, nst[n].at \in Busy,
           NEW i, i = nst[n].req
    PROVE  \E m \in Nodes :
               /\ m = Peer(n) /\ m # n /\ IsRequest(n, i) /\ Req(n, i).peer = m
               /\ i \in Links(n, m) /\ i \in Answered(n, m)
               /\ ~Waiting(n, i) /\ Working(n, i)
<1>1. nst[n].at # "idle" /\ nst[n].at # "ack" /\ nst[n].at # "request"
  BY DEF Busy
<1>2. IsRequest(n, i)
  BY <1>1 DEF Requested
<1>3. PICK m \in Nodes : m = Req(n, i).peer /\ m = Peer(n) /\ m # n
  BY <1>2, RequestFacts DEF Peer
<1>4. i \in Links(n, m) /\ i \in Nat
  BY <1>2, <1>3, LinkFacts
<1>5. ~Queued(n, i)
  <2>1. Queued(n, i) <=> i > i
    BY <1>1, <1>2 DEF InTurn
  <2> QED
    BY <1>4, <2>1
<1>6. ~Waiting(n, i) /\ Working(n, i) /\ ~Pending(n, m, i)
  BY <1>1, <1>5, Zenon DEF Waiting, Working, Pending
<1> QED
  BY <1>2, <1>3, <1>4, <1>6 DEF Answered

\* A communication qubit is free: the session goes on.
LEMMA MemoryFreedMeets ==
    ASSUME IInv, Counters, InTurn, NEW n \in Nodes, MemoryFreed(n)
    PROVE  /\ Counters' /\ InTurn' /\ got' = got /\ program' = program
           /\ Meets =>
                  /\ Meets'
                  /\ \A a, b \in Nodes : Answered(a, b)' = Answered(a, b)
<1>0. Types /\ Requested
  BY DEF IInv
<1>1. program' = program /\ pc' = pc /\ inbox' = inbox /\ got' = got /\ chan' = chan
  BY DEF MemoryFreed
<1>2. Counters'
  BY <1>1, ProgramSame DEF Counters
<1>3. CASE nst[n].at # "comm"
  <2>1. nst' = nst
    BY <1>3 DEF MemoryFreed
  <2>2. InTurn' /\ \A a, k : Queued(a, k)' <=> Queued(a, k)
    BY <1>1, <2>1, TurnKept
  <2> QED
    BY <1>0, <1>1, <1>2, <2>1, <2>2, AllSame
<1>4. CASE nst[n].at = "comm"
  <2>1. PICK i \in Nat, t \in Nat, k \in Nat :
            i = nst[n].req /\ t = nst[n].total /\ k = nst[n].left
    BY <1>0 DEF Types
  <2>2. PICK m \in Nodes :
            /\ m = Peer(n) /\ m # n /\ IsRequest(n, i) /\ Req(n, i).peer = m
            /\ i \in Links(n, m) /\ i \in Answered(n, m)
            /\ ~Waiting(n, i) /\ Working(n, i)
    BY <1>0, <1>4, <2>1, BusyAnswered DEF Busy
  <2>3. AskForPair(n, t, k) /\ Req(n, nst[n].req).role \in {"create", "recv"}
    BY <1>0, <1>4, <2>1, <2>2, RequestFacts DEF MemoryFreed
  <2>4. PICK at \in {"comm", "pair"} :
            nst' = [nst EXCEPT ![n] = [at |-> at, req |-> nst[n].req, total |-> t, left |-> k]]
    BY <1>0, <2>2, <2>3, AskForPairFacts
  <2>5. PICK v : v = [at |-> at, req |-> i, total |-> t, left |-> k]
    OBVIOUS
  <2>6. /\ v.at \in {"comm", "pair"} /\ v.at \in Busy /\ v.req = i /\ v.total = t /\ v.left = k
        /\ nst' = [nst EXCEPT ![n] = v]
    BY <2>1, <2>4, <2>5 DEF Busy
  <2>7. InTurn'
    <3>1. nst'[n] = v /\ \A a \in Nodes : a # n => nst'[a] = nst[a]
      BY <1>0, <2>6 DEF Types
    <3>2. \A a \in Nodes : nst'[a].at # "idle" =>
              nst[a].at # "idle" /\ nst'[a].req = nst[a].req
      BY <1>4, <2>1, <2>6, <3>1
    <3> QED
      BY <1>1, <3>2, TurnKept
  <2>8. ASSUME Meets
        PROVE  /\ Meets'
               /\ \A a, b \in Nodes : Answered(a, b)' = Answered(a, b)
    <3>1. PICK x \in Nat : x = got[n][i]
      BY <2>2 DEF Counters, IsRequest
    <3>2. ASSUME NEW j, Meet(n, i, m, j)
          PROVE  GoesRight(v, x, Asks(n, i, m, j))
      <4>1. Fares(n, i, Asks(n, i, m, j))
        BY <2>8, <3>2 DEF Meets, Progress
      <4> QED
        BY <1>4, <2>1, <2>2, <2>6, <3>1, <4>1 DEF Fares, GoesRight
    <3>3. Proceeds(n, m, i, v, x)
      BY <1>1, <1>4, <2>1, <2>2, <2>6, <3>1 DEF Proceeds
    <3> QED
      BY <1>0, <2>8, <3>2, <3>3, MovesOn
  <2> QED
    BY <1>1, <1>2, <2>7, <2>8
<1> QED
  BY <1>3, <1>4

\* What becomes of n's network stack and its request when a pair is signalled:
\* it gets the pair, and goes on with the next or is done.
LEMMA ResultGot ==
    ASSUME IInv, NEW w \in making, NEW n \in w.todo, EgpResult(w, n),
           NEW i, i = nst[n].req
    PROVE  /\ n \in Nodes /\ nst[n].at \in Busy
           /\ program' = program /\ pc' = pc /\ inbox' = inbox /\ chan' = chan
           /\ crashed' = crashed
           /\ \E v : /\ nst' = [nst EXCEPT ![n] = v]
                     /\ v.at = "idle" \/ (v.at \in Busy /\ v.req = i)
                     /\ \/ /\ w.type = "CK" /\ nst[n].at = "pair"
                           /\ got' = [got EXCEPT ![n][i] = got[n][i] + 1]
                           /\ \/ v.at = "idle" /\ nst[n].left = 1
                              \/ /\ v.at \in {"comm", "pair"} /\ v.total = nst[n].total
                                 /\ v.left = nst[n].left - 1
                        \/ /\ w.type = "MD" /\ nst[n].at = "outcome"
                           /\ \/ /\ v.at = "idle"
                                 /\ got' = [got EXCEPT ![n][i] = nst[n].total]
                              \/ /\ v.at = "outcome" /\ v.total = nst[n].total
                                 /\ v.left = nst[n].left - 1
                                 /\ got' = got
<1>0. Types /\ Requested /\ BetweenNodes /\ ResultAwaited
  BY DEF IInv
<1>1. /\ program' = program /\ pc' = pc /\ inbox' = inbox /\ chan' = chan
      /\ crashed' = crashed
  BY DEF EgpResult
<1>2. n \in Nodes /\ w.type \in {"CK", "MD"}
  BY <1>0 DEF BetweenNodes, Work
<1>3. nst[n].at = Awaiting(w.type) /\ nst[n].at \in Busy
  BY <1>0, <1>2 DEF ResultAwaited, Awaiting, Busy
<1>4. PICK t \in Nat, k \in Nat : t = nst[n].total /\ k = nst[n].left /\ k > 0
  BY <1>0, <1>2, <1>3 DEF Types, Requested
<1>5. IsRequest(n, i) /\ i \in Nat
  BY <1>0, <1>2, <1>3, RequestFacts DEF Requested, Busy
<1>6. PICK m \in Nodes : m = Peer(n)
  BY <1>0, <1>2, <1>5, RequestFacts DEF Peer
<1>7. PICK z : z = Idle /\ z.at = "idle"
  <2>1. Idle.at = "idle"
    BY DEF Idle
  <2> QED
    BY <2>1
<1>8. CASE w.type = "CK" /\ PairResult(n)
  <2>1. nst[n].at = "pair" /\ got' = [got EXCEPT ![n][i] = got[n][i] + 1]
    BY <1>8 DEF PairResult
  <2>2. CASE k > 1
    <3>1. AskForPair(n, t, k - 1) /\ k - 1 \in Nat
      BY <1>4, <1>8, <2>2 DEF PairResult
    <3>2. Req(n, nst[n].req).role \in {"create", "recv"}
      BY <1>0, <1>2, <1>5, RequestFacts
    <3>3. PICK at \in {"comm", "pair"} :
              nst' = [nst EXCEPT ![n] = [at |-> at, req |-> nst[n].req, total |-> t,
                                         left |-> k - 1]]
      BY <1>0, <1>2, <1>6, <3>1, <3>2, AskForPairFacts
    <3>4. PICK v : v = [at |-> at, req |-> i, total |-> t, left |-> k - 1]
      OBVIOUS
    <3>5. /\ v.at \in {"comm", "pair"} /\ v.at \in Busy /\ v.req = i
          /\ v.total = nst[n].total /\ v.left = nst[n].left - 1
          /\ nst' = [nst EXCEPT ![n] = v]
      BY <1>4, <3>3, <3>4 DEF Busy
    <3> QED
      BY <1>1, <1>2, <1>3, <1>8, <2>1, <3>5, Zenon
  <2>3. CASE ~(k > 1)
    <3>1. nst' = [nst EXCEPT ![n] = z] /\ nst[n].left = 1
      BY <1>4, <1>7, <1>8, <2>3 DEF PairResult, Finish
    <3> QED
      BY <1>1, <1>2, <1>3, <1>7, <1>8, <2>1, <3>1, Zenon
  <2> QED
    BY <2>2, <2>3
<1>9. CASE w.type = "MD" /\ OutcomeResult(n)
  <2>1. nst[n].at = "outcome"
    BY <1>9 DEF OutcomeResult
  <2>2. CASE k > 1
    <3>1. /\ got' = got
          /\ nst' = [nst EXCEPT ![n] =
                       [nst[n] EXCEPT !.at = "outcome", !.total = t, !.left = k - 1]]
      BY <1>4, <1>9, <2>2 DEF OutcomeResult, Await
    <3>2. PICK v : v = [nst[n] EXCEPT !.at = "outcome", !.total = t, !.left = k - 1]
      OBVIOUS
    <3>3. nst[n] \in [at : States, req : Nat, total : Nat, left : Nat]
      BY <1>0, <1>2 DEF Types
    <3>4. /\ v.at = "outcome" /\ v.at \in Busy /\ v.req = i
          /\ v.total = nst[n].total /\ v.left = nst[n].left - 1
          /\ nst' = [nst EXCEPT ![n] = v]
      BY <1>4, <3>1, <3>2, <3>3 DEF Busy
    <3> QED
      BY <1>1, <1>2, <1>3, <1>9, <2>1, <3>1, <3>4, Zenon
  <2>3. CASE ~(k > 1)
    <3>1. /\ nst' = [nst EXCEPT ![n] = z]
          /\ got' = [got EXCEPT ![n][i] = nst[n].total]
      BY <1>4, <1>7, <1>9, <2>3 DEF OutcomeResult, Finish
    <3> QED
      BY <1>1, <1>2, <1>3, <1>7, <1>9, <2>1, <3>1, Zenon
  <2> QED
    BY <2>2, <2>3
<1> QED
  BY <1>8, <1>9 DEF EgpResult

\* A pair is signalled: the request has one more, or all its outcomes.
LEMMA EgpResultMeets ==
    ASSUME IInv, Counters, InTurn, NEW w \in making, NEW n \in w.todo, EgpResult(w, n)
    PROVE  /\ Counters' /\ InTurn' /\ program' = program
           /\ Meets =>
                  /\ Meets'
                  /\ \A a, b \in Nodes : Answered(a, b)' = Answered(a, b)
<1>0. Types /\ Requested
  BY DEF IInv
<1>1. PICK i : i = nst[n].req
  OBVIOUS
<1>2. /\ n \in Nodes /\ nst[n].at \in Busy
      /\ program' = program /\ pc' = pc /\ inbox' = inbox /\ chan' = chan
  BY <1>1, ResultGot
<1>3. PICK t \in Nat, k \in Nat : t = nst[n].total /\ k = nst[n].left
  BY <1>0, <1>2 DEF Types
<1>4. PICK m \in Nodes :
          /\ m = Peer(n) /\ m # n /\ IsRequest(n, i) /\ Req(n, i).peer = m
          /\ i \in Links(n, m) /\ i \in Answered(n, m)
          /\ ~Waiting(n, i) /\ Working(n, i)
  BY <1>0, <1>1, <1>2, BusyAnswered
<1>5. PICK g \in Nat : g = got[n][i]
  BY <1>2, <1>4 DEF Counters, IsRequest
<1>6. PICK v : /\ nst' = [nst EXCEPT ![n] = v]
               /\ v.at = "idle" \/ (v.at \in Busy /\ v.req = i)
               /\ \/ /\ w.type = "CK" /\ nst[n].at = "pair"
                     /\ got' = [got EXCEPT ![n][i] = g + 1]
                     /\ \/ v.at = "idle" /\ k = 1
                        \/ v.at \in {"comm", "pair"} /\ v.total = t /\ v.left = k - 1
                  \/ /\ w.type = "MD" /\ nst[n].at = "outcome"
                     /\ \/ v.at = "idle" /\ got' = [got EXCEPT ![n][i] = t]
                        \/ /\ v.at = "outcome" /\ v.total = t /\ v.left = k - 1
                           /\ got' = got
  BY <1>1, <1>3, <1>5, ResultGot
<1>7. InTurn'
  <2>1. nst'[n] = v /\ \A a \in Nodes : a # n => nst'[a] = nst[a]
    BY <1>0, <1>2, <1>6 DEF Types
  <2>2. \A a \in Nodes : nst'[a].at # "idle" =>
            nst[a].at # "idle" /\ nst'[a].req = nst[a].req
    BY <1>1, <1>2, <1>6, <2>1 DEF Busy
  <2> QED
    BY <1>2, <2>2, TurnKept
<1>8. PICK x \in Nat :
          /\ Counters' /\ got'[n][i] = x
          /\ \A a \in DOMAIN Code(n) : a # i => got'[n][a] = got[n][a]
          /\ \A a \in Nodes : a # n => got'[a] = got[a]
          /\ \/ x = g + 1 /\ nst[n].at = "pair"
             \/ x = t /\ v.at = "idle" /\ nst[n].at = "outcome"
             \/ x = g /\ v.at = "outcome" /\ nst[n].at = "outcome"
  <2>1. i \in DOMAIN Code(n)
    BY <1>4 DEF IsRequest
  <2>2. CASE got' = got /\ v.at = "outcome" /\ nst[n].at = "outcome"
    <3>1. Counters'
      BY <1>2, <2>2, ProgramSame DEF Counters
    <3> QED
      BY <1>5, <2>2, <3>1
  <2>3. ASSUME NEW y \in Nat, got' = [got EXCEPT ![n][i] = y]
        PROVE  /\ Counters' /\ got'[n][i] = y
               /\ \A a \in DOMAIN Code(n) : a # i => got'[n][a] = got[n][a]
               /\ \A a \in Nodes : a # n => got'[a] = got[a]
    <3>1. PICK h : h = [got EXCEPT ![n][i] = y]
      OBVIOUS
    <3> QED
      BY <1>0, <1>2, <2>1, <2>3, <3>1, CountersKept
  <2>4. CASE got' = [got EXCEPT ![n][i] = g + 1] /\ nst[n].at = "pair"
    <3>1. PICK y \in Nat : y = g + 1
      BY <1>5
    <3> QED
      BY <2>3, <2>4, <3>1
  <2>5. CASE got' = [got EXCEPT ![n][i] = t] /\ v.at = "idle" /\ nst[n].at = "outcome"
    BY <2>3, <2>5
  <2> QED
    BY <1>6, <2>2, <2>4, <2>5
<1>9. ASSUME Meets
      PROVE  /\ Meets'
             /\ \A a, b \in Nodes : Answered(a, b)' = Answered(a, b)
  <2>1. ASSUME NEW j, Meet(n, i, m, j)
        PROVE  GoesRight(v, x, Asks(n, i, m, j))
    <3>1. PICK ask : ask = Asks(n, i, m, j)
      OBVIOUS
    <3>2. Fares(n, i, ask)
      BY <1>2, <1>9, <2>1, <3>1 DEF Meets, Progress
    <3>3. /\ t = ask.number
          /\ \/ ask.type = "CK" /\ nst[n].at # "outcome" /\ g + k = ask.number
             \/ ask.type = "MD" /\ nst[n].at = "outcome" /\ g = 0
      BY <1>3, <1>4, <1>5, <3>2 DEF Fares
    <3>4. CASE nst[n].at = "pair"
      <4>1. ask.type = "CK" /\ g + k = ask.number /\ x = g + 1
        BY <1>8, <3>3, <3>4
      <4>2. \/ v.at = "idle" /\ k = 1
            \/ v.at \in {"comm", "pair"} /\ v.total = t /\ v.left = k - 1
        BY <1>6, <3>4
      <4>3. (g + 1) + (k - 1) = g + k
        BY <1>3, <1>5
      <4> QED
        BY <3>1, <3>3, <4>1, <4>2, <4>3 DEF GoesRight
    <3>5. CASE nst[n].at = "outcome"
      <4>1. v.at = "idle" \/ (v.at = "outcome" /\ v.total = t)
        BY <1>6, <3>5
      <4> QED
        BY <1>8, <3>1, <3>3, <3>5, <4>1 DEF GoesRight
    <3> QED
      BY <1>8, <3>4, <3>5
  <2>2. Proceeds(n, m, i, v, x)
    BY <1>1, <1>2, <1>4, <1>6, <1>8 DEF Proceeds, Busy
  <2> QED
    BY <1>0, <1>2, <1>9, <2>1, <2>2, MovesOn
<1> QED
  BY <1>2, <1>7, <1>8, <1>9

\* The processor's steps are about no handshake.
LEMMA ProcessorMeets ==
    ASSUME IInv, Counters, InTurn, NEW n \in Nodes, Processor(n)
    PROVE  /\ Counters' /\ InTurn' /\ got' = got /\ program' = program
           /\ Meets =>
                  /\ Meets'
                  /\ \A a, b \in Nodes : Answered(a, b)' = Answered(a, b)
<1>0. Types
  BY DEF IInv
<1>1. program' = program /\ got' = got /\ chan' = chan /\ nst' = nst
  BY DEF Processor, SubmitEpr, WaitAll, QFree
<1>2. pc' = [pc EXCEPT ![n] = @ + 1]
  BY DEF Processor, SubmitEpr, WaitAll, QFree, Executes
<1>3. \/ ~IsRequest(n, pc[n]) /\ inbox' = inbox
      \/ inbox' = [inbox EXCEPT ![n] = Append(@, pc[n])]
  BY DEF Processor, SubmitEpr, WaitAll, QFree, Executes, IsRequest
<1>4. /\ InTurn'
      /\ \A a \in Nodes : \A i : IsRequest(a, i) => (Queued(a, i)' <=> Queued(a, i))
  BY <1>0, <1>1, <1>2, <1>3, TurnProcessor
<1>5. Counters'
  BY <1>1, ProgramSame DEF Counters
<1> QED
  BY <1>0, <1>1, <1>4, <1>5, AllSame

\* The link layer's start of a pair is about no handshake either.
LEMMA EgpStartMeets ==
    ASSUME IInv, Counters, InTurn, NEW c \in Nodes, NEW r \in Nodes, EgpStart(c, r)
    PROVE  /\ Counters' /\ InTurn' /\ got' = got /\ program' = program
           /\ Meets =>
                  /\ Meets'
                  /\ \A a, b \in Nodes : Answered(a, b)' = Answered(a, b)
<1>0. Types
  BY DEF IInv
<1>1. /\ program' = program /\ got' = got /\ chan' = chan /\ nst' = nst
      /\ pc' = pc /\ inbox' = inbox
  BY DEF EgpStart
<1>2. InTurn' /\ \A a, i : Queued(a, i)' <=> Queued(a, i)
  BY <1>1, TurnKept
<1>3. Counters'
  BY <1>1, ProgramSame DEF Counters
<1> QED
  BY <1>0, <1>1, <1>2, <1>3, AllSame

-----------------------------------------------------------------------------
(* The second invariant.                                                     *)
LEMMA SessionsStart == Init => SInv
<1> SUFFICES ASSUME Init  PROVE  SInv
  OBVIOUS
<1>1. IInv
  BY Start
<1>2. /\ \A n \in Nodes : pc[n] = 1 /\ inbox[n] = <<>> /\ nst[n] = Idle
      /\ got = [n \in Nodes |-> [i \in DOMAIN Code(n) |-> 0]]
  BY DEF Init
<1>3. Types /\ Idle.at = "idle"
  BY <1>1 DEF IInv, Idle
<1>4. Counters
  BY <1>2 DEF Counters
<1>5. ASSUME NEW n \in Nodes, NEW i, IsRequest(n, i)
      PROVE  Queued(n, i) /\ got[n][i] = 0
  <2>1. i \in DOMAIN Code(n) /\ Code(n) \in Seq(Instrs)
    BY <1>3, <1>5, NetstackAssumption DEF IsRequest, Types, Code
  <2> HIDE DEF Instrs
  <2>2. i \in Nat /\ i >= 1
    BY <2>1
  <2> QED
    BY <1>2, <2>1, <2>2 DEF Queued
<1>6. InTurn
  BY <1>2, <1>3, <1>5 DEF InTurn
<1>7. Meets
  <2>1. \A n, m \in Nodes : Answered(n, m) = {}
    BY <1>3, <1>5, LinkFacts DEF Answered, Pending
  <2>2. Partnered /\ Counted
    BY <2>1 DEF Partnered, Counted
  <2>3. Progress
    <3> SUFFICES ASSUME NEW n \in Nodes, NEW m \in Nodes, NEW i, NEW j, Meet(n, i, m, j)
                 PROVE  Fares(n, i, Asks(n, i, m, j))
      BY DEF Progress
    <3>1. IsRequest(n, i)
      BY <1>3, LinkFacts DEF Meet
    <3>2. Queued(n, i) /\ got[n][i] = 0 /\ nst[n].at \notin Busy
      BY <1>2, <1>3, <1>5, <3>1 DEF Busy
    <3> QED
      BY <3>2 DEF Fares, Waiting, Working
  <2> QED
    BY <2>2, <2>3 DEF Meets
<1> QED
  BY <1>1, <1>4, <1>6, <1>7 DEF SInv

\* Every step keeps it, as the lemmas above say one action at a time.
LEMMA SessionsStep == SInv /\ [Next]_vars => SInv'
<1> SUFFICES ASSUME SInv, [Next]_vars  PROVE  SInv'
  OBVIOUS
<1>0. /\ IInv /\ Counters /\ InTurn
      /\ program.matched /\ ~crashed => Meets
  BY DEF SInv
<1>1. IInv'
  BY <1>0, Step
<1>2. ASSUME Counters', InTurn', program' = program, ~crashed,
             program.matched /\ ~crashed' /\ Meets => Meets'
      PROVE  SInv'
  BY <1>0, <1>1, <1>2, Zenon DEF SInv
<1>3. CASE UNCHANGED vars
  <2>1. /\ program' = program /\ got' = got /\ chan' = chan /\ nst' = nst
        /\ pc' = pc /\ inbox' = inbox /\ crashed' = crashed
    BY <1>3 DEF vars
  <2>2. InTurn' /\ \A a, i : Queued(a, i)' <=> Queued(a, i)
    BY <1>0, <2>1, TurnKept
  <2>3. Counters'
    BY <1>0, <2>1, ProgramSame DEF Counters
  <2>4. Meets => Meets'
    BY <1>0, <2>1, <2>2, AllSame DEF IInv
  <2> QED
    BY <1>0, <1>1, <2>1, <2>2, <2>3, <2>4, Zenon DEF SInv
<1>4. CASE Next
  <2>1. ~crashed
    BY <1>4 DEF Next
  <2>2. ASSUME NEW n \in Nodes, Processor(n)  PROVE  SInv'
    BY <1>0, <1>2, <2>1, <2>2, ProcessorMeets
  <2>3. ASSUME NEW n \in Nodes, TakeRequest(n)  PROVE  SInv'
    BY <1>0, <1>2, <2>1, <2>3, TakeRequestMeets
  <2>4. ASSUME NEW n \in Nodes, Acknowledged(n)  PROVE  SInv'
    BY <1>0, <1>2, <2>1, <2>4, AcknowledgedMeets
  <2>5. ASSUME NEW n \in Nodes, RequestReceived(n)  PROVE  SInv'
    <3>1. /\ Counters' /\ InTurn' /\ program' = program
          /\ program.matched /\ ~crashed' /\ Meets =>
                 \E m \in Nodes : \E i, j, v : Answers(n, i, m, j, v)
      BY <1>0, <2>1, <2>5, RequestReceivedMeets
    <3>2. program.matched /\ ~crashed' /\ Meets => Meets'
      BY <1>0, <3>1, AnswersBoth DEF IInv
    <3> QED
      BY <1>2, <2>1, <3>1, <3>2
  <2>6. ASSUME NEW n \in Nodes, MemoryFreed(n)  PROVE  SInv'
    BY <1>0, <1>2, <2>1, <2>6, MemoryFreedMeets
  <2>7. ASSUME NEW c \in Nodes, NEW r \in Nodes, EgpStart(c, r)  PROVE  SInv'
    BY <1>0, <1>2, <2>1, <2>7, EgpStartMeets
  <2>8. ASSUME NEW w \in making, NEW n \in w.todo, EgpResult(w, n)  PROVE  SInv'
    BY <1>0, <1>2, <2>1, <2>8, EgpResultMeets
  <2> QED
    BY <1>4, <2>2, <2>3, <2>4, <2>5, <2>6, <2>7, <2>8 DEF Next, NetworkStack, LinkLayer
<1> QED
  BY <1>3, <1>4

-----------------------------------------------------------------------------
(* Sessions, and their ends.                                                 *)
Session(c, i, r, j) ==
    [creator |-> c, create |-> i, receiver |-> r, receive |-> j,
     type |-> Req(c, i).type, number |-> Req(c, i).number]

Opens(c, i, r, j) ==
    Meet(c, i, r, j) /\ Req(c, i).role = "create" /\ Req(r, j).role = "recv"

\* Sessions are the creates and receives that meet.
LEMMA SessionFacts ==
    /\ \A s \in Sessions :
           /\ s.creator \in Nodes /\ s.receiver \in Nodes
           /\ Opens(s.creator, s.create, s.receiver, s.receive)
           /\ s = Session(s.creator, s.create, s.receiver, s.receive)
    /\ \A c, r \in Nodes : \A i, j : Opens(c, i, r, j) => Session(c, i, r, j) \in Sessions
<1> DEFINE P(c, r) == {y \in Requests(program.code, c, r) \X Requests(program.code, r, c) :
                          /\ Rank(program.code, c, y[1]) = Rank(program.code, r, y[2])
                          /\ Req(c, y[1]).role = "create" /\ Req(r, y[2]).role = "recv"}
           S(c, r) == {Session(c, x[1], r, x[2]) : x \in P(c, r)}
<1>1. Sessions = UNION {S(c, r) : c, r \in Nodes}
  BY DEF Sessions, Session
<1>2. \A c, r, y : y \in P(c, r) <=>
          /\ y \in Links(c, r) \X Links(r, c)
          /\ Place(c, y[1]) = Place(r, y[2])
          /\ Req(c, y[1]).role = "create" /\ Req(r, y[2]).role = "recv"
  BY DEF Links, Place
<1> HIDE DEF P
<1>3. \A c, r : \A y \in P(c, r) : Opens(c, y[1], r, y[2])
  BY <1>2 DEF Opens, Meet
<1>4. ASSUME NEW s \in Sessions
      PROVE  /\ s.creator \in Nodes /\ s.receiver \in Nodes
             /\ Opens(s.creator, s.create, s.receiver, s.receive)
             /\ s = Session(s.creator, s.create, s.receiver, s.receive)
  <2>1. PICK c \in Nodes, r \in Nodes : s \in S(c, r)
    BY <1>1
  <2>2. PICK y \in P(c, r) : s = Session(c, y[1], r, y[2])
    BY <2>1
  <2>3. s.creator = c /\ s.create = y[1] /\ s.receiver = r /\ s.receive = y[2]
    BY <2>2 DEF Session
  <2> QED
    BY <1>3, <2>2, <2>3
<1>5. ASSUME NEW c \in Nodes, NEW r \in Nodes, NEW i, NEW j, Opens(c, i, r, j)
      PROVE  Session(c, i, r, j) \in Sessions
  <2>1. <<i, j>>[1] = i /\ <<i, j>>[2] = j
    OBVIOUS
  <2>2. <<i, j>> \in P(c, r)
    BY <1>2, <1>5, <2>1 DEF Opens, Meet
  <2>3. Session(c, i, r, j) \in S(c, r)
    BY <2>1, <2>2
  <2> HIDE DEF S
  <2> QED
    BY <1>1, <2>3
<1> QED
  BY <1>4, <1>5

\* Both ends of a session, seen from the one whose request i is.
LEMMA EndFacts ==
    ASSUME Types, program.matched, NEW s \in Sessions
    PROVE  /\ s.creator \in Nodes /\ s.receiver \in Nodes
           /\ Meet(s.creator, s.create, s.receiver, s.receive)
           /\ Meet(s.receiver, s.receive, s.creator, s.create)
           /\ Asks(s.creator, s.create, s.receiver, s.receive) = Req(s.creator, s.create)
           /\ Asks(s.receiver, s.receive, s.creator, s.create) = Req(s.creator, s.create)
           /\ Req(s.receiver, s.receive).role = "recv"
           /\ s.number = Req(s.creator, s.create).number
           /\ s.type = Req(s.creator, s.create).type
           /\ s.number \in Nat /\ s.number > 0
<1>1. /\ s.creator \in Nodes /\ s.receiver \in Nodes
      /\ Opens(s.creator, s.create, s.receiver, s.receive)
      /\ s = Session(s.creator, s.create, s.receiver, s.receive)
  BY SessionFacts
<1>2. PICK c, r, i, j :
          /\ c \in Nodes /\ r \in Nodes
          /\ c = s.creator /\ r = s.receiver /\ i = s.create /\ j = s.receive
  BY <1>1
<1>3. /\ Meet(c, i, r, j) /\ Req(c, i).role = "create" /\ Req(r, j).role = "recv"
      /\ s = Session(c, i, r, j)
  BY <1>1, <1>2 DEF Opens
<1>4. s.number = Req(c, i).number /\ s.type = Req(c, i).type
  BY <1>3 DEF Session
<1>5. Meet(r, j, c, i)
  BY <1>3 DEF Meet
<1>6. Asks(c, i, r, j) = Req(c, i) /\ Asks(r, j, c, i) = Req(c, i)
  BY <1>3 DEF Asks
<1>7. Req(c, i).number \in Nat /\ Req(c, i).number > 0
  BY <1>2, <1>3, MeetFacts, RequestFacts
<1> QED
  BY <1>2, <1>3, <1>4, <1>5, <1>6, <1>7

\* A session is named by either of its ends.
LEMMA OneSession ==
    ASSUME Types, program.matched, NEW s \in Sessions, NEW t \in Sessions
    PROVE  /\ s.creator = t.creator /\ s.create = t.create => s = t
           /\ s.receiver = t.receiver /\ s.receive = t.receive => s = t
           /\ ~(s.creator = t.receiver /\ s.create = t.receive)
<1>1. /\ Meet(s.creator, s.create, s.receiver, s.receive)
      /\ Meet(s.receiver, s.receive, s.creator, s.create)
      /\ Meet(t.creator, t.create, t.receiver, t.receive)
      /\ Meet(t.receiver, t.receive, t.creator, t.create)
  BY EndFacts
<1>2. /\ s.creator \in Nodes /\ s.receiver \in Nodes
      /\ s = Session(s.creator, s.create, s.receiver, s.receive)
      /\ Req(s.creator, s.create).role = "create"
      /\ t.creator \in Nodes /\ t.receiver \in Nodes
      /\ t = Session(t.creator, t.create, t.receiver, t.receive)
      /\ Req(t.receiver, t.receive).role = "recv"
  BY SessionFacts DEF Opens
<1>3. /\ Req(s.creator, s.create).peer = s.receiver
      /\ Req(s.receiver, s.receive).peer = s.creator
      /\ Req(t.creator, t.create).peer = t.receiver
      /\ Req(t.receiver, t.receive).peer = t.creator
  BY <1>1, <1>2, MeetFacts
<1>4. ASSUME s.creator = t.creator, s.create = t.create  PROVE  s = t
  <2>1. s.receiver = t.receiver
    BY <1>3, <1>4
  <2>2. s.receive = t.receive
    BY <1>1, <1>2, <1>4, <2>1, MeetFacts
  <2> QED
    BY <1>2, <1>4, <2>1, <2>2
<1>5. ASSUME s.receiver = t.receiver, s.receive = t.receive  PROVE  s = t
  <2>1. s.creator = t.creator
    BY <1>3, <1>5
  <2>2. s.create = t.create
    BY <1>1, <1>2, <1>5, <2>1, MeetFacts
  <2> QED
    BY <1>2, <1>5, <2>1, <2>2
<1>6. ~(s.creator = t.receiver /\ s.create = t.receive)
  BY <1>2
<1> QED
  BY <1>4, <1>5, <1>6

\* The receiver agreed to the creator's number once it has answered.
AgreedRight ==
    \A s \in Sessions :
        Agreed(s) = IF s.receive \in Answered(s.receiver, s.creator) THEN s.number ELSE 0

AllWell == SInv /\ program.matched /\ ~crashed

\* While all is well, that is what the refinement mapping says.
LEMMA AgreedFacts == AllWell => AgreedRight
<1> SUFFICES ASSUME SInv, program.matched, ~crashed, NEW s \in Sessions
             PROVE  Agreed(s) = IF s.receive \in Answered(s.receiver, s.creator)
                                  THEN s.number ELSE 0
  BY DEF AgreedRight, AllWell
<1>1. Types /\ Requested /\ InTurn /\ Meets
  BY DEF SInv, IInv
<1>2. PICK n, m, i, j :
          /\ n \in Nodes /\ m \in Nodes
          /\ n = s.receiver /\ m = s.creator /\ i = s.receive /\ j = s.create
  BY <1>1, EndFacts
<1>3. /\ Meet(n, i, m, j) /\ Req(n, i).role = "recv"
      /\ Asks(n, i, m, j).number = s.number
  BY <1>1, <1>2, EndFacts
<1>4. PICK p : p = s.number /\ p = Asks(n, i, m, j).number
  BY <1>3
<1>5. Fares(n, i, Asks(n, i, m, j))
  BY <1>1, <1>2, <1>3 DEF Meets, Progress
<1>6. IsRequest(n, i) /\ i \in Links(n, m) /\ i \in Nat
  BY <1>1, <1>2, <1>3, LinkFacts DEF Meet
<1>7. i \in Answered(n, m) <=> ~Pending(n, m, i)
  BY <1>6 DEF Answered
<1>8. Agreed(s) = IF nst[n].req = i /\ nst[n].at \in Busy THEN nst[n].total ELSE got[n][i]
  BY <1>2 DEF Agreed, Busy
<1>9. CASE Working(n, i)
  <2>1. Agreed(s) = p
    BY <1>4, <1>5, <1>8, <1>9 DEF Fares, Working
  <2>2. ~Pending(n, m, i)
    <3>1. nst[n].at # "idle" /\ nst[n].at # "ack" /\ nst[n].at # "request" /\ nst[n].req = i
      BY <1>9 DEF Working, Busy
    <3>2. Queued(n, i) <=> i > i
      BY <1>1, <1>2, <1>6, <3>1 DEF InTurn
    <3> QED
      BY <1>6, <3>1, <3>2 DEF Pending
  <2> QED
    BY <1>2, <1>4, <1>7, <2>1, <2>2
<1>10. CASE ~Working(n, i) /\ Waiting(n, i)
  <2>1. Agreed(s) = 0
    BY <1>5, <1>8, <1>10 DEF Fares, Working
  <2>2. Pending(n, m, i)
    BY <1>1, <1>2, <1>3, <1>10 DEF Waiting, Pending, Requested
  <2> QED
    BY <1>2, <1>4, <1>7, <2>1, <2>2
<1>11. CASE ~Working(n, i) /\ ~Waiting(n, i)
  <2>1. Agreed(s) = p
    BY <1>4, <1>5, <1>8, <1>11 DEF Fares, Working
  <2>2. ~Pending(n, m, i)
    BY <1>11 DEF Waiting, Pending
  <2> QED
    BY <1>2, <1>4, <1>7, <2>1, <2>2
<1> QED
  BY <1>9, <1>10, <1>11

\* The same of the state after a step.
LEMMA AgreedNext == AllWell' => AgreedRight'
<1>1. AllWell => AgreedRight
  BY AgreedFacts
<1> QED
  BY <1>1, PTL

\* Sessions are a matter of the program.
LEMMA SessionsSame ==
    ASSUME program' = program  PROVE  Sessions' = Sessions
BY DEF Sessions, Requests, Rank, Req, Code

\* If no handshake is over and no pair is got, nothing happened to sessions.
LEMMA ServiceSame ==
    ASSUME SInv, SInv', program.matched, ~crashed, program' = program, got' = got,
           \/ nst' = nst
           \/ ~crashed' /\ \A a, b \in Nodes : Answered(a, b)' = Answered(a, b)
    PROVE  UNCHANGED Service!vars
<1>1. Sessions' = Sessions
  BY SessionsSame
<1>2. \A s \in Sessions : Agreed(s)' = Agreed(s)
  <2>1. CASE nst' = nst
    BY <2>1 DEF Agreed
  <2>2. CASE ~crashed' /\ \A a, b \in Nodes : Answered(a, b)' = Answered(a, b)
    <3>1. ASSUME NEW s \in Sessions  PROVE  Agreed(s)' = Agreed(s)
      <4>1. Answered(s.receiver, s.creator)' = Answered(s.receiver, s.creator)
        BY <2>2, SessionFacts
      <4>2. Agreed(s) = IF s.receive \in Answered(s.receiver, s.creator) THEN s.number ELSE 0
        BY AgreedFacts DEF AgreedRight, AllWell
      <4>3. Agreed(s)' = IF s.receive \in Answered(s.receiver, s.creator)' THEN s.number ELSE 0
        BY <1>1, <2>2, AgreedNext DEF AgreedRight, AllWell
      <4> QED
        BY <4>1, <4>2, <4>3
    <3> QED
      BY <3>1
  <2> QED
    BY <2>1, <2>2
<1>3. [s \in Sessions |-> Agreed(s)]' = [s \in Sessions |-> Agreed(s)]
  BY <1>1, <1>2
<1>4. [s \in Sessions |-> [creator |-> got[s.creator][s.create],
                           receiver |-> got[s.receiver][s.receive]]]'
          = [s \in Sessions |-> [creator |-> got[s.creator][s.create],
                                 receiver |-> got[s.receiver][s.receive]]]
  BY <1>1
<1> QED
  BY <1>1, <1>3, <1>4 DEF Service!vars

\* A network stack that waits for a peer is done with all earlier requests.
LEMMA EarlierServed ==
    ASSUME AllWell, NEW a \in Nodes, NEW b \in Nodes, NEW k, NEW l, Meet(a, k, b, l),
           nst[a].at \in {"ack", "request"}, k < nst[a].req
    PROVE  /\ got[a][k] = Asks(a, k, b, l).number
           /\ k \in Answered(a, b) /\ l \in Answered(b, a)
<1>1. Types /\ Requested /\ InTurn /\ Meets
  BY DEF AllWell, SInv, IInv
<1>2. IsRequest(a, k) /\ k \in Links(a, b) /\ k \in Nat /\ nst[a].req \in Nat
  BY <1>1, LinkFacts DEF Meet, Types
<1>3. ~Queued(a, k) /\ nst[a].req # k /\ nst[a].at \notin Busy
  BY <1>1, <1>2 DEF InTurn, Busy
<1>4. ~Waiting(a, k) /\ ~Working(a, k) /\ ~Pending(a, b, k)
  BY <1>3 DEF Waiting, Working, Pending
<1>5. got[a][k] = Asks(a, k, b, l).number
  BY <1>1, <1>4 DEF Meets, Progress, Fares
<1>6. k \in Answered(a, b)
  BY <1>2, <1>4 DEF Answered
<1> QED
  BY <1>1, <1>5, <1>6, BothAnswered DEF Meets

AgreedOf == [s \in Sessions |-> Agreed(s)]
GotOf == [s \in Sessions |-> [creator |-> got[s.creator][s.create],
                              receiver |-> got[s.receiver][s.receive]]]

\* The handshake is over: the two network stacks agree on the session.
LEMMA AgreeStep ==
    ASSUME AllWell, SInv', ~crashed', NEW n \in Nodes, NEW m \in Nodes, NEW i, NEW j, NEW v,
           Answers(n, i, m, j, v)
    PROVE  Service!Next
<1>1. /\ Types /\ Requested /\ InTurn /\ Meets /\ program.matched
      /\ program' = program /\ got' = got
  BY DEF AllWell, SInv, IInv, Answers
<1>2. /\ Meet(n, i, m, j) /\ Meet(m, j, n, i)
      /\ nst[n].at = "request" /\ nst[n].req = i
      /\ nst[m].at = "ack" /\ nst[m].req = j
  BY DEF Answers, Meet
<1>3. /\ i \notin Answered(n, m)
      /\ Answered(n, m)' = Answered(n, m) \cup {i}
      /\ Answered(m, n)' = Answered(m, n) \cup {j}
      /\ \A a, b \in Nodes : {a, b} # {n, m} => Answered(a, b)' = Answered(a, b)
  BY <1>1, AnswersBoth, SMTT(30)
<1>4. Req(m, j).role = "create" /\ Req(n, i).role = "recv"
  BY <1>1, <1>2 DEF Requested
<1>5. PICK s \in Sessions : /\ s.creator = m /\ s.create = j
                            /\ s.receiver = n /\ s.receive = i
  <2>1. Session(m, j, n, i) \in Sessions
    BY <1>2, <1>4, SessionFacts DEF Opens
  <2> QED
    BY <2>1 DEF Session
<1>6. Sessions' = Sessions
  BY <1>1, SessionsSame
<1>7. /\ \A t \in Sessions :
             Agreed(t) = IF t.receive \in Answered(t.receiver, t.creator) THEN t.number ELSE 0
      /\ \A t \in Sessions :
             Agreed(t)' = IF t.receive \in Answered(t.receiver, t.creator)'
                            THEN t.number ELSE 0
  BY <1>1, <1>6, AgreedFacts, AgreedNext DEF AgreedRight, AllWell
<1>8. AgreedOf[s] = 0
  BY <1>3, <1>5, <1>7 DEF AgreedOf
<1>9. ASSUME NEW t \in Sessions, t # s
      PROVE  Agreed(t)' = Agreed(t)
  <2>1. ~(t.receiver = n /\ t.receive = i) /\ ~(t.receiver = m /\ t.receive = j)
    BY <1>1, <1>5, <1>9, OneSession
  <2>2. t.receiver \in Nodes /\ t.creator \in Nodes
    BY SessionFacts
  <2>3. t.receive \in Answered(t.receiver, t.creator)'
            <=> t.receive \in Answered(t.receiver, t.creator)
    <3>1. CASE {t.receiver, t.creator} # {n, m}
      BY <1>3, <2>2, <3>1
    <3>2. CASE t.receiver = n /\ t.creator = m
      BY <1>3, <2>1, <3>2
    <3>3. CASE t.receiver = m /\ t.creator = n
      BY <1>3, <2>1, <3>3
    <3> QED
      BY <3>1, <3>2, <3>3
  <2> QED
    BY <1>7, <2>3
<1>10. Agreed(s)' = s.number
  BY <1>3, <1>5, <1>7
<1>11. AgreedOf' = [AgreedOf EXCEPT ![s] = s.number]
  BY <1>6, <1>9, <1>10 DEF AgreedOf
<1>12. GotOf' = GotOf
  BY <1>1, <1>6 DEF GotOf
\* Both nodes are done with the sessions of their earlier requests.
<1>13. ASSUME NEW e \in Service!Ends, NEW t \in Sessions, NEW f \in Service!Ends,
              Service!NodeOf(t, f) = Service!NodeOf(s, e),
              Service!RequestOf(t, f) < Service!RequestOf(s, e)
       PROVE  AgreedOf[t] > 0 /\ GotOf[t][f] = AgreedOf[t]
  <2>1. /\ t.creator \in Nodes /\ t.receiver \in Nodes
        /\ Meet(t.creator, t.create, t.receiver, t.receive)
        /\ Meet(t.receiver, t.receive, t.creator, t.create)
        /\ Asks(t.creator, t.create, t.receiver, t.receive).number = t.number
        /\ Asks(t.receiver, t.receive, t.creator, t.create).number = t.number
        /\ t.number \in Nat /\ t.number > 0
    BY <1>1, EndFacts
  <2>2. \/ e = "creator" /\ Service!NodeOf(s, e) = m /\ Service!RequestOf(s, e) = j
        \/ e = "receiver" /\ Service!NodeOf(s, e) = n /\ Service!RequestOf(s, e) = i
    BY <1>5 DEF Service!Ends, Service!NodeOf, Service!RequestOf
  <2>3. PICK a \in Nodes : /\ a = Service!NodeOf(t, f)
                           /\ nst[a].at \in {"ack", "request"}
                           /\ Service!RequestOf(t, f) < nst[a].req
    BY <1>2, <1>13, <2>2
  <2>4. CASE f = "creator"
    <3>1. a = t.creator /\ t.create < nst[a].req
      BY <2>3, <2>4 DEF Service!NodeOf, Service!RequestOf
    <3>2. got[a][t.create] = t.number /\ t.receive \in Answered(t.receiver, a)
      BY <2>1, <2>3, <3>1, EarlierServed
    <3>3. AgreedOf[t] = t.number /\ GotOf[t].creator = t.number
      BY <1>7, <3>1, <3>2 DEF AgreedOf, GotOf
    <3> QED
      BY <2>1, <2>4, <3>3
  <2>5. CASE f = "receiver"
    <3>1. a = t.receiver /\ t.receive < nst[a].req
      BY <2>3, <2>5 DEF Service!NodeOf, Service!RequestOf
    <3>2. got[a][t.receive] = t.number /\ t.receive \in Answered(a, t.creator)
      BY <2>1, <2>3, <3>1, EarlierServed
    <3>3. AgreedOf[t] = t.number /\ GotOf[t].receiver = t.number
      BY <1>7, <3>1, <3>2 DEF AgreedOf, GotOf
    <3> QED
      BY <2>1, <2>5, <3>3
  <2> QED
    BY <2>4, <2>5 DEF Service!Ends
<1>14. \A e \in Service!Ends : Service!EarlierDone(s, e)
  BY <1>13 DEF Service!EarlierDone, Service!DoneAt, AgreedOf, GotOf
<1>15. Service!Agree(s)
  BY <1>6, <1>8, <1>11, <1>12, <1>14 DEF Service!Agree, AgreedOf, GotOf
<1> QED
  BY <1>15 DEF Service!Next

\* An end that is signalled a kept pair is not ahead of the other end.
LEMMA NotAhead ==
    ASSUME AllWell, NEW w \in making, w.type = "CK", NEW n \in w.todo,
           NEW m \in Nodes, m = Peer(n), NEW i, i = nst[n].req, NEW j, Meet(n, i, m, j)
    PROVE  /\ n \in Nodes
           /\ got[n][i] \in Nat /\ got[m][j] \in Nat
           /\ got[n][i] =< got[m][j]
<1>1. /\ Types /\ Requested /\ InTurn /\ Meets /\ program.matched /\ Counters
      /\ BetweenNodes /\ InPhase /\ ResultAwaited
  BY DEF AllWell, SInv, IInv
<1>2. PICK c \in Nodes, r \in Nodes : c = w.creator /\ r = w.receiver /\ c # r
  BY <1>1 DEF BetweenNodes, Work
<1>3. MakingOf(w, c, r) /\ Level(c, r)
  <2>1. w \in Works(c, r) /\ Phase(c, r)
    BY <1>1, <1>2 DEF Works, InPhase
  <2>2. ~Unused(c, r) /\ ~Begun(c, r) /\ ~Stuck(c, r) /\ ~Even(c, r)
    BY <2>1 DEF Unused, Begun, Stuck, Even
  <2>3. PICK u \in Works(c, r) : MakingOf(u, c, r)
    BY <2>1, <2>2 DEF Phase, Making
  <2>4. Works(c, r) = {u} /\ Level(c, r)
    BY <2>3 DEF MakingOf
  <2> QED
    BY <2>1, <2>3, <2>4
<1>4. n \in Nodes /\ nst[n].at = "pair" /\ m # n /\ {n, m} = {c, r}
  <2>1. n \in {c, r}
    BY <1>3 DEF MakingOf
  <2>2. nst[n].at = "pair" /\ m \in {c, r} \ {n}
    BY <1>1, <1>2 DEF ResultAwaited
  <2> QED
    BY <2>1, <2>2
<1>5. /\ View(n, m) = nst[n]
      /\ ToGo(View(n, m), w, n) = ToGo(View(m, n), w, m)
      /\ chan[m][n] = Sent(m, n)
      /\ View(m, n).at # "outcome"
  <2>1. (n = c /\ m = r) \/ (n = r /\ m = c)
    BY <1>4
  <2>2. View(n, m) = nst[n]
    BY <1>1, <1>4, ViewFacts
  <2>3. /\ ToGo(View(c, r), w, c) = ToGo(View(r, c), w, r)
        /\ View(c, r).at # "outcome" /\ View(r, c).at # "outcome"
    BY <1>3 DEF MakingOf
  <2> QED
    BY <1>3, <2>1, <2>2, <2>3 DEF Level
<1>6. /\ i \in Links(n, m) /\ i \in Answered(n, m) /\ Working(n, i)
  BY <1>1, <1>4, BusyAnswered DEF Busy
<1>7. j \in Links(m, n) /\ IsRequest(m, j) /\ IsRequest(n, i) /\ Meet(m, j, n, i)
  BY <1>1, <1>4, LinkFacts DEF Meet
<1>8. PICK ask : ask = Asks(n, i, m, j) /\ ask = Asks(m, j, n, i)
  BY <1>1, <1>4, MeetFacts
<1>9. Fares(n, i, ask) /\ Fares(m, j, ask)
  <2>1. Fares(n, i, Asks(n, i, m, j)) /\ Fares(m, j, Asks(m, j, n, i))
    BY <1>1, <1>4, <1>7 DEF Meets, Progress
  <2> QED
    BY <1>8, <2>1
<1>10. PICK g \in Nat, h \in Nat, t \in Nat : g = got[n][i] /\ h = got[m][j] /\ t = nst[n].left
  BY <1>1, <1>4, <1>7 DEF Counters, IsRequest, Types
<1>11. g + t = ask.number
  BY <1>4, <1>6, <1>9, <1>10 DEF Fares
<1>12. j \in Answered(m, n)
  BY <1>1, <1>4, <1>6, BothAnswered DEF Meets
<1>13. CASE Working(m, j)
  <2>1. nst[m].req = j /\ nst[m].at \in Busy /\ Peer(m) = n /\ nst[m].at # "idle"
    BY <1>1, <1>4, <1>7, <1>13, MeetFacts DEF Working, Busy, Peer
  <2>2. View(m, n) = nst[m]
    BY <1>1, <1>4, <2>1, ViewFacts
  <2>3. PICK u \in Nat : u = nst[m].left
    BY <1>1 DEF Types
  <2>4. h + u = ask.number
    BY <1>5, <1>9, <1>10, <1>13, <2>2, <2>3, <1>4, <1>6 DEF Fares
  <2>5. u =< t
    BY <1>4, <1>5, <1>10, <2>1, <2>2, <2>3 DEF ToGo, Busy
  <2> QED
    BY <1>4, <1>10, <1>11, <2>3, <2>4, <2>5
<1>14. CASE ~Working(m, j)
  <2>1. ~Waiting(m, j)
    <3>1. ~Pending(m, n, j)
      BY <1>12 DEF Answered
    <3>2. ASSUME nst[m].at = "ack", nst[m].req = j  PROVE  chan[m][n] # <<>>
      <4>1. Peer(m) = n
        BY <1>1, <1>4, <3>2, MeetFacts DEF Peer
      <4>2. View(m, n) = nst[m]
        BY <1>1, <1>4, <3>2, <4>1, ViewFacts
      <4>3. Sent(m, n) # <<>>
        BY <1>1, <1>4, <3>2, <4>2, ViewStates
      <4> QED
        BY <1>5, <4>3
    <3> QED
      BY <3>1, <3>2 DEF Waiting, Pending
  <2>2. h = ask.number
    BY <1>9, <1>10, <1>14, <2>1 DEF Fares
  <2> QED
    BY <1>4, <1>10, <1>11, <2>2
<1> QED
  BY <1>13, <1>14

\* The link layer delivers a pair, or all outcomes, to one end of a session.
LEMMA DeliverStep ==
    ASSUME AllWell, SInv', NEW w \in making, NEW n \in w.todo, EgpResult(w, n)
    PROVE  Service!Next \/ UNCHANGED Service!vars
<1>1. /\ Types /\ Requested /\ InTurn /\ Meets /\ program.matched /\ Counters
      /\ IInv /\ ~crashed
  BY DEF AllWell, SInv, IInv
<1>2. PICK i : i = nst[n].req
  OBVIOUS
<1>3. /\ n \in Nodes /\ nst[n].at \in Busy /\ program' = program /\ crashed' = crashed
  BY <1>1, <1>2, ResultGot
<1>4. PICK m \in Nodes :
          /\ m = Peer(n) /\ m # n /\ IsRequest(n, i) /\ Req(n, i).peer = m
          /\ i \in Links(n, m) /\ i \in Answered(n, m) /\ Working(n, i)
  BY <1>1, <1>2, <1>3, BusyAnswered
<1>5. PICK j : Meet(n, i, m, j) /\ Meet(m, j, n, i) /\ j \in Answered(m, n)
  <2>1. PICK k \in Answered(m, n) : Place(n, i) = Place(m, k)
    BY <1>1, <1>3, <1>4 DEF Meets, Partnered
  <2>2. k \in Links(m, n)
    BY <2>1 DEF Answered
  <2> QED
    BY <1>4, <2>1, <2>2 DEF Meet
<1>6. PICK s \in Sessions, e \in Service!Ends :
          \/ /\ e = "creator" /\ s.creator = n /\ s.create = i
             /\ s.receiver = m /\ s.receive = j
          \/ /\ e = "receiver" /\ s.creator = m /\ s.create = j
             /\ s.receiver = n /\ s.receive = i
  <2>1. /\ Req(n, i).role # Req(m, j).role
        /\ Req(n, i).role \in {"create", "recv"} /\ Req(m, j).role \in {"create", "recv"}
    BY <1>1, <1>3, <1>4, <1>5, MeetFacts, RequestFacts
  <2>2. CASE Req(n, i).role = "create"
    <3>1. Session(n, i, m, j) \in Sessions
      BY <1>3, <1>5, <2>1, <2>2, SessionFacts DEF Opens
    <3> QED
      BY <3>1 DEF Session, Service!Ends
  <2>3. CASE Req(m, j).role = "create"
    <3>1. Session(m, j, n, i) \in Sessions
      BY <1>3, <1>5, <2>1, <2>3, SessionFacts DEF Opens
    <3> QED
      BY <3>1 DEF Session, Service!Ends
  <2> QED
    BY <2>1, <2>2, <2>3
<1>7. /\ Asks(n, i, m, j) = Req(s.creator, s.create)
      /\ s.number = Req(s.creator, s.create).number
      /\ s.type = Req(s.creator, s.create).type
      /\ s.number \in Nat /\ s.number > 0
  BY <1>1, <1>6, EndFacts
<1>8. PICK g \in Nat, k \in Nat, p \in Nat :
          g = got[n][i] /\ k = nst[n].left /\ p = s.number /\ p > 0 /\ k > 0
  BY <1>1, <1>3, <1>4, <1>7 DEF Counters, IsRequest, Types, Requested
<1>9. /\ nst[n].total = p
      /\ \/ s.type = "CK" /\ nst[n].at # "outcome" /\ g + k = p
         \/ s.type = "MD" /\ nst[n].at = "outcome" /\ g = 0
  <2>1. PICK ask : ask = Asks(n, i, m, j)
    OBVIOUS
  <2>2. Fares(n, i, ask)
    BY <1>1, <1>3, <1>5, <2>1 DEF Meets, Progress
  <2> QED
    BY <1>4, <1>7, <1>8, <2>1, <2>2 DEF Fares
<1>10. Sessions' = Sessions
  BY <1>3, SessionsSame
\* The handshakes stand as they did.
<1>11. \A a, b \in Nodes : Answered(a, b)' = Answered(a, b)
  BY <1>1, EgpResultMeets
<1>12. /\ AgreedOf' = AgreedOf /\ AgreedOf[s] = p
  <2>1. /\ \A t \in Sessions :
             Agreed(t) = IF t.receive \in Answered(t.receiver, t.creator) THEN t.number ELSE 0
        /\ \A t \in Sessions :
             Agreed(t)' = IF t.receive \in Answered(t.receiver, t.creator)'
                            THEN t.number ELSE 0
    BY <1>1, <1>3, <1>10, AgreedFacts, AgreedNext DEF AgreedRight, AllWell
  <2>2. \A t \in Sessions : Agreed(t)' = Agreed(t)
    BY <1>11, <2>1, SessionFacts
  <2>3. Agreed(s) = p
    BY <1>4, <1>5, <1>6, <1>8, <2>1
  <2> QED
    BY <1>10, <2>2, <2>3 DEF AgreedOf
<1>13. /\ GotOf[s][e] = g
       /\ GotOf[s][Service!Other(e)] = got[m][j]
  BY <1>6, <1>8 DEF GotOf, Service!Ends, Service!Other
\* What this end gets.
<1>14. ASSUME NEW x \in Nat, got' = [got EXCEPT ![n][i] = x]
       PROVE  GotOf' = [GotOf EXCEPT ![s][e] = x]
  <2>1. PICK h : h = [got EXCEPT ![n][i] = x]
    OBVIOUS
  <2>2. /\ got'[n][i] = x
        /\ \A a \in DOMAIN Code(n) : a # i => got'[n][a] = got[n][a]
        /\ \A a \in Nodes : a # n => got'[a] = got[a]
    BY <1>1, <1>3, <1>4, <1>14, <2>1, CountersKept DEF IsRequest
  <2>3. ASSUME NEW t \in Sessions, t # s
        PROVE  /\ got'[t.creator][t.create] = got[t.creator][t.create]
               /\ got'[t.receiver][t.receive] = got[t.receiver][t.receive]
    <3>1. /\ ~(t.creator = n /\ t.create = i)
          /\ ~(t.receiver = n /\ t.receive = i)
      BY <1>1, <1>6, <2>3, OneSession
    <3>2. /\ t.creator \in Nodes /\ t.create \in DOMAIN Code(t.creator)
          /\ t.receiver \in Nodes /\ t.receive \in DOMAIN Code(t.receiver)
      BY <1>1, EndFacts, MeetFacts DEF IsRequest
    <3> QED
      BY <2>2, <3>1, <3>2
  <2>4. got'[m][j] = got[m][j]
    BY <1>4, <2>2
  <2> DEFINE ends(t) == [creator |-> got[t.creator][t.create],
                         receiver |-> got[t.receiver][t.receive]]
  <2>5. \A t \in Sessions : t # s => ends(t)' = ends(t)
    BY <2>3
  <2>6. ends(s)' = [ends(s) EXCEPT ![e] = x]
    BY <1>6, <2>2, <2>4
  <2>7. GotOf = [t \in Sessions |-> ends(t)] /\ GotOf' = [t \in Sessions |-> ends(t)']
    BY <1>10 DEF GotOf
  <2> HIDE DEF ends
  <2> QED
    BY <2>5, <2>6, <2>7
<1>15. CASE w.type = "CK" /\ nst[n].at = "pair" /\ got' = [got EXCEPT ![n][i] = got[n][i] + 1]
  <2>1. GotOf' = [GotOf EXCEPT ![s][e] = g + 1]
    <3>1. PICK x \in Nat : x = g + 1
      BY <1>8
    <3>2. got' = [got EXCEPT ![n][i] = x]
      BY <1>8, <1>15, <3>1
    <3> QED
      BY <1>14, <3>1, <3>2
  <2>2. g =< got[m][j]
    BY <1>2, <1>4, <1>5, <1>8, <1>15, NotAhead
  <2>3. s.type = "CK" /\ g < p
    BY <1>8, <1>9, <1>15
  <2>4. GotOf' = [GotOf EXCEPT ![s][e] = @ + 1]
    BY <1>13, <2>1
  <2>5. Service!DeliverPair(s, e)
    BY <1>10, <1>12, <1>13, <2>2, <2>3, <2>4 DEF Service!DeliverPair, AgreedOf, GotOf
  <2> QED
    BY <2>5 DEF Service!Next
<1>16. CASE /\ w.type = "MD" /\ nst[n].at = "outcome"
            /\ got' = [got EXCEPT ![n][i] = nst[n].total]
  <2>1. GotOf' = [GotOf EXCEPT ![s][e] = AgreedOf[s]]
    BY <1>8, <1>9, <1>12, <1>14, <1>16
  <2>2. s.type = "MD" /\ g < p
    BY <1>8, <1>9, <1>16
  <2>3. Service!DeliverOutcomes(s, e)
    BY <1>10, <1>12, <1>13, <2>1, <2>2 DEF Service!DeliverOutcomes, AgreedOf, GotOf
  <2> QED
    BY <2>3 DEF Service!Next
<1>17. CASE got' = got
  BY <1>1, <1>3, <1>11, <1>17, ServiceSame DEF AllWell
<1> QED
  BY <1>1, <1>2, <1>15, <1>16, <1>17, ResultGot

-----------------------------------------------------------------------------
(* The network stacks implement EprService.                                  *)
LEMMA ServiceStart == Init => Service!Init
<1> SUFFICES ASSUME Init  PROVE  Service!Init
  OBVIOUS
<1>1. SInv /\ Types /\ Counters
  BY SessionsStart DEF SInv, IInv
<1>2. /\ \A n \in Nodes : nst[n] = Idle
      /\ got = [n \in Nodes |-> [i \in DOMAIN Code(n) |-> 0]]
  BY DEF Init
<1>3. \A s \in Sessions :
          /\ s.creator \in Nodes /\ s.receiver \in Nodes
          /\ IsRequest(s.creator, s.create) /\ IsRequest(s.receiver, s.receive)
  BY <1>1, SessionFacts, LinkFacts DEF Opens, Meet
<1>4. \A s \in Sessions :
          got[s.creator][s.create] = 0 /\ got[s.receiver][s.receive] = 0
  BY <1>2, <1>3 DEF IsRequest
<1>5. \A s \in Sessions : Agreed(s) = 0
  BY <1>2, <1>3, <1>4, SMTT(30) DEF Agreed, Idle
<1>6. [s \in Sessions |-> Agreed(s)] = [s \in Sessions |-> 0]
  BY <1>5
<1>7. [s \in Sessions |-> [creator |-> got[s.creator][s.create],
                           receiver |-> got[s.receiver][s.receive]]]
          = [s \in Sessions |-> [e \in Service!Ends |-> 0]]
  <2>1. [creator |-> 0, receiver |-> 0] = [e \in Service!Ends |-> 0]
    BY DEF Service!Ends
  <2> QED
    BY <1>4, <2>1
<1> QED
  BY <1>6, <1>7 DEF Service!Init

\* Every step is one of the service's, or none.
LEMMA ServiceStep ==
    SInv /\ SInv' /\ [Next]_vars => [program.matched => Service!Next]_(Service!vars)
<1> SUFFICES ASSUME SInv, SInv', [Next]_vars, program.matched
             PROVE  Service!Next \/ UNCHANGED Service!vars
  OBVIOUS
<1>0. IInv /\ Counters /\ InTurn /\ (~crashed => Meets)
  BY DEF SInv
<1>1. CASE UNCHANGED vars
  <2>1. program' = program /\ got' = got /\ nst' = nst
    BY <1>1 DEF vars
  <2>2. Sessions' = Sessions /\ \A s \in Sessions : Agreed(s)' = Agreed(s)
    BY <2>1, SessionsSame DEF Agreed
  <2> QED
    BY <2>1, <2>2 DEF Service!vars
<1>2. CASE Next
  <2>1. ~crashed /\ AllWell
    BY <1>2 DEF Next, AllWell
  \* What the steps have in common that are none of the service.
  <2>2. ASSUME program' = program, got' = got,
               \/ nst' = nst
               \/ ~crashed' /\ \A a, b \in Nodes : Answered(a, b)' = Answered(a, b)
        PROVE  UNCHANGED Service!vars
    BY <2>1, <2>2, ServiceSame
  <2>3. ASSUME NEW n \in Nodes, Processor(n)  PROVE  UNCHANGED Service!vars
    <3>1. nst' = nst
      BY <2>3 DEF Processor, SubmitEpr, WaitAll, QFree
    <3> QED
      BY <1>0, <2>2, <2>3, <3>1, ProcessorMeets
  <2>4. ASSUME NEW n \in Nodes, TakeRequest(n)  PROVE  UNCHANGED Service!vars
    <3>1. crashed' = crashed
      BY <2>4 DEF TakeRequest
    <3> QED
      BY <1>0, <2>1, <2>2, <2>4, <3>1, TakeRequestMeets
  <2>5. ASSUME NEW n \in Nodes, Acknowledged(n)  PROVE  UNCHANGED Service!vars
    <3>1. /\ got' = got /\ program' = program
          /\ crashed' => nst' = nst
          /\ ~crashed' => \A a, b \in Nodes : Answered(a, b)' = Answered(a, b)
      BY <1>0, <2>1, <2>5, AcknowledgedMeets
    <3> QED
      BY <2>2, <3>1
  <2>6. ASSUME NEW n \in Nodes, RequestReceived(n)
        PROVE  Service!Next \/ UNCHANGED Service!vars
    <3>1. /\ got' = got /\ program' = program
          /\ crashed' => nst' = nst
          /\ ~crashed' => \E m \in Nodes : \E i, j, v : Answers(n, i, m, j, v)
      BY <1>0, <2>1, <2>6, RequestReceivedMeets
    <3>2. CASE crashed'
      BY <2>2, <3>1, <3>2
    <3>3. CASE ~crashed'
      BY <2>1, <2>6, <3>1, <3>3, AgreeStep
    <3> QED
      BY <3>2, <3>3
  <2>7. ASSUME NEW n \in Nodes, MemoryFreed(n)  PROVE  UNCHANGED Service!vars
    <3>1. crashed' = crashed
      BY <2>7 DEF MemoryFreed
    <3> QED
      BY <1>0, <2>1, <2>2, <2>7, <3>1, MemoryFreedMeets
  <2>8. ASSUME NEW c \in Nodes, NEW r \in Nodes, EgpStart(c, r)
        PROVE  UNCHANGED Service!vars
    <3>1. nst' = nst
      BY <2>8 DEF EgpStart
    <3> QED
      BY <1>0, <2>2, <2>8, <3>1, EgpStartMeets
  <2>9. ASSUME NEW w \in making, NEW n \in w.todo, EgpResult(w, n)
        PROVE  Service!Next \/ UNCHANGED Service!vars
    BY <2>1, <2>9, DeliverStep
  <2> QED
    BY <1>2, <2>3, <2>4, <2>5, <2>6, <2>7, <2>8, <2>9
       DEF Next, NetworkStack, LinkLayer
<1> QED
  BY <1>1, <1>2

(* SInv is an invariant, for any nodes and any programs: requests are taken  *)
(* in order, and while requests match up and nothing has crashed, every      *)
(* session is as far as both its ends say it is.                             *)
THEOREM SessionInvariance == Spec => []SInv
BY SessionsStart, SessionsStep, PTL DEF Spec

(* The network stacks implement EprService when the programs' requests match *)
(* up: each step of a network stack or of the link layer is the agreement on *)
(* one session, after both ends are done with all earlier ones, the delivery *)
(* of one kept pair to an end that is not ahead, the delivery of all         *)
(* outcomes of a session to one end, or nothing to sessions.                 *)
THEOREM ImplementsService == Spec => Implements
<1>1. Spec => []SInv
  BY SessionInvariance
<1>2. Init => Service!Init
  BY ServiceStart
<1>3. SInv /\ SInv' /\ [Next]_vars => [program.matched => Service!Next]_(Service!vars)
  BY ServiceStep
<1> QED
  BY <1>1, <1>2, <1>3, PTL DEF Spec, Implements
=============================================================================
