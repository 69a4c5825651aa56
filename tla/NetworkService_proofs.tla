----------------------- MODULE NetworkService_proofs -----------------------
(***************************************************************************)
(* Proofs about NetworkService: for any set of nodes, whoever of them talk *)
(* to each other, and however messages of several ports fall into one      *)
(* instant, the services make a FIFO channel of each direction: every step *)
(* of theirs is a step of PeerChannel or changes nothing there.            *)
(***************************************************************************)
EXTENDS NetworkService, QueueLemmas

TypeOK ==
    /\ unregistered \subseteq SUBSET Nodes
    /\ toName \in [Nodes -> SUBSET Nodes]
    /\ listensTo \in [Nodes -> SUBSET Nodes]
    /\ outPort \in [Talks -> Seq(Nat)]
    /\ events \in [Nodes -> Seq(Nodes)]
    /\ routed \in [Talks -> Seq(Nat)]
    /\ inBuffer \in [Talks -> Seq(Nat)]
    /\ sent \in [Talks -> Nat]
    /\ received \in [Talks -> Seq(Nat)]

\* Two nodes know each other unless the set-up has still to connect them.
Registered ==
    \A n, p \in Nodes : n # p => {n, p} \in unregistered \/ p \in toName[n]

\* A service that has started listens to every peer it will ever have.
Listening ==
    \A n \in Nodes :
        listensTo[n] # {} => unregistered = {} /\ listensTo[n] = toName[n]

\* A service has one event to handle for each message in its out ports, and
\* none for another port.
OneEventEach ==
    /\ \A t \in Talks : Count(events[t[1]], t[2]) = Len(outPort[t])
    /\ \A n \in Nodes : \A i \in DOMAIN events[n] : <<n, events[n][i]>> \in Talks

\* No message is underway before the set-up is complete.
Connected ==
    \A t \in Talks : outPort[t] # <<>> \/ routed[t] # <<>> => unregistered = {}

\* No service ever gets a message of a node it does not know.
NoFault == fault = "none"

IInv ==
    /\ TypeOK
    /\ Registered
    /\ Listening
    /\ OneEventEach
    /\ Connected
    /\ NoFault

-----------------------------------------------------------------------------
(* Passing a message on from one queue to the next.                          *)

(* What leaves the head of one queue for the end of the one before it keeps  *)
(* its place in the two.                                                     *)
LEMMA HandOver ==
    ASSUME NEW b \in Seq(Nat), NEW c \in Seq(Nat), c # <<>>
    PROVE  /\ Append(b, Head(c)) \o Tail(c) = b \o c
           /\ Append(b, Head(c)) \in Seq(Nat)
           /\ Tail(c) \in Seq(Nat)
           /\ Len(Tail(c)) = Len(c) - 1
<1>1. Head(c) \in Nat /\ Tail(c) \in Seq(Nat) /\ Len(Tail(c)) = Len(c) - 1
  BY HeadTailProperties
<1>2. c = <<Head(c)>> \o Tail(c)
  OBVIOUS
<1>3. Append(b, Head(c)) = b \o <<Head(c)>> /\ <<Head(c)>> \in Seq(Nat)
  BY <1>1, AppendIsConcat
<1>4. (b \o <<Head(c)>>) \o Tail(c) = b \o (<<Head(c)>> \o Tail(c))
  BY <1>1, <1>3, ConcatAssociative
<1>5. Append(b, Head(c)) \in Seq(Nat)
  BY <1>1, AppendProperties
<1>6. QED
  BY <1>1, <1>2, <1>3, <1>4, <1>5, Zenon

(* Queues in a row can be joined in any order.                               *)
LEMMA QueuesAssociate ==
    ASSUME NEW a \in Seq(Nat), NEW b \in Seq(Nat), NEW c \in Seq(Nat)
    PROVE  (a \o b) \o c = a \o (b \o c)
BY ConcatAssociative

(* The same behind what a queue a in front of the two holds.                 *)
LEMMA HandOverBehind ==
    ASSUME NEW a \in Seq(Nat), NEW b \in Seq(Nat), NEW c \in Seq(Nat), c # <<>>
    PROVE  (a \o Append(b, Head(c))) \o Tail(c) = (a \o b) \o c
<1>1. Append(b, Head(c)) \in Seq(Nat) /\ Tail(c) \in Seq(Nat)
  BY HandOver
<1>2. Append(b, Head(c)) \o Tail(c) = b \o c
  BY HandOver
<1>3. (a \o Append(b, Head(c))) \o Tail(c) = a \o (Append(b, Head(c)) \o Tail(c))
  BY <1>1, QueuesAssociate, Zenon
<1>4. (a \o b) \o c = a \o (b \o c)
  BY QueuesAssociate, Zenon
<1>5. QED
  BY <1>2, <1>3, <1>4, Zenon

-----------------------------------------------------------------------------
(* One lemma per action: it preserves the inductive invariant.               *)

(* A talk is between two different nodes.                                    *)
LEMMA TalkFacts ==
    ASSUME NEW t \in Talks
    PROVE  /\ t[1] \in Nodes /\ t[2] \in Nodes /\ t[1] # t[2]
           /\ t = <<t[1], t[2]>>
BY NetworkServiceAssumption

(* RegisterPeer: two nodes get to know each other.                           *)
LEMMA RegisterPeerInv ==
    ASSUME IInv, NEW pair \in unregistered, RegisterPeer(pair)
    PROVE  IInv'
<1>1. /\ unregistered' = unregistered \ {pair}
      /\ toName' = [n \in Nodes |-> toName[n] \cup IF n \in pair THEN pair \ {n} ELSE {}]
      /\ UNCHANGED <<listensTo, outPort, events, routed, inBuffer, sent, received, fault>>
  BY DEF RegisterPeer, queues
<1>2. pair \subseteq Nodes
  BY DEF IInv, TypeOK
<1>3. TypeOK'
  BY <1>1, <1>2 DEF IInv, TypeOK
<1>4. Registered'
  <2>1. ASSUME NEW n \in Nodes, NEW p \in Nodes, n # p, {n, p} \notin unregistered'
        PROVE  p \in toName'[n]
    <3>1. CASE {n, p} = pair
      BY <1>1, <2>1, <3>1
    <3>2. CASE {n, p} # pair
      BY <1>1, <2>1, <3>2 DEF IInv, Registered
    <3>3. QED
      BY <3>1, <3>2
  <2>2. QED
    BY <2>1 DEF Registered
<1>5. Listening' /\ Connected'
  BY <1>1 DEF IInv, Listening, Connected
<1>6. OneEventEach' /\ NoFault'
  BY <1>1 DEF IInv, OneEventEach, NoFault
<1>7. QED
  BY <1>3, <1>4, <1>5, <1>6 DEF IInv

(* Start: a node waits for events of the ports it has by then.               *)
LEMMA StartInv ==
    ASSUME IInv, NEW n \in Nodes, Start(n)
    PROVE  IInv'
<1>1. /\ unregistered = {}
      /\ listensTo' = [listensTo EXCEPT ![n] = toName[n]]
      /\ UNCHANGED <<unregistered, toName, outPort, events, routed, inBuffer, sent,
                     received, fault>>
  BY DEF Start, queues
<1>2. TypeOK' /\ Listening'
  BY <1>1 DEF IInv, TypeOK, Listening
<1>3. Registered' /\ OneEventEach' /\ Connected' /\ NoFault'
  BY <1>1 DEF IInv, Registered, OneEventEach, Connected, NoFault
<1>4. QED
  BY <1>2, <1>3 DEF IInv

(* The set-up is complete, so the service listens to the port of every peer. *)
LEMMA SendPeerMsgInv ==
    ASSUME IInv, NEW t \in Talks, SendPeerMsg(t[1], t[2])
    PROVE  IInv'
<1> DEFINE n == t[1]
           p == t[2]
<1>0. n \in Nodes /\ p \in Nodes /\ n # p /\ t = <<n, p>>
  BY TalkFacts
<1> HIDE DEF n, p
<1>1. /\ sent' = [sent EXCEPT ![t] = @ + 1]
      /\ outPort' = [outPort EXCEPT ![t] = Append(@, sent[t] + 1)]
      /\ events' = [events EXCEPT ![n] = IF p \in listensTo[n] THEN Append(@, p) ELSE @]
      /\ \A m \in Nodes : listensTo[m] # {}
      /\ UNCHANGED <<unregistered, toName, listensTo, routed, inBuffer, received, fault>>
  BY <1>0 DEF SendPeerMsg, Running, setup, n, p
<1>2. unregistered = {} /\ p \in listensTo[n]
  BY <1>0, <1>1 DEF IInv, Listening, Registered
<1>3. /\ outPort \in [Talks -> Seq(Nat)] /\ events \in [Nodes -> Seq(Nodes)]
      /\ sent \in [Talks -> Nat] /\ sent[t] + 1 \in Nat
  BY DEF IInv, TypeOK
<1>4. /\ outPort'[t] = Append(outPort[t], sent[t] + 1)
      /\ outPort'[t] \in Seq(Nat)
      /\ Len(outPort'[t]) = Len(outPort[t]) + 1
      /\ \A u \in Talks : u # t => outPort'[u] = outPort[u]
  BY <1>1, <1>3, AppendProperties
<1>5. /\ events'[n] = Append(events[n], p)
      /\ events'[n] \in Seq(Nodes)
      /\ \A m \in Nodes : m # n => events'[m] = events[m]
  BY <1>0, <1>1, <1>2, <1>3, AppendProperties
<1>6. TypeOK'
  <2>1. outPort' \in [Talks -> Seq(Nat)] /\ events' \in [Nodes -> Seq(Nodes)]
    BY <1>1, <1>3, <1>4, <1>5
  <2>2. sent' \in [Talks -> Nat]
    BY <1>1, <1>3
  <2>3. QED
    BY <1>1, <2>1, <2>2 DEF IInv, TypeOK
<1>7. OneEventEach'
  <2>1. \A e : Count(events'[n], e) = Count(events[n], e) + (IF p = e THEN 1 ELSE 0)
    BY <1>0, <1>3, <1>5, CountAppend
  <2>2. ASSUME NEW u \in Talks
        PROVE  Count(events'[u[1]], u[2]) = Len(outPort'[u])
    <3>0. /\ u[1] \in Nodes /\ u = <<u[1], u[2]>>
          /\ Count(events[u[1]], u[2]) = Len(outPort[u])
          /\ Len(outPort[u]) \in Nat
      BY <1>3, TalkFacts DEF IInv, OneEventEach
    <3>1. CASE u = t
      <4>1. u[1] = n /\ u[2] = p
        BY <3>1 DEF n, p
      <4>2. QED
        BY <1>4, <2>1, <3>0, <3>1, <4>1
    <3>2. CASE u # t /\ u[1] = n
      <4>1. u[2] # p
        BY <1>0, <3>0, <3>2
      <4>2. QED
        BY <1>4, <2>1, <3>0, <3>2, <4>1
    <3>3. CASE u # t /\ u[1] # n
      BY <1>4, <1>5, <3>0, <3>3
    <3>4. QED
      BY <3>1, <3>2, <3>3
  <2>3. ASSUME NEW m \in Nodes, NEW i \in DOMAIN events'[m]
        PROVE  <<m, events'[m][i]>> \in Talks
    <3>1. CASE m = n
      <4>1. \A j \in DOMAIN events[n] : <<n, events[n][j]>> \in Talks
        BY <1>0 DEF IInv, OneEventEach
      <4>2. /\ events[n] \in Seq(Nodes)
            /\ i \in 1 .. Len(events[n]) + 1
            /\ DOMAIN events[n] = 1 .. Len(events[n])
        BY <1>0, <1>3, <1>5, <3>1
      <4>3. CASE i = Len(events[n]) + 1
        <5>1. events'[n][i] = p
          BY <1>0, <1>5, <4>2, <4>3, AppendProperties
        <5>2. QED
          BY <1>0, <3>1, <5>1
      <4>4. CASE i # Len(events[n]) + 1
        <5>1. i \in 1 .. Len(events[n]) /\ events'[n][i] = events[n][i]
          BY <1>0, <1>5, <3>1, <4>2, <4>4
        <5>2. QED
          BY <3>1, <4>1, <4>2, <5>1
      <4>5. QED
        BY <4>3, <4>4
    <3>2. CASE m # n
      BY <1>5, <3>2 DEF IInv, OneEventEach
    <3>3. QED
      BY <3>1, <3>2
  <2>4. QED
    BY <2>2, <2>3 DEF OneEventEach
<1>8. Registered' /\ Listening' /\ Connected' /\ NoFault'
  BY <1>1, <1>2 DEF IInv, Registered, Listening, Connected, NoFault
<1>9. QED
  BY <1>6, <1>7, <1>8 DEF IInv

(* An event of a port means that there is a message in it.                   *)
LEMMA EventMeansMessage ==
    ASSUME IInv, NEW t \in Talks, NEW i \in DOMAIN events[t[1]],
           events[t[1]][i] = t[2]
    PROVE  outPort[t] # <<>>
<1>1. events[t[1]] \in Seq(Nodes)
  BY TalkFacts DEF IInv, TypeOK
<1>2. Occurrences(events[t[1]], t[2]) # {}
  BY DEF Occurrences
<1>3. Len(outPort[t]) # 0
  BY <1>1, <1>2, CountType DEF IInv, OneEventEach
<1>4. QED
  BY <1>3

\* The ports whose messages node n's service handles when it wakes for k events.
WokenBy(n, k) == {t \in Talks : t[1] = n /\ t[2] \in {events[n][i] : i \in 1 .. k}}

(* What one run of a service's loop changes.                                 *)
LEMMA ForwardOutputFacts ==
    ASSUME IInv, NEW n \in Nodes, ForwardOutput(n)
    PROVE  \E k \in 1 .. Len(events[n]) :
             /\ Cardinality({events[n][i] : i \in 1 .. k}) = k
             /\ events' = [events EXCEPT ![n] = SubSeq(@, k + 1, Len(@))]
             /\ \A t \in WokenBy(n, k) :
                    /\ outPort[t] # <<>>
                    /\ routed'[t] = Append(routed[t], Head(outPort[t]))
                    /\ outPort'[t] = Tail(outPort[t])
             /\ \A t \in Talks \ WokenBy(n, k) :
                    routed'[t] = routed[t] /\ outPort'[t] = outPort[t]
             /\ routed' = [t \in Talks |-> routed'[t]]
             /\ outPort' = [t \in Talks |-> outPort'[t]]
             /\ UNCHANGED <<setup, inBuffer, sent, received, fault>>
<1>1. PICK k \in 1 .. Len(events[n]) :
        LET woken == {events[n][i] : i \in 1 .. k}
            Woken(t) == t[1] = n /\ t[2] \in woken
        IN  /\ Cardinality(woken) = k
            /\ routed' = [t \in Talks |->
                   IF Woken(t) THEN Append(routed[t], Head(outPort[t])) ELSE routed[t]]
            /\ outPort' = [t \in Talks |->
                   IF Woken(t) THEN Tail(outPort[t]) ELSE outPort[t]]
            /\ events' = [events EXCEPT ![n] = SubSeq(@, k + 1, Len(@))]
            /\ UNCHANGED <<setup, inBuffer, sent, received, fault>>
  BY Zenon DEF ForwardOutput
<1>2. ASSUME NEW t \in WokenBy(n, k)
      PROVE  /\ outPort[t] # <<>>
             /\ routed'[t] = Append(routed[t], Head(outPort[t]))
             /\ outPort'[t] = Tail(outPort[t])
  <2>1. t \in Talks /\ t[1] = n /\ t[2] \in {events[n][i] : i \in 1 .. k}
    BY DEF WokenBy
  <2>2. PICK i \in 1 .. k : events[n][i] = t[2]
    BY <2>1
  <2>3. i \in DOMAIN events[n]
    <3>1. events[n] \in Seq(Nodes)
      BY DEF IInv, TypeOK
    <3>2. QED
      BY <3>1
  <2>4. outPort[t] # <<>>
    BY <2>1, <2>2, <2>3, EventMeansMessage
  <2>5. QED
    BY <1>1, <2>1, <2>4, Zenon
<1>3. ASSUME NEW t \in Talks \ WokenBy(n, k)
      PROVE  routed'[t] = routed[t] /\ outPort'[t] = outPort[t]
  <2>1. t \in Talks /\ ~(t[1] = n /\ t[2] \in {events[n][i] : i \in 1 .. k})
    BY DEF WokenBy
  <2>2. QED
    BY <1>1, <2>1, Zenon
<1>4. /\ routed' = [t \in Talks |-> routed'[t]]
      /\ outPort' = [t \in Talks |-> outPort'[t]]
  <2>1. /\ routed' \in [Talks -> {routed'[t] : t \in Talks}]
        /\ outPort' \in [Talks -> {outPort'[t] : t \in Talks}]
    BY <1>1
  <2>2. QED
    BY <2>1
<1>5. QED
  BY <1>1, <1>2, <1>3, <1>4, Zenon

(* ForwardOutput: one message of each port that has an event is passed on.   *)
LEMMA ForwardOutputInv ==
    ASSUME IInv, NEW n \in Nodes, ForwardOutput(n)
    PROVE  IInv'
<1>1. PICK k \in 1 .. Len(events[n]) :
             /\ Cardinality({events[n][i] : i \in 1 .. k}) = k
             /\ events' = [events EXCEPT ![n] = SubSeq(@, k + 1, Len(@))]
             /\ \A t \in WokenBy(n, k) :
                    /\ outPort[t] # <<>>
                    /\ routed'[t] = Append(routed[t], Head(outPort[t]))
                    /\ outPort'[t] = Tail(outPort[t])
             /\ \A t \in Talks \ WokenBy(n, k) :
                    routed'[t] = routed[t] /\ outPort'[t] = outPort[t]
             /\ routed' = [t \in Talks |-> routed'[t]]
             /\ outPort' = [t \in Talks |-> outPort'[t]]
             /\ UNCHANGED <<setup, inBuffer, sent, received, fault>>
  BY ForwardOutputFacts
<1>2. /\ outPort \in [Talks -> Seq(Nat)] /\ routed \in [Talks -> Seq(Nat)]
      /\ events \in [Nodes -> Seq(Nodes)] /\ events[n] \in Seq(Nodes)
  BY DEF IInv, TypeOK
<1>3. \A t \in WokenBy(n, k) :
        /\ t \in Talks
        /\ routed'[t] \in Seq(Nat)
        /\ outPort'[t] \in Seq(Nat)
        /\ Len(outPort'[t]) = Len(outPort[t]) - 1
  <2>1. ASSUME NEW t \in WokenBy(n, k)
        PROVE  t \in Talks /\ routed[t] \in Seq(Nat) /\ outPort[t] \in Seq(Nat)
    BY <1>2 DEF WokenBy
  <2>2. QED
    BY <1>1, <2>1, HandOver
<1>4. routed' \in [Talks -> Seq(Nat)] /\ outPort' \in [Talks -> Seq(Nat)]
  <2>1. \A t \in Talks : routed'[t] \in Seq(Nat) /\ outPort'[t] \in Seq(Nat)
    BY <1>1, <1>2, <1>3
  <2>2. QED
    BY <1>1, <2>1
<1>5. /\ events'[n] = SubSeq(events[n], k + 1, Len(events[n]))
      /\ events'[n] \in Seq(Nodes)
      /\ \A m \in Nodes : m # n => events'[m] = events[m]
      /\ events' \in [Nodes -> Seq(Nodes)]
  <2>1. SubSeq(events[n], k + 1, Len(events[n])) \in Seq(Nodes)
    BY <1>2
  <2>2. QED
    BY <1>1, <1>2, <2>1
<1>6. TypeOK'
  BY <1>1, <1>4, <1>5 DEF IInv, TypeOK, setup
<1>7. OneEventEach'
  <2>1. \A e : Count(events'[n], e)
                 = Count(events[n], e) - (IF e \in {events[n][i] : i \in 1 .. k} THEN 1 ELSE 0)
    <3>1. Cardinality({events[n][i] : i \in 1 .. k}) = k /\ events[n] \in Seq(Nodes)
      BY <1>1, <1>2
    <3>2. ASSUME NEW e
          PROVE  Count(SubSeq(events[n], k + 1, Len(events[n])), e)
                   = Count(events[n], e)
                       - (IF e \in {events[n][i] : i \in 1 .. k} THEN 1 ELSE 0)
      BY <3>1, CountDropDistinct, Zenon
    <3>3. QED
      BY <1>5, <3>2, Zenon
  <2>2. ASSUME NEW t \in Talks
        PROVE  Count(events'[t[1]], t[2]) = Len(outPort'[t])
    <3>0. /\ t[1] \in Nodes
          /\ Count(events[t[1]], t[2]) = Len(outPort[t])
      BY TalkFacts DEF IInv, OneEventEach
    <3>1. CASE t \in WokenBy(n, k)
      BY <1>3, <2>1, <3>0, <3>1 DEF WokenBy
    <3>2. CASE t \notin WokenBy(n, k) /\ t[1] = n
      <4>1. t[2] \notin {events[n][i] : i \in 1 .. k}
        BY <3>2 DEF WokenBy
      <4>2. Count(events'[n], t[2]) = Count(events[n], t[2])
        <5>1. Count(events[n], t[2]) \in Nat
          BY <1>2, CountType
        <5>2. Count(events'[n], t[2]) = Count(events[n], t[2]) - 0
          BY <2>1, <4>1
        <5>3. QED
          BY <5>1, <5>2
      <4>3. QED
        BY <1>1, <3>0, <3>2, <4>2
    <3>3. CASE t[1] # n
      <4>1. t \notin WokenBy(n, k)
        BY <3>3 DEF WokenBy
      <4>2. QED
        BY <1>1, <1>5, <3>0, <3>3, <4>1
    <3>4. QED
      BY <3>1, <3>2, <3>3
  <2>3. ASSUME NEW m \in Nodes, NEW i \in DOMAIN events'[m]
        PROVE  <<m, events'[m][i]>> \in Talks
    <3>1. CASE m = n
      <4>1. i + k \in DOMAIN events[n] /\ events'[n][i] = events[n][i + k]
        <5>1. LET t == SubSeq(events[n], k + 1, Len(events[n]))
              IN  \A j \in DOMAIN t : j + k \in DOMAIN events[n] /\ t[j] = events[n][j + k]
          BY <1>2, Dropped
        <5>2. QED
          BY <1>5, <3>1, <5>1, Zenon
      <4>2. QED
        BY <3>1, <4>1 DEF IInv, OneEventEach
    <3>2. CASE m # n
      BY <1>5, <3>2 DEF IInv, OneEventEach
    <3>3. QED
      BY <3>1, <3>2
  <2>4. QED
    BY <2>2, <2>3 DEF OneEventEach
<1>8. Connected'
  <2>1. ASSUME NEW t \in Talks, outPort'[t] # <<>> \/ routed'[t] # <<>>
        PROVE  unregistered = {}
    <3>1. CASE t \in WokenBy(n, k)
      BY <1>1, <3>1 DEF IInv, Connected
    <3>2. CASE t \notin WokenBy(n, k)
      BY <1>1, <2>1, <3>2 DEF IInv, Connected
    <3>3. QED
      BY <3>1, <3>2
  <2>2. QED
    BY <1>1, <2>1 DEF Connected, setup
<1>9. Registered' /\ Listening' /\ NoFault'
  BY <1>1 DEF IInv, Registered, Listening, NoFault, setup
<1>10. QED
  BY <1>6, <1>7, <1>8, <1>9 DEF IInv

(* The set-up is complete: the service knows where the message comes from.   *)
LEMMA ReceiveQnosMessageFacts ==
    ASSUME IInv, NEW t \in Talks, ReceiveQnosMessage(t[1], t[2])
    PROVE  /\ routed[t] # <<>>
           /\ unregistered = {}
           /\ routed' = [routed EXCEPT ![t] = Tail(@)]
           /\ inBuffer' = [inBuffer EXCEPT ![t] = Append(@, Head(routed[t]))]
           /\ UNCHANGED <<setup, outPort, events, sent, received, fault>>
<1>1. t[1] \in Nodes /\ t[2] \in Nodes /\ t[1] # t[2] /\ t = <<t[1], t[2]>>
  BY TalkFacts
<1>2. routed[t] # <<>>
  BY <1>1 DEF ReceiveQnosMessage
<1>3. unregistered = {}
  BY <1>2 DEF IInv, Connected
<1>4. t[1] \in toName[t[2]]
  BY <1>1, <1>3 DEF IInv, Registered
<1>5. QED
  BY <1>1, <1>2, <1>3, <1>4 DEF ReceiveQnosMessage

(* ReceiveQnosMessage: a message is put on the port of its origin.           *)
LEMMA ReceiveQnosMessageInv ==
    ASSUME IInv, NEW t \in Talks, ReceiveQnosMessage(t[1], t[2])
    PROVE  IInv'
<1>1. /\ routed[t] # <<>>
      /\ unregistered = {}
      /\ routed' = [routed EXCEPT ![t] = Tail(@)]
      /\ inBuffer' = [inBuffer EXCEPT ![t] = Append(@, Head(routed[t]))]
      /\ UNCHANGED <<unregistered, toName, listensTo, outPort, events, sent,
                     received, fault>>
  BY ReceiveQnosMessageFacts DEF setup
<1>2. routed \in [Talks -> Seq(Nat)] /\ inBuffer \in [Talks -> Seq(Nat)]
  BY DEF IInv, TypeOK
<1>3. Append(inBuffer[t], Head(routed[t])) \in Seq(Nat) /\ Tail(routed[t]) \in Seq(Nat)
  BY <1>1, <1>2, HandOver
<1>4. TypeOK'
  <2>1. routed' \in [Talks -> Seq(Nat)] /\ inBuffer' \in [Talks -> Seq(Nat)]
    BY <1>1, <1>2, <1>3
  <2>2. QED
    BY <1>1, <2>1 DEF IInv, TypeOK
<1>5. Registered' /\ Listening' /\ OneEventEach' /\ Connected' /\ NoFault'
  BY <1>1 DEF IInv, Registered, Listening, OneEventEach, Connected, NoFault
<1>6. QED
  BY <1>4, <1>5 DEF IInv

(* ReceivePeerMsg: a network stack takes a peer's message.                   *)
LEMMA ReceivePeerMsgInv ==
    ASSUME IInv, NEW t \in Talks, ReceivePeerMsg(t[1], t[2])
    PROVE  IInv'
<1>0. t = <<t[1], t[2]>>
  BY TalkFacts
<1>1. /\ inBuffer[t] # <<>>
      /\ inBuffer' = [inBuffer EXCEPT ![t] = Tail(@)]
      /\ received' = [received EXCEPT ![t] = Append(@, Head(inBuffer[t]))]
      /\ UNCHANGED <<unregistered, toName, listensTo, outPort, events, routed, sent,
                     fault>>
  BY <1>0 DEF ReceivePeerMsg, setup
<1>2. received \in [Talks -> Seq(Nat)] /\ inBuffer \in [Talks -> Seq(Nat)]
  BY DEF IInv, TypeOK
<1>3. Append(received[t], Head(inBuffer[t])) \in Seq(Nat) /\ Tail(inBuffer[t]) \in Seq(Nat)
  BY <1>1, <1>2, HandOver
<1>4. TypeOK'
  <2>1. received' \in [Talks -> Seq(Nat)] /\ inBuffer' \in [Talks -> Seq(Nat)]
    BY <1>1, <1>2, <1>3
  <2>2. QED
    BY <1>1, <2>1 DEF IInv, TypeOK
<1>5. Registered' /\ Listening' /\ OneEventEach' /\ Connected' /\ NoFault'
  BY <1>1 DEF IInv, Registered, Listening, OneEventEach, Connected, NoFault
<1>6. QED
  BY <1>4, <1>5 DEF IInv

-----------------------------------------------------------------------------
(* The inductive invariant holds initially and in every step.                *)

(* Nothing is registered, underway or received at first.                     *)
LEMMA InitIInv == Init => IInv
<1> SUFFICES ASSUME Init
             PROVE  IInv
  OBVIOUS
<1>1. TypeOK
  <2>1. \A S : <<>> \in Seq(S)
    BY EmptySeq
  <2>2. QED
    BY <2>1 DEF Init, TypeOK
<1>2. Registered
  <2>1. ASSUME NEW n \in Nodes, NEW p \in Nodes, n # p
        PROVE  {n, p} \in unregistered
    <3>1. Cardinality({n, p}) = 2
      <4>1. IsFiniteSet({n}) /\ Cardinality({n}) = 1
        BY FS_Singleton
      <4>2. Cardinality({n} \cup {p}) = Cardinality({n}) + 1
        BY <2>1, <4>1, FS_AddElement
      <4>3. {n, p} = {n} \cup {p}
        OBVIOUS
      <4>4. QED
        BY <4>1, <4>2, <4>3
    <3>2. QED
      BY <3>1 DEF Init
  <2>2. QED
    BY <2>1 DEF Registered
<1>3. Listening /\ Connected /\ NoFault
  BY DEF Init, Listening, Connected, NoFault
<1>4. OneEventEach
  <2>1. \A n \in Nodes : events[n] = <<>> /\ DOMAIN events[n] = {}
    BY DEF Init
  <2>2. \A t \in Talks : outPort[t] = <<>> /\ Len(outPort[t]) = 0
    BY DEF Init
  <2>3. QED
    BY <2>1, <2>2, CountEmpty, TalkFacts DEF OneEventEach
<1>5. QED
  BY <1>1, <1>2, <1>3, <1>4 DEF IInv

(* Every step preserves the inductive invariant.                             *)
LEMMA NextIInv == IInv /\ [Next]_vars => IInv'
<1> SUFFICES ASSUME IInv, [Next]_vars
             PROVE  IInv'
  OBVIOUS
<1>1. CASE \E pair \in unregistered : RegisterPeer(pair)
  BY <1>1, RegisterPeerInv
<1>2. CASE \E n \in Nodes : Start(n)
  BY <1>2, StartInv
<1>3. CASE \E n \in Nodes : ForwardOutput(n)
  BY <1>3, ForwardOutputInv
<1>4. CASE \E t \in Talks : SendPeerMsg(t[1], t[2])
  BY <1>4, SendPeerMsgInv
<1>5. CASE \E t \in Talks : ReceiveQnosMessage(t[1], t[2])
  BY <1>5, ReceiveQnosMessageInv
<1>6. CASE \E t \in Talks : ReceivePeerMsg(t[1], t[2])
  BY <1>6, ReceivePeerMsgInv
<1>7. CASE UNCHANGED vars
  BY <1>7 DEF vars, setup, queues, IInv, TypeOK, Registered, Listening,
              OneEventEach, Connected, NoFault
<1>8. QED
  BY <1>1, <1>2, <1>3, <1>4, <1>5, <1>6, <1>7 DEF Next

(* The inductive invariant of the set-up, the services and their ports.      *)
THEOREM Invariance == Spec => []IInv
BY InitIInv, NextIInv, PTL DEF Spec

(* However it starts and whoever sends, no service ever raises "Unknown       *)
(* source": every origin was registered before any message could be sent.     *)
THEOREM NoUnknownSource == Spec => []NoFault
<1>1. IInv => NoFault
  BY DEF IInv
<1>2. QED
  BY <1>1, Invariance, PTL

-----------------------------------------------------------------------------
(* Refinement: what is underway from one node to another, wherever it is, is *)
(* one FIFO queue.                                                           *)

Underway == [t \in Talks |-> inBuffer[t] \o routed[t] \o outPort[t]]

(* The queues of one direction are sequences, and so is their concatenation. *)
LEMMA UnderwayType ==
    ASSUME IInv, NEW t \in Talks
    PROVE  /\ inBuffer[t] \in Seq(Nat) /\ routed[t] \in Seq(Nat)
           /\ outPort[t] \in Seq(Nat)
           /\ inBuffer[t] \o routed[t] \in Seq(Nat)
           /\ Underway[t] = (inBuffer[t] \o routed[t]) \o outPort[t]
<1>1. inBuffer[t] \in Seq(Nat) /\ routed[t] \in Seq(Nat) /\ outPort[t] \in Seq(Nat)
  BY DEF IInv, TypeOK
<1>2. QED
  BY <1>1, ConcatProperties DEF Underway

(* A message sent joins the end of the queue to its peer.                    *)
LEMMA SendRefines ==
    ASSUME IInv, NEW t \in Talks, SendPeerMsg(t[1], t[2])
    PROVE  Channel!Send(t)
<1>1. /\ sent' = [sent EXCEPT ![t] = @ + 1]
      /\ outPort' = [outPort EXCEPT ![t] = Append(@, sent[t] + 1)]
      /\ UNCHANGED <<routed, inBuffer, received>>
  BY TalkFacts DEF SendPeerMsg
<1>2. outPort \in [Talks -> Seq(Nat)] /\ sent[t] + 1 \in Nat
  BY DEF IInv, TypeOK
<1>3. Underway'[t] = Append(Underway[t], sent[t] + 1)
  <2>1. Underway'[t] = (inBuffer[t] \o routed[t]) \o Append(outPort[t], sent[t] + 1)
    BY <1>1, <1>2 DEF Underway
  <2> DEFINE b == inBuffer[t] \o routed[t]
             c == outPort[t]
             x == sent[t] + 1
  <2>2. b \in Seq(Nat) /\ c \in Seq(Nat) /\ x \in Nat /\ Underway[t] = b \o c
    BY <1>2, UnderwayType
  <2> HIDE DEF b, c, x
  <2>3. b \o Append(c, x) = Append(b \o c, x)
    BY <2>2, AppendLast
  <2>4. QED
    BY <2>1, <2>2, <2>3, Zenon DEF b, c, x
<1>4. \A u \in Talks : u # t => Underway'[u] = Underway[u]
  BY <1>1, <1>2 DEF Underway
<1>5. Underway' = [Underway EXCEPT ![t] = Append(@, sent[t] + 1)]
  <2>1. /\ Underway' = [u \in Talks |-> Underway'[u]]
        /\ Underway = [u \in Talks |-> Underway[u]]
    BY DEF Underway
  <2>2. QED
    BY <1>3, <1>4, <2>1
<1>6. QED
  BY <1>1, <1>5 DEF Channel!Send, Underway

(* Handing a message from a port to the routing service, whoever else does   *)
(* so at the same time, moves it within its queue.                           *)
LEMMA ForwardRefines ==
    ASSUME IInv, NEW n \in Nodes, ForwardOutput(n)
    PROVE  UNCHANGED Channel!vars
<1>1. PICK k \in 1 .. Len(events[n]) :
             /\ \A t \in WokenBy(n, k) :
                    /\ outPort[t] # <<>>
                    /\ routed'[t] = Append(routed[t], Head(outPort[t]))
                    /\ outPort'[t] = Tail(outPort[t])
             /\ \A t \in Talks \ WokenBy(n, k) :
                    routed'[t] = routed[t] /\ outPort'[t] = outPort[t]
             /\ UNCHANGED <<inBuffer, sent, received>>
  BY ForwardOutputFacts
<1>2. ASSUME NEW t \in Talks
      PROVE  Underway'[t] = Underway[t]
  <2> DEFINE a == inBuffer[t]
             b == routed[t]
             c == outPort[t]
  <2>1. a \in Seq(Nat) /\ b \in Seq(Nat) /\ c \in Seq(Nat)
    BY UnderwayType
  <2>2. CASE t \in WokenBy(n, k)
    <3>1. (a \o Append(b, Head(c))) \o Tail(c) = (a \o b) \o c
      BY <1>1, <2>1, <2>2, HandOverBehind
    <3>2. Underway'[t] = (a \o Append(b, Head(c))) \o Tail(c)
      BY <1>1, <2>2 DEF Underway
    <3>3. Underway[t] = (a \o b) \o c
      BY DEF Underway
    <3> HIDE DEF a, b, c
    <3>4. QED
      BY <3>1, <3>2, <3>3, Zenon
  <2>3. CASE t \notin WokenBy(n, k)
    BY <1>1, <2>3 DEF Underway
  <2>4. QED
    BY <2>2, <2>3
<1>3. Underway' = Underway
  <2>1. /\ Underway' = [u \in Talks |-> Underway'[u]]
        /\ Underway = [u \in Talks |-> Underway[u]]
    BY DEF Underway
  <2>2. QED
    BY <1>2, <2>1
<1>4. QED
  BY <1>1, <1>3 DEF Channel!vars, Underway

(* So does delivering it to the service of its peer.                         *)
LEMMA DeliverRefines ==
    ASSUME IInv, NEW t \in Talks, ReceiveQnosMessage(t[1], t[2])
    PROVE  UNCHANGED Channel!vars
<1>1. /\ routed[t] # <<>>
      /\ routed' = [routed EXCEPT ![t] = Tail(@)]
      /\ inBuffer' = [inBuffer EXCEPT ![t] = Append(@, Head(routed[t]))]
      /\ UNCHANGED <<outPort, sent, received>>
  BY ReceiveQnosMessageFacts
<1>2. routed \in [Talks -> Seq(Nat)] /\ inBuffer \in [Talks -> Seq(Nat)]
  BY DEF IInv, TypeOK
<1>3. Underway'[t] = Underway[t]
  <2> DEFINE a == inBuffer[t]
             b == routed[t]
             c == outPort[t]
  <2>1. Append(a, Head(b)) \o Tail(b) = a \o b
    BY <1>1, <1>2, HandOver
  <2>2. Underway'[t] = (Append(a, Head(b)) \o Tail(b)) \o c
    BY <1>1, <1>2 DEF Underway
  <2>3. Underway[t] = (a \o b) \o c
    BY DEF Underway
  <2> HIDE DEF a, b, c
  <2>4. QED
    BY <2>1, <2>2, <2>3, Zenon
<1>4. \A u \in Talks : u # t => Underway'[u] = Underway[u]
  BY <1>1, <1>2 DEF Underway
<1>5. Underway' = Underway
  <2>1. /\ Underway' = [u \in Talks |-> Underway'[u]]
        /\ Underway = [u \in Talks |-> Underway[u]]
    BY DEF Underway
  <2>2. QED
    BY <1>3, <1>4, <2>1
<1>6. QED
  BY <1>1, <1>5 DEF Channel!vars, Underway

(* The network stack takes the first message of the queue.                   *)
LEMMA ReceiveRefines ==
    ASSUME IInv, NEW t \in Talks, ReceivePeerMsg(t[1], t[2])
    PROVE  Channel!Receive(t)
<1>1. /\ inBuffer[t] # <<>>
      /\ inBuffer' = [inBuffer EXCEPT ![t] = Tail(@)]
      /\ received' = [received EXCEPT ![t] = Append(@, Head(inBuffer[t]))]
      /\ UNCHANGED <<routed, outPort, sent>>
  BY TalkFacts DEF ReceivePeerMsg
<1>2. inBuffer \in [Talks -> Seq(Nat)]
  BY DEF IInv, TypeOK
<1> DEFINE a == inBuffer[t]
           b == routed[t]
           c == outPort[t]
<1>3. /\ Underway[t] # <<>>
      /\ Head(Underway[t]) = Head(a)
      /\ Underway'[t] = Tail(Underway[t])
  <2>1. /\ a \in Seq(Nat) /\ b \in Seq(Nat) /\ c \in Seq(Nat) /\ a \o b \in Seq(Nat)
        /\ Underway[t] = (a \o b) \o c
    BY UnderwayType
  <2>2. Underway'[t] = (Tail(a) \o b) \o c
    BY <1>1, <1>2 DEF Underway
  <2> HIDE DEF a, b, c
  <2>3. a # <<>>
    BY <1>1 DEF a
  <2>4. a \o b # <<>> /\ Head(a \o b) = Head(a) /\ Tail(a \o b) = Tail(a) \o b
    BY <2>1, <2>3, TakeFirst
  <2>5. /\ (a \o b) \o c # <<>>
        /\ Head((a \o b) \o c) = Head(a \o b)
        /\ Tail((a \o b) \o c) = Tail(a \o b) \o c
    BY <2>1, <2>4, TakeFirst
  <2>6. QED
    BY <2>1, <2>2, <2>4, <2>5, Zenon
<1>4. \A u \in Talks : u # t => Underway'[u] = Underway[u]
  BY <1>1, <1>2 DEF Underway
<1>5. Underway' = [Underway EXCEPT ![t] = Tail(@)]
  <2>1. /\ Underway' = [u \in Talks |-> Underway'[u]]
        /\ Underway = [u \in Talks |-> Underway[u]]
    BY DEF Underway
  <2>2. QED
    BY <1>3, <1>4, <2>1
<1>6. received' = [received EXCEPT ![t] = Append(@, Head(Underway[t]))]
  BY <1>1, <1>3
<1>7. QED
  BY <1>1, <1>3, <1>5, <1>6 DEF Channel!Receive, Underway

(* The initial states are the channel's.                                     *)
LEMMA InitRefines == Init => Channel!Init
<1> SUFFICES ASSUME Init
             PROVE  Channel!Init
  OBVIOUS
<1>1. \A t \in Talks : inBuffer[t] \o routed[t] \o outPort[t] = <<>>
  <2>1. \A t \in Talks : inBuffer[t] = <<>> /\ routed[t] = <<>> /\ outPort[t] = <<>>
    BY DEF Init
  <2>2. <<>> \o <<>> \o <<>> = <<>>
    BY EmptySeq, ConcatEmptySeq
  <2>3. QED
    BY <2>1, <2>2
<1>2. QED
  BY <1>1 DEF Init, Channel!Init

(* Every step is one of the channel's, or none.                              *)
LEMMA NextRefines == IInv /\ [Next]_vars => [Channel!Next]_(Channel!vars)
<1> SUFFICES ASSUME IInv, [Next]_vars
             PROVE  [Channel!Next]_(Channel!vars)
  OBVIOUS
<1>1. CASE \E t \in Talks : SendPeerMsg(t[1], t[2])
  BY <1>1, SendRefines DEF Channel!Next
<1>2. CASE \E t \in Talks : ReceivePeerMsg(t[1], t[2])
  BY <1>2, ReceiveRefines DEF Channel!Next
<1>3. CASE \E t \in Talks : ReceiveQnosMessage(t[1], t[2])
  BY <1>3, DeliverRefines
<1>4. CASE \E n \in Nodes : ForwardOutput(n)
  BY <1>4, ForwardRefines
<1>5. CASE \E pair \in unregistered : RegisterPeer(pair)
  BY <1>5 DEF RegisterPeer, queues, Channel!vars
<1>6. CASE \E n \in Nodes : Start(n)
  BY <1>6 DEF Start, queues, Channel!vars
<1>7. CASE UNCHANGED vars
  BY <1>7 DEF vars, queues, Channel!vars
<1>8. QED
  BY <1>1, <1>2, <1>3, <1>4, <1>5, <1>6, <1>7 DEF Next

(* The safety part of Implements: between any two nodes the services make a   *)
(* channel that keeps messages in order, loses none, doubles none and         *)
(* delivers none to anybody else.                                             *)
THEOREM ImplementsChannel ==
    Spec => Channel!Init /\ [][Channel!Next]_(Channel!vars)
BY InitIInv, InitRefines, NextRefines, Invariance, PTL DEF Spec
=============================================================================
