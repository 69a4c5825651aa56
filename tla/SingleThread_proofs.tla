-------------------------- MODULE SingleThread_proofs --------------------------
(***************************************************************************)
(* Proofs about SingleThread, for any programs with one connection each    *)
(* and any number of rounds: a protocol pops from an empty buffer only in  *)
(* an instant in which two messages were sent to it, a program goes on     *)
(* only after its messages were handled, subroutines find their sockets    *)
(* set up in the same round, and messages are received in their round, in  *)
(* order.                                                                  *)
(*                                                                         *)
(* The invariant says what the protocols and events of an instant may look *)
(* like, then follows the messages between a host and its QNodeOS, of      *)
(* which at most one is unanswered, and those between the hosts.           *)
(***************************************************************************)
EXTENDS SingleThread, QueueLemmas

(* What the variables hold.                                                  *)

Waiting == {"receive", "await", "woken"}
HostAts == ({"off", "run", "setup", "ended"} \X {""}) \cup (Waiting \X {"result", "peer"})
Handling == {"init", "open", "subroutine", "stop", "setup", "executing"} \X {""}
QnosAts == Handling \cup {<<"off", "">>} \cup (Waiting \X {"host"})
AtsOf(p) == IF p[2] = "Host" THEN HostAts ELSE QnosAts
Asleep == {"off", "await", "setup", "executing", "ended"}

Commands == [kind : {"init", "open", "subroutine", "stop"},
             arg : {0} \cup Sockets \cup DOMAIN Subroutines, sockets : Seq(Sockets)]
MessageOf(l) == CASE l[2] = "host" -> Commands
                  [] l[2] = "result" -> Commands \cup {Nothing}
                  [] l[2] = "peer" -> Nat \X Nat

ChannelTypes ==
    /\ DOMAIN wire = Listeners /\ DOMAIN port = Listeners /\ DOMAIN buffer = Listeners
    /\ \A l \in Listeners : /\ wire[l] \in Seq(MessageOf(l))
                            /\ port[l] \in Seq(MessageOf(l))
                            /\ buffer[l] \in Seq(MessageOf(l))
    /\ signals \in [Listeners -> Nat]
    /\ sentNow \in [Listeners -> Nat]
    /\ on \subseteq Listeners

Types ==
    /\ program \in Programs
    /\ main \in {"start", "run", "end", "raised"}
    /\ round \in Nat
    /\ turn \in Seq(Protocols)
    /\ at \in [Protocols -> HostAts \cup QnosAts]
    /\ \A p \in Protocols : at[p] \in AtsOf(p)
    /\ pc \in [Nodes -> Nat]
    /\ opened \in [Nodes -> SUBSET Sockets]
    /\ current \in [Nodes -> Commands \cup {Nothing}]
    /\ got \in [Nodes -> Seq(Nat \X Nat)]
    /\ handled \in [Nodes -> Nat]
    /\ ChannelTypes

-----------------------------------------------------------------------------
(* The protocols and events of an instant.                                   *)

InTurn(p) == \E i \in DOMAIN turn : turn[i] = p

(* Who has no turn has yielded; what a listener has in its buffer is still   *)
(* announced to a reader that sleeps.                                        *)
Scheduled ==
    /\ \A p \in Protocols : ~InTurn(p) => at[p][1] \in Asleep
    /\ main \in {"start", "end"} =>
          /\ turn = <<>>
          /\ \A p \in Protocols : at[p] = <<"off", "">>
          /\ \A l \in Listeners : wire[l] = <<>> /\ signals[l] = 0
    /\ \A l \in Listeners :
          at[Reader(l)] = <<"await", l[2]>> /\ buffer[l] # <<>> => signals[l] > 0

(* What happens to a protocol in an instant in which one message, or none,   *)
(* is sent to it.                                                            *)
Uncrowded ==
    \A l \in Listeners :
        /\ Len(wire[l]) + signals[l] =< sentNow[l]
        /\ ~Crowded(Reader(l)) =>
              /\ InTurn(Reader(l)) => signals[l] = 0
              /\ signals[l] > 0 => buffer[l] # <<>>
              /\ at[Reader(l)] = <<"woken", l[2]>> => buffer[l] # <<>>

Faulty ==
    /\ fault # {} => main = "raised"
    /\ \A f \in fault : f[1] = "IndexError" => f[2] \in Listeners
    /\ CrowdedFaults

Instant == Types /\ Scheduled /\ Uncrowded /\ Faulty

-----------------------------------------------------------------------------
(* A host and its QNodeOS.                                                   *)

(* Messages that the QNodeOS has still to handle, and answers underway.      *)
Work(n) ==
    (IF at[QNodeOs(n)] \in Handling THEN <<current[n]>> ELSE <<>>)
    \o (buffer[<<n, "host">>] \o wire[<<n, "host">>])
Answers(n) == buffer[<<n, "result">>] \o wire[<<n, "result">>]

Asks(n) == at[Host(n)][2] = "result"
Off(n) == at[QNodeOs(n)] = <<"off", "">>
Final(s) == s[Len(s)]

(* How many operations of this kind node n has begun before the present one, *)
(* and how many of its messages are to be answered.                          *)
Before(n, kind) == {i \in OpsOf(n, kind) : i < pc[n]}
Done(n, kind) == Cardinality(Before(n, kind))
Asked(n) == Done(n, "flush") + Cardinality(opened[n])

Questions == {"open", "subroutine"}

(* With work w and answers ans, the QNodeOS has done so many of the messages *)
(* of its host.  The host has at most one question unanswered, and only the  *)
(* message of its connection, which is not answered, may be before it.       *)
Serve(w, ans, asks, off, entered, asked, exited, done) ==
    /\ Len(w) =< 2
    /\ Len(w) = 2 => w[1].kind = "init"
    /\ \A i \in DOMAIN w : w[i].kind = "init" => i = 1 /\ asked = (IF asks THEN 1 ELSE 0)
    /\ \A i \in DOMAIN w : w[i].kind = "stop" => i = Len(w)
    /\ done + Len(w) = entered + asked + exited
    /\ asked > 0 => entered > 0
    /\ ~asks => ans = <<>> /\ \A i \in DOMAIN w : w[i].kind \in {"init", "stop"}
    /\ asks => /\ exited = 0 /\ asked > 0
               /\ w = <<>> => Len(ans) = 1
               /\ w # <<>> => ans = <<>> /\ Final(w).kind \in Questions
    /\ (off \/ \E i \in DOMAIN w : w[i].kind = "stop") <=> exited > 0
    /\ off => w = <<>>

Served(n) == Serve(Work(n), Answers(n), Asks(n), Off(n),
                   Done(n, "enter"), Asked(n), Done(n, "exit"), handled[n])

(* The listeners are there, and what a QNodeOS does is about its message.    *)
Handles(n) ==
    /\ ~Off(n) => <<n, "host">> \in on
    /\ <<n, "result">> \in on /\ <<n, "peer">> \in on
    /\ at[QNodeOs(n)] = <<"setup", "">> => current[n].kind = "open"
    /\ at[QNodeOs(n)] = <<"executing", "">> => current[n].kind = "subroutine"
    /\ \A kind \in {"init", "open", "subroutine", "stop"} :
          at[QNodeOs(n)] = <<kind, "">> => current[n].kind = kind
    /\ IsFiniteSet(opened[n])

(* Both ends have set up socket s in this round.                             *)
Ready(s) == \A x \in Nodes : <<x, s, round>> \in circuits

(* The sockets a program may use are ready once its answers are there.       *)
Pending(n) == Asks(n) /\ Work(n) # <<>>
Usable(n) ==
    LET m == Final(Work(n))
        sub == Subroutines[m.arg]
    IN  /\ \A i \in Before(n, "setup") : Ready(program.code[n][i].arg)
        /\ \A s \in opened[n] : Ready(s) \/ (Pending(n) /\ m.kind = "open" /\ m.arg = s)
        /\ Pending(n) /\ m.kind = "subroutine" /\ sub.kind \in {"create", "recv"}
              => Ready(sub.socket)

-----------------------------------------------------------------------------
(* The two hosts.                                                            *)

Balanced == \A n \in Nodes : Cardinality(OpsOf(n, "recv")) = Cardinality(OpsOf(Peer[n], "send"))

Unread(n) == buffer[<<n, "peer">>] \o wire[<<n, "peer">>]

(* What a host does is about its operation.                                  *)
Placed(n) ==
    /\ at[Host(n)][2] = "peer" => HostOp(n).kind = "recv"
    /\ at[Host(n)] = <<"setup", "">> => HostOp(n).kind = "setup"
    /\ at[Host(n)] = <<"ended", "">> => HostOp(n).kind = "none"
    /\ pc[n] > 0 /\ at[Host(n)] # <<"off", "">>
    /\ Len(got[n]) = Done(n, "recv")

(* A program's messages of this round are those that its peer has received   *)
(* and has still to receive.                                                 *)
Delivered(n) ==
    Balanced => got[n] \o Unread(n) = [i \in 1 .. Done(Peer[n], "send") |-> <<round, i>>]

Told(n) == Placed(n) /\ Delivered(n)

-----------------------------------------------------------------------------
Rounds ==
    /\ main \in {"run", "raised"} =>
         /\ \A n \in Nodes : Served(n) /\ Handles(n) /\ Usable(n) /\ Told(n)
         /\ \A c \in circuits : c[3] = round
    /\ main \in {"start", "end"} =>
         /\ \A n \in Nodes : buffer[<<n, "host">>] = <<>> /\ buffer[<<n, "result">>] = <<>>
         /\ Balanced => \A n \in Nodes : buffer[<<n, "peer">>] = <<>>
         /\ Answered /\ OwnRound
    /\ \A l \in Listeners : port[l] = <<>>

IInv == Instant /\ Rounds

-----------------------------------------------------------------------------
(* The instant.                                                              *)

LEMMA ReaderFacts ==
    /\ \A l \in Listeners : /\ Reader(l) \in Protocols /\ l[1] \in Nodes
                            /\ l[2] \in {"peer", "result", "host"} /\ l = <<l[1], l[2]>>
                            /\ Reader(l)[1] = l[1]
    /\ \A n \in Nodes :
          /\ Host(n) \in Protocols /\ QNodeOs(n) \in Protocols /\ Host(n) # QNodeOs(n)
          /\ <<n, "peer">> \in Listeners /\ Reader(<<n, "peer">>) = Host(n)
          /\ <<n, "result">> \in Listeners /\ Reader(<<n, "result">>) = Host(n)
          /\ <<n, "host">> \in Listeners /\ Reader(<<n, "host">>) = QNodeOs(n)
          /\ AtsOf(Host(n)) = HostAts /\ AtsOf(QNodeOs(n)) = QnosAts
    /\ \A p \in Protocols : \E n \in Nodes : p = Host(n) \/ p = QNodeOs(n)
BY DEF Listeners, Protocols, Reader, Host, QNodeOs, AtsOf

(* The parts of a pair.                                                      *)
LEMMA Pairs ==
    ASSUME NEW S, NEW T, NEW a \in S \X T
    PROVE  a = <<a[1], a[2]>> /\ a[1] \in S /\ a[2] \in T
OBVIOUS

(* What a protocol does, as a pair.                                          *)
LEMMA AtFacts ==
    /\ \A a \in HostAts :
          /\ a = <<a[1], a[2]>>
          /\ a[1] \in Waiting => a[2] = "result" \/ a[2] = "peer"
          /\ a[1] \notin Waiting => a[2] = ""
    /\ \A a \in QnosAts :
          /\ a = <<a[1], a[2]>>
          /\ a[1] \in Waiting => a[2] = "host"
          /\ a[1] \notin Waiting => a[2] = ""
<1>1. ASSUME NEW a \in HostAts
      PROVE  /\ a = <<a[1], a[2]>>
             /\ a[1] \in Waiting => a[2] = "result" \/ a[2] = "peer"
             /\ a[1] \notin Waiting => a[2] = ""
  <2>1. CASE a \in {"off", "run", "setup", "ended"} \X {""}
    <3> DEFINE S == {"off", "run", "setup", "ended"}
               T == {""}
    <3>1. a \in S \X T
      BY <2>1
    <3> HIDE DEF S, T
    <3>2. a[1] \in S /\ a[2] \in T
      BY <3>1
    <3>3. a = <<a[1], a[2]>>
      BY <3>1
    <3>4. a[1] \notin Waiting /\ a[2] = ""
      BY <3>2 DEF Waiting, S, T
    <3> QED
      BY <3>3, <3>4, Zenon
  <2>2. CASE a \in Waiting \X {"result", "peer"}
    <3> DEFINE T == {"result", "peer"}
    <3>1. a \in Waiting \X T
      BY <2>2
    <3> HIDE DEF T
    <3>2. a[1] \in Waiting /\ a[2] \in T
      BY <3>1
    <3>3. a = <<a[1], a[2]>>
      BY <3>1
    <3>4. a[2] = "result" \/ a[2] = "peer"
      BY <3>2 DEF T
    <3> QED
      BY <3>2, <3>3, <3>4, Zenon
  <2> QED
    BY <1>1, <2>1, <2>2 DEF HostAts
<1>2. ASSUME NEW a \in QnosAts
      PROVE  /\ a = <<a[1], a[2]>>
             /\ a[1] \in Waiting => a[2] = "host"
             /\ a[1] \notin Waiting => a[2] = ""
  <2>1. CASE a \in Handling
    <3> DEFINE S == {"init", "open", "subroutine", "stop", "setup", "executing"}
               T == {""}
    <3>1. a \in S \X T
      BY <2>1 DEF Handling
    <3> HIDE DEF S, T
    <3>2. a[1] \in S /\ a[2] \in T
      BY <3>1
    <3>3. a = <<a[1], a[2]>>
      BY <3>1
    <3>4. a[1] \notin Waiting /\ a[2] = ""
      BY <3>2 DEF Waiting, S, T
    <3> QED
      BY <3>3, <3>4, Zenon
  <2>2. CASE a \in Waiting \X {"host"}
    <3> DEFINE T == {"host"}
    <3>1. a \in Waiting \X T
      BY <2>2
    <3> HIDE DEF T
    <3>2. a[1] \in Waiting /\ a[2] \in T
      BY <3>1
    <3>3. a = <<a[1], a[2]>>
      BY <3>1
    <3>4. a[2] = "host"
      BY <3>2 DEF T
    <3> QED
      BY <3>2, <3>3, <3>4, Zenon
  <2>3. CASE a = <<"off", "">>
    BY <2>3 DEF Waiting
  <2> QED
    BY <1>2, <2>1, <2>2, <2>3 DEF QnosAts
<1> QED
  BY <1>1, <1>2

(* The listener that a protocol wants a message of is its own.               *)
LEMMA OwnListener ==
    ASSUME Types, NEW p \in Protocols, at[p][1] \in Waiting
    PROVE  /\ <<p[1], at[p][2]>> \in Listeners
           /\ Reader(<<p[1], at[p][2]>>) = p
           /\ at[p] = <<at[p][1], at[p][2]>>
<1>1. at[p] \in AtsOf(p)
  BY DEF Types
<1>2. PICK n \in Nodes : p = Host(n) \/ p = QNodeOs(n)
  BY ReaderFacts
<1>3. CASE p = Host(n)
  <2>1. at[p] = <<at[p][1], at[p][2]>> /\ (at[p][2] = "result" \/ at[p][2] = "peer")
    <3>1. at[p] \in HostAts
      BY <1>1, <1>3, ReaderFacts
    <3> QED
      BY <3>1, AtFacts, Zenon
  <2>2. p[1] = n
    BY <1>3 DEF Host
  <2> QED
    BY <1>3, <2>1, <2>2, ReaderFacts, Zenon
<1>4. CASE p = QNodeOs(n)
  <2>1. at[p] = <<at[p][1], at[p][2]>> /\ at[p][2] = "host"
    <3>1. at[p] \in QnosAts
      BY <1>1, <1>4, ReaderFacts
    <3> QED
      BY <3>1, AtFacts, Zenon
  <2>2. p[1] = n
    BY <1>4 DEF QNodeOs
  <2> QED
    BY <1>4, <2>1, <2>2, ReaderFacts, Zenon
<1> QED
  BY <1>2, <1>3, <1>4

(* Who is to run now is one of those with a turn, and stays one until it     *)
(* gives its turn away.                                                      *)
LEMMA TurnFacts ==
    ASSUME Types, NEW p \in Protocols, Turn(p)
    PROVE  /\ InTurn(p) /\ turn # <<>> /\ main = "run"
           /\ Tail(turn) \in Seq(Protocols)
           /\ \A i \in DOMAIN Tail(turn) : i + 1 \in DOMAIN turn /\ Tail(turn)[i] = turn[i + 1]
           /\ \A i \in DOMAIN turn : turn[i] # p => i - 1 \in DOMAIN Tail(turn)
                                                    /\ Tail(turn)[i - 1] = turn[i]
<1>1. turn \in Seq(Protocols) /\ turn # <<>> /\ Head(turn) = p /\ main = "run"
  BY DEF Types, Turn, Running
<1>2. PICK k \in Nat : k = Len(turn) /\ DOMAIN turn = 1 .. k /\ k > 0 /\ turn[1] = p
  BY <1>1
<1>3. /\ Tail(turn) \in Seq(Protocols) /\ DOMAIN Tail(turn) = 1 .. k - 1
      /\ \A i \in 1 .. k - 1 : Tail(turn)[i] = turn[i + 1]
  BY <1>1, <1>2
<1> QED
  BY <1>1, <1>2, <1>3 DEF InTurn

(* More messages in the same instant only crowd it.                          *)
LEMMA CrowdedGrows ==
    ASSUME Types, Types', \A l \in Listeners : sentNow[l] =< sentNow'[l]
    PROVE  \A p : Crowded(p) => Crowded(p)'
<1>1. \A l \in Listeners : sentNow[l] \in Nat /\ sentNow'[l] \in Nat
  BY DEF Types, ChannelTypes
<1> QED
  BY <1>1 DEF Crowded, Reader

(* Messages are put on the way.                                              *)
Sends ==
    \/ UNCHANGED <<wire, sentNow>>
    \/ \E l \in Listeners : \E m : /\ wire' = [wire EXCEPT ![l] = Append(@, m)]
                                  /\ sentNow' = [sentNow EXCEPT ![l] = @ + 1]

LEMMA SendsFacts ==
    ASSUME Types, Types', Sends
    PROVE  /\ \A l \in Listeners : sentNow[l] =< sentNow'[l]
           /\ \A l \in Listeners : Len(wire'[l]) + sentNow[l] = Len(wire[l]) + sentNow'[l]
           /\ \A l \in Listeners : Len(wire[l]) \in Nat /\ Len(wire'[l]) \in Nat
<1>1. \A l \in Listeners : sentNow[l] \in Nat /\ sentNow'[l] \in Nat
  BY DEF Types, ChannelTypes
<1>2. \A l \in Listeners : /\ wire[l] \in Seq(MessageOf(l))
                           /\ wire'[l] \in Seq(MessageOf(l))
  BY DEF Types, ChannelTypes, MessageOf
<1>3. \A l \in Listeners : Len(wire[l]) \in Nat /\ Len(wire'[l]) \in Nat
  BY <1>2
<1>4. CASE UNCHANGED <<wire, sentNow>>
  BY <1>1, <1>3, <1>4
<1>5. ASSUME NEW k \in Listeners, NEW m, wire' = [wire EXCEPT ![k] = Append(@, m)],
             sentNow' = [sentNow EXCEPT ![k] = @ + 1]
      PROVE  \A l \in Listeners : /\ sentNow[l] =< sentNow'[l]
                                  /\ Len(wire'[l]) + sentNow[l] = Len(wire[l]) + sentNow'[l]
  <2>1. DOMAIN wire = Listeners /\ DOMAIN sentNow = Listeners
    BY DEF Types, ChannelTypes
  <2>2. Len(Append(wire[k], m)) = Len(wire[k]) + 1
    BY <1>2
  <2>3. wire'[k] = Append(wire[k], m) /\ sentNow'[k] = sentNow[k] + 1
    BY <1>5, <2>1
  <2>4. \A l \in Listeners : l # k => wire'[l] = wire[l] /\ sentNow'[l] = sentNow[l]
    BY <1>5, <2>1
  <2>5. ASSUME NEW l \in Listeners
        PROVE  /\ sentNow[l] =< sentNow'[l]
               /\ Len(wire'[l]) + sentNow[l] = Len(wire[l]) + sentNow'[l]
    <3>1. CASE l = k
      <4>1. Len(wire'[k]) = Len(wire[k]) + 1
        BY <2>2, <2>3
      <4>2. sentNow'[k] = sentNow[k] + 1
        BY <2>3
      <4>3. Len(wire[k]) \in Nat /\ sentNow[k] \in Nat
        BY <1>1, <1>3
      <4>4. Len(wire'[k]) + sentNow[k] = Len(wire[k]) + sentNow'[k] /\ sentNow[k] =< sentNow'[k]
        BY <4>1, <4>2, <4>3, SMTT(30)
      <4> QED
        BY <3>1, <4>4, Zenon
    <3>2. CASE l # k
      BY <1>1, <1>3, <2>4, <3>2
    <3> QED
      BY <3>1, <3>2
  <2> QED
    BY <2>5
<1> QED
  BY <1>3, <1>4, <1>5 DEF Sends

(* A protocol that has the turn goes on to a, sends a message or none, and   *)
(* keeps its turn or yields.                                                 *)
LEMMA TurnStep ==
    ASSUME Instant, Types', NEW p \in Protocols, Turn(p), NEW a,
           at' = [at EXCEPT ![p] = a], a[1] # "woken",
           a[1] = "await" => buffer[<<p[1], a[2]>>] = <<>>,
           turn' = turn \/ (turn' = Tail(turn) /\ a[1] \in Asleep),
           UNCHANGED <<program, main, fault, buffer, signals>>, Sends
    PROVE  Instant'
<1>1. /\ Types /\ main = "run" /\ main' = "run" /\ InTurn(p)
      /\ \A q \in Protocols : at'[q] = IF q = p THEN a ELSE at[q]
  BY TurnFacts DEF Instant, Types
<1>2. /\ \A q \in Protocols : q # p => (InTurn(q)' <=> InTurn(q))
      /\ InTurn(p)' \/ a[1] \in Asleep
  <2>1. CASE turn' = turn
    BY <1>1, <2>1 DEF InTurn
  <2>2. CASE turn' = Tail(turn) /\ a[1] \in Asleep
    <3>1. ASSUME NEW q \in Protocols, q # p, InTurn(q)
          PROVE  InTurn(q)'
      <4>1. PICK i \in DOMAIN turn : turn[i] = q
        BY <3>1 DEF InTurn
      <4>2. i - 1 \in DOMAIN turn' /\ turn'[i - 1] = q
        BY <1>1, <2>2, <3>1, <4>1, TurnFacts
      <4> QED
        BY <4>2 DEF InTurn
    <3>2. ASSUME NEW q \in Protocols, InTurn(q)'
          PROVE  InTurn(q)
      <4>1. PICK i \in DOMAIN turn' : turn'[i] = q
        BY <3>2 DEF InTurn
      <4>2. i + 1 \in DOMAIN turn /\ turn[i + 1] = q
        BY <1>1, <2>2, <4>1, TurnFacts
      <4> QED
        BY <4>2 DEF InTurn
    <3> QED
      BY <2>2, <3>1, <3>2
  <2> QED
    BY <2>1, <2>2
<1>3. \A q \in Protocols : ~InTurn(q)' => at'[q][1] \in Asleep
  BY <1>1, <1>2 DEF Instant, Scheduled
<1>4. ASSUME NEW l \in Listeners, at'[Reader(l)] = <<"await", l[2]>>, buffer'[l] # <<>>
      PROVE  signals'[l] > 0
  <2>1. Reader(l) # p
    BY <1>1, <1>4, ReaderFacts
  <2> QED
    BY <1>1, <1>4, <2>1, ReaderFacts DEF Instant, Scheduled
<1>5. Scheduled'
  BY <1>1, <1>3, <1>4 DEF Scheduled
<1>6. /\ \A q : Crowded(q) => Crowded(q)'
      /\ \A l \in Listeners : Len(wire'[l]) + sentNow[l] = Len(wire[l]) + sentNow'[l]
      /\ \A l \in Listeners : Len(wire[l]) \in Nat /\ Len(wire'[l]) \in Nat
  BY <1>1, CrowdedGrows, SendsFacts
<1>7. ASSUME NEW l \in Listeners
      PROVE  /\ Len(wire'[l]) + signals'[l] =< sentNow'[l]
             /\ ~Crowded(Reader(l))' =>
                  /\ InTurn(Reader(l))' => signals'[l] = 0
                  /\ signals'[l] > 0 => buffer'[l] # <<>>
                  /\ at'[Reader(l)] = <<"woken", l[2]>> => buffer'[l] # <<>>
  <2>1. signals[l] \in Nat /\ sentNow[l] \in Nat /\ sentNow'[l] \in Nat /\ Reader(l) \in Protocols
    BY <1>1, ReaderFacts DEF Types, ChannelTypes
  <2>2. InTurn(Reader(l))' => InTurn(Reader(l))
    BY <1>1, <1>2, <2>1
  <2>3. at'[Reader(l)] = <<"woken", l[2]>> => at[Reader(l)] = <<"woken", l[2]>>
    BY <1>1, <2>1
  <2> QED
    <3>1. Len(wire'[l]) + signals'[l] =< sentNow'[l]
      BY <1>6, <2>1 DEF Instant, Uncrowded
    <3>2. ~Crowded(Reader(l))' => ~Crowded(Reader(l))
      BY <1>6 DEF Reader
    <3> QED
      BY <2>2, <2>3, <3>1, <3>2 DEF Instant, Uncrowded
<1>8. Uncrowded'
  BY <1>7 DEF Uncrowded, Reader
<1>9. Faulty'
  BY <1>1, <1>6 DEF Instant, Faulty, CrowdedFaults, Reader
<1> QED
  BY <1>5, <1>8, <1>9 DEF Instant

-----------------------------------------------------------------------------
(* The types.                                                                *)

LEMMA HostOpFacts ==
    ASSUME Types, NEW n \in Nodes
    PROVE  /\ HostOp(n).sockets \in Seq(Sockets)
           /\ HostOp(n).kind = "setup" => HostOp(n).arg \in Sockets
           /\ HostOp(n).kind = "flush" => HostOp(n).arg \in DOMAIN Subroutines
           /\ HostOp(n).kind = "send" => HostOp(n).arg \in Nat
           /\ HostOp(n).kind # "none" => /\ pc[n] \in DOMAIN program.code[n]
                                         /\ HostOp(n) = program.code[n][pc[n]]
           /\ HostOp(n).kind = "none" => pc[n] \notin DOMAIN program.code[n]
<1>1. CASE pc[n] \in DOMAIN program.code[n]
  <2>1. HostOp(n) = program.code[n][pc[n]]
    BY <1>1 DEF HostOp
  <2>2. IsOp(HostOp(n))
    BY <1>1, <2>1, SingleThreadAssumption DEF Types
  <2> QED
    BY <1>1, <2>1, <2>2 DEF IsOp
<1>2. CASE pc[n] \notin DOMAIN program.code[n]
  <2>1. HostOp(n) = Nothing
    BY <1>2 DEF HostOp
  <2> QED
    BY <1>2, <2>1 DEF Nothing
<1> QED
  BY <1>1, <1>2

(* Queues of messages keep their types.                                      *)
LEMMA SentTypes ==
    ASSUME ChannelTypes, NEW l \in Listeners, NEW m \in MessageOf(l), Sent(l, m)
    PROVE  ChannelTypes'
<1>1. /\ DOMAIN wire' = Listeners
      /\ wire'[l] = Append(wire[l], m)
      /\ \A k \in Listeners : k # l => wire'[k] = wire[k]
  BY DEF ChannelTypes, Sent
<1>2. wire'[l] \in Seq(MessageOf(l))
  BY <1>1 DEF ChannelTypes
<1>3. sentNow' \in [Listeners -> Nat]
  BY DEF ChannelTypes, Sent
<1> QED
  BY <1>1, <1>2, <1>3 DEF ChannelTypes, MessageOf, Sent

LEMMA PoppedTypes ==
    ASSUME ChannelTypes, NEW l \in Listeners, buffer[l] # <<>>, Popped(l)
    PROVE  /\ ChannelTypes'
           /\ Head(buffer[l]) \in MessageOf(l)
           /\ buffer'[l] = Tail(buffer[l])
           /\ \A k \in Listeners : k # l => buffer'[k] = buffer[k]
<1>1. /\ DOMAIN buffer' = Listeners
      /\ buffer'[l] = Tail(buffer[l])
      /\ \A k \in Listeners : k # l => buffer'[k] = buffer[k]
  BY DEF ChannelTypes, Popped
<1>2. buffer'[l] \in Seq(MessageOf(l)) /\ Head(buffer[l]) \in MessageOf(l)
  BY <1>1 DEF ChannelTypes
<1> QED
  BY <1>1, <1>2 DEF ChannelTypes, MessageOf, Popped

LEMMA ListenTypes ==
    ASSUME ChannelTypes, NEW l \in Listeners, Listen(l)
    PROVE  /\ ChannelTypes'
           /\ wire' = [wire EXCEPT ![l] = Tail(@)]
           /\ Head(wire[l]) \in MessageOf(l)
<1> DEFINE queue == port[l] \o <<Head(wire[l])>>
<1>1. wire[l] # <<>> /\ wire' = [wire EXCEPT ![l] = Tail(@)] /\ UNCHANGED <<on, sentNow>>
  BY DEF Listen
<1>2. /\ DOMAIN wire' = Listeners
      /\ wire'[l] = Tail(wire[l])
      /\ \A k \in Listeners : k # l => wire'[k] = wire[k]
  BY <1>1 DEF ChannelTypes
<1>3. wire'[l] \in Seq(MessageOf(l)) /\ Head(wire[l]) \in MessageOf(l)
  BY <1>1, <1>2 DEF ChannelTypes
<1>4. queue \in Seq(MessageOf(l)) /\ queue # <<>>
  BY <1>3 DEF ChannelTypes
<1>5. Tail(queue) \in Seq(MessageOf(l)) /\ Head(queue) \in MessageOf(l)
  BY <1>4
<1> HIDE DEF queue
<1>6. CASE l \in on
  <2>1. /\ port' = [port EXCEPT ![l] = Tail(queue)]
        /\ buffer' = [buffer EXCEPT ![l] = Append(@, Head(queue))]
        /\ signals' = [signals EXCEPT ![l] = @ + 1]
    BY <1>6 DEF Listen, queue
  <2>2. /\ DOMAIN port' = Listeners /\ DOMAIN buffer' = Listeners
        /\ port'[l] = Tail(queue) /\ buffer'[l] = Append(buffer[l], Head(queue))
        /\ \A k \in Listeners : k # l => port'[k] = port[k] /\ buffer'[k] = buffer[k]
    BY <2>1 DEF ChannelTypes
  <2>3. buffer'[l] \in Seq(MessageOf(l))
    BY <1>5, <2>2 DEF ChannelTypes
  <2>4. signals' \in [Listeners -> Nat]
    BY <2>1 DEF ChannelTypes
  <2> QED
    BY <1>1, <1>2, <1>3, <1>5, <2>2, <2>3, <2>4 DEF ChannelTypes, MessageOf
<1>7. CASE l \notin on
  <2>1. port' = [port EXCEPT ![l] = queue] /\ UNCHANGED <<buffer, signals>>
    BY <1>7 DEF Listen, queue
  <2>2. /\ DOMAIN port' = Listeners /\ port'[l] = queue
        /\ \A k \in Listeners : k # l => port'[k] = port[k]
    BY <2>1 DEF ChannelTypes
  <2> QED
    BY <1>1, <1>2, <1>3, <1>4, <2>1, <2>2 DEF ChannelTypes, MessageOf
<1> QED
  BY <1>1, <1>3, <1>6, <1>7

LEMMA AtMembers ==
    /\ \A n \in Nodes :
          /\ \A k \in {"off", "run", "setup", "ended"} : <<k, "">> \in AtsOf(Host(n))
          /\ \A k \in Waiting : <<k, "result">> \in AtsOf(Host(n)) /\ <<k, "peer">> \in AtsOf(Host(n))
          /\ \A k \in {"off", "init", "open", "subroutine", "stop", "setup", "executing"} :
                <<k, "">> \in AtsOf(QNodeOs(n))
          /\ \A k \in Waiting : <<k, "host">> \in AtsOf(QNodeOs(n))
    /\ \A p \in Protocols : \A a \in AtsOf(p) :
          a[1] \in Waiting => \A k \in Waiting : <<k, a[2]>> \in AtsOf(p)
<1>1. /\ \A k \in {"off", "run", "setup", "ended"} : <<k, "">> \in HostAts
      /\ \A k \in Waiting : <<k, "result">> \in HostAts /\ <<k, "peer">> \in HostAts
  BY DEF HostAts
<1>2. /\ \A k \in {"off", "init", "open", "subroutine", "stop", "setup", "executing"} :
            <<k, "">> \in QnosAts
      /\ \A k \in Waiting : <<k, "host">> \in QnosAts
  BY DEF QnosAts, Handling
<1>3. ASSUME NEW p \in Protocols, NEW a \in AtsOf(p), a[1] \in Waiting, NEW k \in Waiting
      PROVE  <<k, a[2]>> \in AtsOf(p)
  <2>1. CASE AtsOf(p) = HostAts
    <3>1. a[2] = "result" \/ a[2] = "peer"
      BY <1>3, <2>1, AtFacts
    <3> QED
      BY <1>1, <1>3, <2>1, <3>1, Zenon
  <2>2. CASE AtsOf(p) = QnosAts
    <3>1. a[2] = "host"
      BY <1>3, <2>2, AtFacts
    <3> QED
      BY <1>2, <1>3, <2>2, <3>1, Zenon
  <2> QED
    BY <2>1, <2>2 DEF AtsOf
<1> QED
  BY <1>1, <1>2, <1>3, ReaderFacts, Zenon

LEMMA AtTypes ==
    ASSUME Types, NEW p \in Protocols, NEW a \in AtsOf(p), at' = [at EXCEPT ![p] = a]
    PROVE  /\ at' \in [Protocols -> HostAts \cup QnosAts]
           /\ \A q \in Protocols : at'[q] \in AtsOf(q)
           /\ \A q \in Protocols : at'[q] = IF q = p THEN a ELSE at[q]
<1>1. at \in [Protocols -> HostAts \cup QnosAts] /\ \A q \in Protocols : at[q] \in AtsOf(q)
  BY DEF Types
<1>2. a \in HostAts \cup QnosAts
  BY DEF AtsOf
<1> QED
  BY <1>1, <1>2 DEF AtsOf

(* A protocol that runs is the one whose turn it is.                         *)
LEMMA RunsTurn ==
    ASSUME NEW n \in Nodes
    PROVE  /\ \A kind : HostRuns(n, kind) => Turn(Host(n))
           /\ \A kind : QnosRuns(n, kind) => Turn(QNodeOs(n))
BY DEF HostRuns, QnosRuns

LEMMA HostTypes ==
    ASSUME Types, NEW n \in Nodes, HostNext(n)
    PROVE  Types'
<1>0. /\ Host(n) \in Protocols /\ <<n, "host">> \in Listeners /\ <<n, "result">> \in Listeners
      /\ <<n, "peer">> \in Listeners /\ <<Peer[n], "peer">> \in Listeners
  BY ReaderFacts, SingleThreadAssumption
<1>1. ASSUME NEW kind \in {"init", "open", "subroutine", "stop"},
             NEW arg \in {0} \cup Sockets \cup DOMAIN Subroutines, Commit(n, kind, arg)
      PROVE  ChannelTypes'
  <2>1. [kind |-> kind, arg |-> arg, sockets |-> HostOp(n).sockets] \in Commands
    BY HostOpFacts DEF Commands
  <2>2. MessageOf(<<n, "host">>) = Commands
    BY DEF MessageOf
  <2> QED
    BY <1>0, <1>1, <2>1, <2>2, SentTypes DEF Commit, Types
<1>2. ASSUME NEW l \in Listeners, Pops(Host(n), l), Popped(l)
      PROVE  ChannelTypes' /\ Head(buffer[l]) \in MessageOf(l)
  BY <1>2, PoppedTypes DEF Pops, Types
<1>3. NextOp(n) => pc' \in [Nodes -> Nat]
  BY DEF NextOp, Types
<1>4. UNCHANGED channels => ChannelTypes'
  BY DEF channels, ChannelTypes, MessageOf, Types
<1>5. turn \in Seq(Protocols) /\ (turn # <<>> => Tail(turn) \in Seq(Protocols))
  BY DEF Types
<1>6. CASE Enter(n)
  <2>1. ChannelTypes'
    BY <1>1, <1>6 DEF Enter
  <2> QED
    BY <1>3, <1>6, <2>1 DEF Enter, Types, mainvars, qnosvars
<1>7. CASE HostSetup(n)
  <2>1. at' = [at EXCEPT ![Host(n)] = <<"setup", "">>] /\ UNCHANGED channels
    BY <1>7 DEF HostSetup
  <2> QED
    BY <1>0, <1>4, <1>7, <2>1, AtMembers, AtTypes DEF HostSetup, Types, mainvars, hostvars
<1>8. CASE HostSetupDone(n)
  <2>1. at' = [at EXCEPT ![Host(n)] = <<"run", "">>] /\ UNCHANGED channels
    BY <1>8 DEF HostSetupDone
  <2> QED
    BY <1>0, <1>3, <1>4, <1>8, <2>1, AtMembers, AtTypes DEF HostSetupDone, Types, mainvars, qnosvars
<1>9. CASE Flush(n)
  <2>1. at' = [at EXCEPT ![Host(n)] = <<"receive", "result">>]
    BY <1>9 DEF Flush
  <2>2. HostOp(n).sockets \in Seq(Sockets) /\ HostOp(n).arg \in DOMAIN Subroutines
    BY <1>9, HostOpFacts DEF Flush, HostRuns
  <2>3. ChannelTypes'
    <3>1. \A i \in DOMAIN HostOp(n).sockets : HostOp(n).sockets[i] \in Sockets
      BY <2>2
    <3> QED
      BY <1>1, <1>9, <2>2, <3>1 DEF Flush
  <2>4. pc' \in [Nodes -> Nat] /\ opened' \in [Nodes -> SUBSET Sockets]
    <3>1. pc \in [Nodes -> Nat] /\ opened \in [Nodes -> SUBSET Sockets]
      BY DEF Types
    <3>2. ASSUME NEW i \in DOMAIN HostOp(n).sockets,
                 opened' = [opened EXCEPT ![n] = @ \cup {HostOp(n).sockets[i]}]
          PROVE  opened' \in [Nodes -> SUBSET Sockets]
      <4>1. HostOp(n).sockets[i] \in Sockets
        BY <2>2
      <4> QED
        BY <3>1, <3>2, <4>1
    <3> QED
      BY <1>3, <1>9, <3>1, <3>2 DEF Flush
  <2> QED
    BY <1>0, <1>9, <2>1, <2>3, <2>4, AtMembers, AtTypes DEF Flush, Types, mainvars, qnosvars, Waiting
<1>10. CASE ReceiveResult(n)
  <2>1. at' = [at EXCEPT ![Host(n)] = <<"run", "">>] /\ ChannelTypes'
    BY <1>0, <1>2, <1>10 DEF ReceiveResult
  <2> QED
    BY <1>0, <1>10, <2>1, AtMembers, AtTypes DEF ReceiveResult, Types, mainvars, hostvars, qnosvars
<1>11. CASE SendClassical(n)
  <2>1. <<round, HostOp(n).arg>> \in MessageOf(<<Peer[n], "peer">>)
    BY <1>11, HostOpFacts DEF SendClassical, HostRuns, Types, MessageOf
  <2>2. ChannelTypes'
    BY <1>0, <1>11, <2>1, SentTypes DEF SendClassical, Types
  <2> QED
    BY <1>3, <1>11, <2>2 DEF SendClassical, Types, mainvars, qnosvars
<1>12. CASE RecvClassical(n)
  <2>1. at' = [at EXCEPT ![Host(n)] = <<"receive", "peer">>] /\ UNCHANGED channels
    BY <1>12 DEF RecvClassical
  <2> QED
    BY <1>0, <1>4, <1>12, <2>1, AtMembers, AtTypes
      DEF RecvClassical, Types, mainvars, hostvars, qnosvars, Waiting
<1>13. CASE GotClassical(n)
  <2>1. at' = [at EXCEPT ![Host(n)] = <<"run", "">>] /\ ChannelTypes'
    BY <1>0, <1>2, <1>13 DEF GotClassical
  <2>2. Head(buffer[<<n, "peer">>]) \in Nat \X Nat
    BY <1>0, <1>2, <1>13 DEF GotClassical, MessageOf
  <2>3. got' \in [Nodes -> Seq(Nat \X Nat)]
    <3>1. got \in [Nodes -> Seq(Nat \X Nat)]
      BY DEF Types
    <3>2. Append(got[n], Head(buffer[<<n, "peer">>])) \in Seq(Nat \X Nat)
      BY <2>2, <3>1
    <3> QED
      BY <1>13, <3>1, <3>2 DEF GotClassical
  <2> QED
    BY <1>0, <1>3, <1>13, <2>1, <2>3, AtMembers, AtTypes DEF GotClassical, Types, mainvars, qnosvars
<1>14. CASE Exit(n)
  <2>1. ChannelTypes'
    BY <1>1, <1>14 DEF Exit
  <2> QED
    BY <1>3, <1>14, <2>1 DEF Exit, Types, mainvars, qnosvars
<1>15. CASE Return(n)
  <2>1. at' = [at EXCEPT ![Host(n)] = <<"ended", "">>] /\ UNCHANGED channels
    BY <1>15 DEF Return
  <2>2. turn' \in Seq(Protocols)
    BY <1>5, <1>15 DEF Return, HostRuns, Turn
  <2> QED
    BY <1>0, <1>4, <1>15, <2>1, <2>2, AtMembers, AtTypes DEF Return, Types, mainvars, qnosvars
<1> QED
  BY <1>6, <1>7, <1>8, <1>9, <1>10, <1>11, <1>12, <1>13, <1>14, <1>15 DEF HostNext

LEMMA QnosTypes ==
    ASSUME Types, NEW n \in Nodes, QnosNext(n)
    PROVE  Types'
<1>0. QNodeOs(n) \in Protocols /\ <<n, "host">> \in Listeners /\ <<n, "result">> \in Listeners
  BY ReaderFacts
<1>1. Loop(n) => /\ at' \in [Protocols -> HostAts \cup QnosAts]
                 /\ \A q \in Protocols : at'[q] \in AtsOf(q)
  BY <1>0, AtMembers, AtTypes DEF Loop, Waiting
<1>2. Handled(n) => handled' \in [Nodes -> Nat]
  BY DEF Handled, Types
<1>3. Sent(<<n, "result">>, current[n]) => ChannelTypes'
  <2>1. current[n] \in MessageOf(<<n, "result">>)
    BY DEF Types, MessageOf
  <2> QED
    BY <1>0, <2>1, SentTypes DEF Types
<1>4. UNCHANGED channels => ChannelTypes'
  BY DEF channels, ChannelTypes, MessageOf, Types
<1>5. turn \in Seq(Protocols) /\ (turn # <<>> => Tail(turn) \in Seq(Protocols))
  BY DEF Types
<1>6. CASE ReceiveMsg(n)
  <2> DEFINE m == Head(buffer[<<n, "host">>])
  <2>1. at' = [at EXCEPT ![QNodeOs(n)] = <<m.kind, "">>] /\ current' = [current EXCEPT ![n] = m]
    BY <1>6 DEF ReceiveMsg
  <2>2. ChannelTypes' /\ m \in Commands
    <3>1. MessageOf(<<n, "host">>) = Commands
      BY DEF MessageOf
    <3>2. Popped(<<n, "host">>) /\ buffer[<<n, "host">>] # <<>>
      BY <1>6 DEF ReceiveMsg, Pops
    <3> QED
      BY <1>0, <3>1, <3>2, PoppedTypes DEF Types
  <2> HIDE DEF m
  <2>3. <<m.kind, "">> \in AtsOf(QNodeOs(n))
    BY <2>2, AtMembers DEF Commands
  <2>4. current' \in [Nodes -> Commands \cup {Nothing}]
    BY <2>1, <2>2 DEF Types
  <2> QED
    BY <1>0, <1>6, <2>1, <2>2, <2>3, <2>4, AtTypes DEF ReceiveMsg, Types, mainvars, hostvars
<1>7. CASE HandleInit(n)
  BY <1>1, <1>2, <1>4, <1>7 DEF HandleInit, Types, mainvars, hostvars
<1>8. CASE HandleOpen(n)
  <2>1. at' = [at EXCEPT ![QNodeOs(n)] = <<"setup", "">>] /\ UNCHANGED channels
    BY <1>8 DEF HandleOpen
  <2> QED
    BY <1>0, <1>4, <1>8, <2>1, AtMembers, AtTypes DEF HandleOpen, Types, mainvars, hostvars
<1>9. CASE SetupDone(n)
  BY <1>1, <1>2, <1>3, <1>9 DEF SetupDone, Answer, Types, mainvars, hostvars
<1>10. CASE ExecuteSubroutine(n)
  <2>1. at' = [at EXCEPT ![QNodeOs(n)] = <<"executing", "">>] /\ UNCHANGED channels
    BY <1>10 DEF ExecuteSubroutine
  <2>2. turn' \in Seq(Protocols)
    BY <1>5, <1>10 DEF ExecuteSubroutine, QnosRuns, Turn
  <2> QED
    BY <1>0, <1>4, <1>10, <2>1, <2>2, AtMembers, AtTypes
      DEF ExecuteSubroutine, Types, mainvars, hostvars, qnosvars
<1>11. CASE FinishSubroutine(n)
  BY <1>1, <1>2, <1>3, <1>11 DEF FinishSubroutine, Answer, Types, mainvars, hostvars
<1>12. CASE HandleStop(n)
  <2>1. at' = [at EXCEPT ![QNodeOs(n)] = <<"off", "">>]
    BY <1>12 DEF HandleStop
  <2>2. turn' \in Seq(Protocols)
    BY <1>5, <1>12 DEF HandleStop, QnosRuns, Turn
  <2>3. ChannelTypes'
    BY <1>12 DEF HandleStop, Types, ChannelTypes, MessageOf
  <2> QED
    BY <1>0, <1>2, <1>12, <2>1, <2>2, <2>3, AtMembers, AtTypes
      DEF HandleStop, Types, mainvars, hostvars
<1> QED
  BY <1>6, <1>7, <1>8, <1>9, <1>10, <1>11, <1>12 DEF QnosNext

(* The protocols start in an order that names each of them.                  *)
LEMMA OrderFacts == Order \in Seq(Protocols) /\ \A p \in Protocols : \E i \in DOMAIN Order : Order[i] = p
<1> DEFINE nodes == SetToSeq(Nodes)
           k == Cardinality(Nodes)
<1>1. IsFiniteSet(Nodes)
  BY SingleThreadAssumption
<1>2. nodes \in Seq(Nodes) /\ \A n \in Nodes : \E i \in DOMAIN nodes : nodes[i] = n
  BY <1>1, SetToSeqFacts
<1>3. k \in Nat /\ DOMAIN nodes = 1 .. k
  BY <1>1, SetToSeqFacts
<1> HIDE DEF nodes, k
<1>4. Order = [i \in 1 .. 2 * k |->
                 <<nodes[(i + 1) \div 2], IF i % 2 = 1 THEN "QNodeOs" ELSE "Host">>]
  BY DEF Order, nodes, k
<1>5. \A i \in 1 .. 2 * k : (i + 1) \div 2 \in 1 .. k
  BY <1>3
<1>6. \A i \in 1 .. 2 * k : Order[i] \in Protocols
  <2>1. \A i \in 1 .. k : nodes[i] \in Nodes
    BY <1>2, <1>3
  <2> QED
    BY <1>4, <1>5, <2>1 DEF Protocols
<1>7. Order \in Seq(Protocols)
  BY <1>3, <1>4, <1>6
<1>8. ASSUME NEW p \in Protocols
      PROVE  \E i \in DOMAIN Order : Order[i] = p
  <2>1. PICK n \in Nodes : p = Host(n) \/ p = QNodeOs(n)
    BY ReaderFacts
  <2>2. PICK j \in 1 .. k : nodes[j] = n
    BY <1>2, <1>3
  <2>3. CASE p = Host(n)
    <3>1. 2 * j \in 1 .. 2 * k /\ (2 * j + 1) \div 2 = j /\ (2 * j) % 2 # 1
      BY <1>3
    <3>2. Order[2 * j] = <<nodes[j], "Host">>
      BY <1>4, <3>1
    <3> QED
      BY <1>4, <2>2, <2>3, <3>1, <3>2 DEF Host
  <2>4. CASE p = QNodeOs(n)
    <3>1. 2 * j - 1 \in 1 .. 2 * k /\ (2 * j - 1 + 1) \div 2 = j /\ (2 * j - 1) % 2 = 1
      BY <1>3
    <3>2. Order[2 * j - 1] = <<nodes[j], "QNodeOs">>
      BY <1>4, <3>1
    <3> QED
      BY <1>4, <2>2, <2>4, <3>1, <3>2 DEF QNodeOs
  <2> QED
    BY <2>1, <2>3, <2>4
<1> QED
  BY <1>7, <1>8

(* The others that wake in an instant are protocols, in some order.          *)
LEMMA WakingOthers ==
    ASSUME NEW S \in SUBSET Protocols, NEW s \in SetToAllKPermutations(S)
    PROVE  s \in Seq(Protocols)
<1>1. PICK T \in SUBSET S : s \in SetToSeqs(T)
  BY DEF SetToAllKPermutations
<1>2. IsFiniteSet(T)
  <2>1. IsFiniteSet({"Host", "QNodeOs"})
    <3>1. IsFiniteSet({"Host"})
      BY FS_Singleton
    <3>2. IsFiniteSet({"Host"} \cup {"QNodeOs"})
      BY <3>1, FS_AddElement
    <3>3. {"Host", "QNodeOs"} = {"Host"} \cup {"QNodeOs"}
      OBVIOUS
    <3> QED
      BY <3>2, <3>3, Zenon
  <2>2. IsFiniteSet(Protocols)
    BY <2>1, FS_Product, SingleThreadAssumption DEF Protocols
  <2> QED
    BY <2>2, FS_Subset
<1>3. Cardinality(T) \in Nat
  BY <1>2, FS_CardinalityType
<1>4. s \in [1 .. Cardinality(T) -> T]
  BY <1>1 DEF SetToSeqs
<1>5. s \in Seq(T)
  BY <1>3, <1>4
<1> QED
  BY <1>5

LEMMA EventTypes ==
    ASSUME Types,
           \/ StartRound \/ EndRound
           \/ \E l \in Listeners : Listen(l) \/ Signal(l)
           \/ \E p \in Protocols : Await(p) \/ PopEmpty(p) \/ PollAgain(p) \/ Timeout(p) \/ Sleep(p)
    PROVE  Types'
<1>1. UNCHANGED channels => ChannelTypes'
  BY DEF channels, ChannelTypes, MessageOf, Types
<1>2. /\ [p \in Protocols |-> <<"off", "">>] \in [Protocols -> HostAts \cup QnosAts]
      /\ \A p \in Protocols : <<"off", "">> \in AtsOf(p)
  BY AtMembers, ReaderFacts, Zenon DEF AtsOf, HostAts, QnosAts
<1>3. CASE StartRound
  <2>1. StartMain(Order)
    BY <1>3 DEF StartRound
  <2>2. at' \in [Protocols -> HostAts \cup QnosAts] /\ \A p \in Protocols : at'[p] \in AtsOf(p)
    <3>1. at' = [p \in Protocols |-> IF p[2] = "Host" THEN <<"run", "">> ELSE <<"receive", "host">>]
      BY <2>1 DEF StartMain
    <3>2. <<"run", "">> \in HostAts /\ <<"receive", "host">> \in QnosAts
      BY DEF HostAts, QnosAts, Waiting
    <3> QED
      BY <3>1, <3>2 DEF AtsOf
  <2>3. ChannelTypes'
    BY <2>1 DEF StartMain, Types, ChannelTypes, MessageOf
  <2>4. /\ pc' \in [Nodes -> Nat] /\ opened' \in [Nodes -> SUBSET Sockets]
        /\ got' \in [Nodes -> Seq(Nat \X Nat)] /\ handled' \in [Nodes -> Nat]
    <3>1. <<>> \in Seq(Nat \X Nat) /\ {} \in SUBSET Sockets /\ 0 \in Nat /\ 1 \in Nat
      OBVIOUS
    <3>2. /\ pc' = [n \in Nodes |-> 1] /\ opened' = [n \in Nodes |-> {}]
          /\ got' = [n \in Nodes |-> <<>>] /\ handled' = [n \in Nodes |-> 0]
      BY <2>1 DEF StartMain
    <3> QED
      BY <3>1, <3>2, Zenon
  <2>5. /\ program' = program /\ current' = current /\ main' = "run" /\ round' = round + 1
        /\ turn' = Order
    BY <2>1 DEF StartMain
  <2> QED
    BY <2>2, <2>3, <2>4, <2>5, OrderFacts DEF Types
<1>4. CASE EndRound
  <2>1. ChannelTypes'
    BY <1>4 DEF EndRound, Types, ChannelTypes, MessageOf
  <2> QED
    BY <1>2, <1>4, <2>1 DEF EndRound, Types, hostvars, qnosvars
<1>5. ASSUME NEW l \in Listeners, Listen(l)
      PROVE  Types'
  <2>1. ChannelTypes'
    BY <1>5, ListenTypes DEF Types
  <2> QED
    BY <1>5, <2>1 DEF Listen, Types, mainvars, hostvars, qnosvars
<1>6. ASSUME NEW l \in Listeners, Signal(l)
      PROVE  Types'
  <2>1. ChannelTypes'
    <3>1. signals[l] - 1 \in Nat
      BY <1>6 DEF Signal, Wakes, Types, ChannelTypes
    <3> QED
      BY <1>6, <3>1 DEF Signal, Wakes, Types, ChannelTypes, MessageOf
  <2>2. turn' \in Seq(Protocols)
    BY <1>6, ReaderFacts DEF Signal, Wakes
  <2>3. at' \in [Protocols -> HostAts \cup QnosAts] /\ \A p \in Protocols : at'[p] \in AtsOf(p)
    <3>1. CASE at[Reader(l)] = <<"await", l[2]>>
      <4>1. Reader(l) \in Protocols /\ at[Reader(l)] \in AtsOf(Reader(l)) /\ at[Reader(l)][2] = l[2]
        <5>1. Reader(l) \in Protocols
          BY ReaderFacts
        <5>2. at[Reader(l)] \in AtsOf(Reader(l))
          BY <5>1 DEF Types
        <5>3. <<"await", l[2]>>[2] = l[2]
          OBVIOUS
        <5> QED
          BY <3>1, <5>1, <5>2, <5>3, Zenon
      <4>2. <<"woken", l[2]>> \in AtsOf(Reader(l))
        BY <3>1, <4>1, AtMembers DEF Waiting
      <4>3. at' = [at EXCEPT ![Reader(l)] = <<"woken", l[2]>>]
        BY <1>6, <3>1, <4>1 DEF Signal, Wakes
      <4> QED
        BY <4>1, <4>2, <4>3, AtTypes
    <3>2. CASE at[Reader(l)] # <<"await", l[2]>>
      BY <1>6, <3>2 DEF Signal, Wakes, Types
    <3> QED
      BY <3>1, <3>2
  <2> QED
    BY <1>6, <2>1, <2>2, <2>3 DEF Signal, Wakes, Types, mainvars, hostvars, qnosvars
<1>7. ASSUME NEW p \in Protocols, Await(p)
      PROVE  Types'
  <2>1. at' = [at EXCEPT ![p] = <<"await", at[p][2]>>] /\ UNCHANGED channels
    BY <1>7 DEF Await
  <2>2. <<"await", at[p][2]>> \in AtsOf(p)
    BY <1>7, AtMembers DEF Await, Types, Waiting
  <2>3. turn' \in Seq(Protocols)
    BY <1>7, TurnFacts DEF Await
  <2> QED
    BY <1>1, <1>7, <2>1, <2>2, <2>3, AtTypes DEF Await, Types, mainvars, hostvars, qnosvars
<1>8. ASSUME NEW p \in Protocols, PopEmpty(p) \/ Timeout(p)
      PROVE  Types'
  BY <1>1, <1>8 DEF PopEmpty, Timeout, Types, hostvars, qnosvars
<1>9. ASSUME NEW p \in Protocols, PollAgain(p)
      PROVE  Types'
  <2>1. turn' \in Seq(Protocols)
    BY <1>9, TurnFacts DEF PollAgain, Polls
  <2> QED
    BY <1>1, <1>9, <2>1 DEF PollAgain, Types, mainvars, hostvars, qnosvars
<1>10. ASSUME NEW p \in Protocols, Sleep(p)
       PROVE  Types'
  <2>1. turn' \in Seq(Protocols)
    <3>1. PICK others \in SetToAllKPermutations({q \in Protocols \ {p} : Waits(q)}) :
             turn' = <<p>> \o others
      BY <1>10 DEF Sleep
    <3>2. others \in Seq(Protocols)
      BY WakingOthers
    <3> QED
      BY <3>1, <3>2
  <2>2. ChannelTypes'
    BY <1>10 DEF Sleep, Types, ChannelTypes, MessageOf
  <2> QED
    BY <1>10, <2>1, <2>2 DEF Sleep, Types, mainvars, hostvars, qnosvars
<1> QED
  BY <1>3, <1>4, <1>5, <1>6, <1>7, <1>8, <1>9, <1>10

-----------------------------------------------------------------------------
(* The instant, one step at a time.                                          *)

(* A protocol takes a message from its buffer and goes on.                   *)
LEMMA PopStep ==
    ASSUME Instant, Types', NEW p \in Protocols, NEW l \in Listeners, Reader(l) = p,
           Pops(p, l), Popped(l), NEW a, at' = [at EXCEPT ![p] = a],
           a[1] # "woken", a[1] # "await", UNCHANGED <<program, main, fault, turn>>
    PROVE  Instant'
<1>1. /\ main = "run" /\ main' = "run" /\ InTurn(p)
      /\ \A q \in Protocols : at'[q] = IF q = p THEN a ELSE at[q]
      /\ \A k \in Listeners : k # l => buffer'[k] = buffer[k]
      /\ UNCHANGED <<wire, port, signals, on, sentNow>>
      /\ \A q : InTurn(q)' <=> InTurn(q)
      /\ \A q : Crowded(q)' <=> Crowded(q)
  <2>1. InTurn(p) /\ main = "run"
    BY TurnFacts DEF Pops, Instant
  <2>2. /\ \A k \in Listeners : k # l => buffer'[k] = buffer[k]
        /\ UNCHANGED <<wire, port, signals, on, sentNow>>
    BY PoppedTypes DEF Pops, Popped, Instant, Types
  <2>3. \A q \in Protocols : at'[q] = IF q = p THEN a ELSE at[q]
    BY DEF Instant, Types
  <2> QED
    BY <2>1, <2>2, <2>3 DEF InTurn, Crowded, Reader
<1>2. Scheduled'
  <2>1. ASSUME NEW k \in Listeners, at'[Reader(k)] = <<"await", k[2]>>, buffer'[k] # <<>>
        PROVE  signals'[k] > 0
    <3>1. Reader(k) # p /\ k # l
      BY <1>1, <2>1, ReaderFacts
    <3> QED
      BY <1>1, <2>1, <3>1, ReaderFacts DEF Instant, Scheduled
  <2> QED
    BY <1>1, <2>1 DEF Instant, Scheduled
<1>3. Uncrowded'
  <2>1. ASSUME NEW k \in Listeners
        PROVE  /\ Len(wire'[k]) + signals'[k] =< sentNow'[k]
               /\ ~Crowded(Reader(k))' =>
                    /\ InTurn(Reader(k))' => signals'[k] = 0
                    /\ signals'[k] > 0 => buffer'[k] # <<>>
                    /\ at'[Reader(k)] = <<"woken", k[2]>> => buffer'[k] # <<>>
    <3>1. Len(wire'[k]) + signals'[k] =< sentNow'[k]
      BY <1>1 DEF Instant, Uncrowded
    <3>2. CASE k = l
      <4>1. at'[Reader(k)] # <<"woken", k[2]>>
        BY <1>1, <3>2
      <4>2. ~Crowded(Reader(k)) => signals[k] = 0
        BY <1>1, <3>2 DEF Instant, Uncrowded
      <4> QED
        BY <1>1, <3>1, <4>1, <4>2 DEF Reader
    <3>3. CASE k # l
      <4>1. at'[Reader(k)] = <<"woken", k[2]>> => at[Reader(k)] = <<"woken", k[2]>>
        BY <1>1, ReaderFacts
      <4> QED
        BY <1>1, <3>1, <3>3, <4>1 DEF Instant, Uncrowded, Reader
    <3> QED
      BY <3>2, <3>3
  <2> QED
    BY <2>1 DEF Uncrowded, Reader
<1>4. Faulty'
  BY <1>1 DEF Instant, Faulty, CrowdedFaults, Reader
<1> QED
  BY <1>2, <1>3, <1>4 DEF Instant

LEMMA HostInstant ==
    ASSUME Instant, NEW n \in Nodes, HostNext(n)
    PROVE  Instant'
<1> DEFINE p == Host(n)
<1>0. /\ p \in Protocols /\ Types' /\ at \in [Protocols -> HostAts \cup QnosAts]
      /\ <<n, "result">> \in Listeners /\ <<n, "peer">> \in Listeners
      /\ Reader(<<n, "result">>) = p /\ Reader(<<n, "peer">>) = p
      /\ <<n, "host">> \in Listeners /\ <<Peer[n], "peer">> \in Listeners
  BY HostTypes, ReaderFacts, SingleThreadAssumption DEF Instant, Types
<1>1. UNCHANGED channels => Sends /\ UNCHANGED <<buffer, signals>>
  BY DEF channels, Sends
<1>2. \A l \in Listeners : \A m : Sent(l, m) => Sends /\ UNCHANGED <<buffer, signals>>
  BY DEF Sent, Sends
<1>3. \A kind : HostRuns(n, kind) => Turn(p) /\ at = [at EXCEPT ![p] = <<"run", "">>]
  BY <1>0 DEF HostRuns
<1> HIDE DEF p
<1>4. CASE Enter(n) \/ Exit(n) \/ SendClassical(n)
  <2>1. Sends /\ UNCHANGED <<buffer, signals, program, main, fault, at, turn>>
    BY <1>0, <1>2, <1>4 DEF Enter, Exit, SendClassical, Commit, mainvars
  <2>2. Turn(p) /\ at' = [at EXCEPT ![p] = <<"run", "">>]
    BY <1>3, <1>4, <2>1 DEF Enter, Exit, SendClassical
  <2> QED
    BY <1>0, <2>1, <2>2, TurnStep
<1>5. CASE HostSetup(n)
  <2>1. Turn(p) /\ at' = [at EXCEPT ![p] = <<"setup", "">>]
    BY <1>3, <1>5 DEF HostSetup, p
  <2>2. Sends /\ UNCHANGED <<buffer, signals, program, main, fault, turn>>
    BY <1>1, <1>5 DEF HostSetup, mainvars
  <2> QED
    BY <1>0, <2>1, <2>2, TurnStep
<1>6. CASE HostSetupDone(n)
  <2>1. Turn(p) /\ at' = [at EXCEPT ![p] = <<"run", "">>]
    BY <1>6 DEF HostSetupDone, Polls, p
  <2>2. Sends /\ UNCHANGED <<buffer, signals, program, main, fault, turn>>
    BY <1>1, <1>6 DEF HostSetupDone, mainvars
  <2> QED
    BY <1>0, <2>1, <2>2, TurnStep
<1>7. CASE Flush(n)
  <2>1. Turn(p) /\ at' = [at EXCEPT ![p] = <<"receive", "result">>]
    BY <1>3, <1>7 DEF Flush, p
  <2>2. Sends /\ UNCHANGED <<buffer, signals>>
    BY <1>0, <1>2, <1>7 DEF Flush, Commit
  <2>3. UNCHANGED <<program, main, fault, turn>>
    BY <1>7 DEF Flush, mainvars
  <2> QED
    BY <1>0, <2>1, <2>2, <2>3, TurnStep
<1>8. CASE RecvClassical(n)
  <2>1. Turn(p) /\ at' = [at EXCEPT ![p] = <<"receive", "peer">>]
    BY <1>3, <1>8 DEF RecvClassical, p
  <2>2. Sends /\ UNCHANGED <<buffer, signals, program, main, fault, turn>>
    BY <1>1, <1>8 DEF RecvClassical, mainvars
  <2> QED
    BY <1>0, <2>1, <2>2, TurnStep
<1>9. CASE Return(n)
  <2>1. Turn(p) /\ at' = [at EXCEPT ![p] = <<"ended", "">>]
    BY <1>3, <1>9 DEF Return, p
  <2>2. Sends /\ UNCHANGED <<buffer, signals, program, main, fault>> /\ turn' = Tail(turn)
    BY <1>1, <1>9 DEF Return, mainvars
  <2> QED
    BY <1>0, <2>1, <2>2, TurnStep DEF Asleep
<1>10. CASE ReceiveResult(n)
  <2>1. Pops(p, <<n, "result">>) /\ Popped(<<n, "result">>) /\ at' = [at EXCEPT ![p] = <<"run", "">>]
    BY <1>10 DEF ReceiveResult, p
  <2>2. UNCHANGED <<program, main, fault, turn>>
    BY <1>10 DEF ReceiveResult, mainvars
  <2> QED
    BY <1>0, <2>1, <2>2, PopStep
<1>11. CASE GotClassical(n)
  <2>1. Pops(p, <<n, "peer">>) /\ Popped(<<n, "peer">>) /\ at' = [at EXCEPT ![p] = <<"run", "">>]
    BY <1>11 DEF GotClassical, p
  <2>2. UNCHANGED <<program, main, fault, turn>>
    BY <1>11 DEF GotClassical, mainvars
  <2> QED
    BY <1>0, <2>1, <2>2, PopStep
<1> QED
  BY <1>4, <1>5, <1>6, <1>7, <1>8, <1>9, <1>10, <1>11 DEF HostNext

LEMMA QnosInstant ==
    ASSUME Instant, NEW n \in Nodes, QnosNext(n)
    PROVE  Instant'
<1> DEFINE p == QNodeOs(n)
<1>0. /\ p \in Protocols /\ Types'
      /\ <<n, "host">> \in Listeners /\ Reader(<<n, "host">>) = p /\ <<n, "result">> \in Listeners
  BY QnosTypes, ReaderFacts DEF Instant
<1>1. UNCHANGED channels => Sends /\ UNCHANGED <<buffer, signals>>
  BY DEF channels, Sends
<1>2. Answer(n) => Sends /\ UNCHANGED <<buffer, signals>>
  BY <1>0 DEF Answer, Sent, Sends
<1>3. Loop(n) => at' = [at EXCEPT ![p] = <<"receive", "host">>]
  BY DEF Loop
<1>4. (\E kind : QnosRuns(n, kind)) \/ Polls(p) => Turn(p)
  BY DEF QnosRuns, Polls
<1> HIDE DEF p
<1>5. CASE ReceiveMsg(n)
  <2> DEFINE kind == Head(buffer[<<n, "host">>]).kind
  <2>1. Pops(p, <<n, "host">>) /\ Popped(<<n, "host">>) /\ at' = [at EXCEPT ![p] = <<kind, "">>]
    BY <1>5 DEF ReceiveMsg, p
  <2>2. UNCHANGED <<program, main, fault, turn>>
    BY <1>5 DEF ReceiveMsg, mainvars
  <2>3. kind \in {"init", "open", "subroutine", "stop"}
    <3>1. Head(buffer[<<n, "host">>]) \in MessageOf(<<n, "host">>)
      BY <1>0, <2>1, PoppedTypes DEF Instant, Types, Pops
    <3> QED
      BY <3>1 DEF MessageOf, Commands
  <2> HIDE DEF kind
  <2>4. <<kind, "">>[1] = kind /\ kind # "woken" /\ kind # "await"
    BY <2>3
  <2> QED
    BY <1>0, <2>1, <2>2, <2>4, PopStep
<1>6. CASE HandleInit(n)
  <2>1. Turn(p) /\ at' = [at EXCEPT ![p] = <<"receive", "host">>]
    BY <1>3, <1>4, <1>6 DEF HandleInit
  <2>2. Sends /\ UNCHANGED <<buffer, signals, program, main, fault, turn>>
    BY <1>1, <1>6 DEF HandleInit, mainvars
  <2> QED
    BY <1>0, <2>1, <2>2, TurnStep
<1>7. CASE HandleOpen(n)
  <2>1. Turn(p) /\ at' = [at EXCEPT ![p] = <<"setup", "">>]
    BY <1>4, <1>7 DEF HandleOpen, p
  <2>2. Sends /\ UNCHANGED <<buffer, signals, program, main, fault, turn>>
    BY <1>1, <1>7 DEF HandleOpen, mainvars
  <2> QED
    BY <1>0, <2>1, <2>2, TurnStep
<1>8. CASE SetupDone(n)
  <2>1. Turn(p) /\ at' = [at EXCEPT ![p] = <<"receive", "host">>]
    BY <1>3, <1>4, <1>8 DEF SetupDone, p
  <2>2. Sends /\ UNCHANGED <<buffer, signals, program, main, fault, turn>>
    BY <1>2, <1>8 DEF SetupDone, mainvars
  <2> QED
    BY <1>0, <2>1, <2>2, TurnStep
<1>9. CASE ExecuteSubroutine(n)
  <2>1. Turn(p) /\ at' = [at EXCEPT ![p] = <<"executing", "">>]
    BY <1>4, <1>9 DEF ExecuteSubroutine, p
  <2>2. Sends /\ UNCHANGED <<buffer, signals, program, main, fault>> /\ turn' = Tail(turn)
    BY <1>1, <1>9 DEF ExecuteSubroutine, mainvars
  <2> QED
    BY <1>0, <2>1, <2>2, TurnStep DEF Asleep
<1>10. CASE FinishSubroutine(n)
  <2>1. Turn(p) /\ at' = [at EXCEPT ![p] = <<"receive", "host">>]
    BY <1>3, <1>4, <1>10 DEF FinishSubroutine
  <2>2. Sends /\ UNCHANGED <<buffer, signals, program, main, fault, turn>>
    BY <1>2, <1>10 DEF FinishSubroutine, mainvars
  <2> QED
    BY <1>0, <2>1, <2>2, TurnStep
<1>11. CASE HandleStop(n)
  <2>1. Turn(p) /\ at' = [at EXCEPT ![p] = <<"off", "">>]
    BY <1>4, <1>11 DEF HandleStop, p
  <2>2. Sends /\ UNCHANGED <<buffer, signals, program, main, fault>> /\ turn' = Tail(turn)
    BY <1>11 DEF HandleStop, mainvars, Sends
  <2> QED
    BY <1>0, <2>1, <2>2, TurnStep DEF Asleep
<1> QED
  BY <1>5, <1>6, <1>7, <1>8, <1>9, <1>10, <1>11 DEF QnosNext

(* In an instant where nobody has a turn, nobody runs or has been woken.     *)
LEMMA NoTurn ==
    ASSUME Instant, turn = <<>>
    PROVE  \A p \in Protocols : ~InTurn(p) /\ at[p][1] \in Asleep
<1>1. \A p \in Protocols : ~InTurn(p)
  BY DEF InTurn
<1> QED
  BY <1>1 DEF Instant, Scheduled

LEMMA StartInstant ==
    ASSUME Instant, StartRound
    PROVE  Instant'
<1>1. /\ main = "start" /\ main' = "run" /\ turn' = Order /\ fault' = fault
      /\ at' = [p \in Protocols |-> IF p[2] = "Host" THEN <<"run", "">> ELSE <<"receive", "host">>]
      /\ sentNow' = [l \in Listeners |-> 0]
      /\ UNCHANGED <<wire, buffer, signals>>
  BY DEF StartRound, StartMain
<1>2. /\ \A l \in Listeners : wire[l] = <<>> /\ signals[l] = 0
      /\ fault = {}
  BY <1>1 DEF Instant, Scheduled, Faulty
<1>3. \A p \in Protocols : InTurn(p)' /\ at'[p][1] \in {"run", "receive"}
  BY <1>1, OrderFacts DEF InTurn
<1>4. Scheduled'
  BY <1>1, <1>3, ReaderFacts DEF Scheduled
<1>5. Uncrowded'
  <2>1. ASSUME NEW l \in Listeners
        PROVE  /\ Len(wire'[l]) + signals'[l] =< sentNow'[l]
               /\ ~Crowded(Reader(l))' =>
                    /\ InTurn(Reader(l))' => signals'[l] = 0
                    /\ signals'[l] > 0 => buffer'[l] # <<>>
                    /\ at'[Reader(l)] = <<"woken", l[2]>> => buffer'[l] # <<>>
    <3>1. Len(wire'[l]) + signals'[l] =< sentNow'[l] /\ signals'[l] = 0
      <4>1. wire'[l] = <<>> /\ signals'[l] = 0 /\ sentNow'[l] = 0
        BY <1>1, <1>2
      <4> QED
        BY <4>1
    <3>2. at'[Reader(l)] # <<"woken", l[2]>>
      <4>1. at'[Reader(l)][1] \in {"run", "receive"} /\ <<"woken", l[2]>>[1] = "woken"
        BY <1>3, ReaderFacts
      <4> QED
        BY <4>1
    <3> QED
      BY <3>1, <3>2
  <2> QED
    BY <2>1 DEF Uncrowded, Reader
<1>6. Faulty'
  BY <1>1, <1>2 DEF Faulty, CrowdedFaults
<1> QED
  BY <1>4, <1>5, <1>6, EventTypes DEF Instant

LEMMA EndInstant ==
    ASSUME Instant, EndRound
    PROVE  Instant'
<1>1. /\ main = "run" /\ main' \in {"start", "end"} /\ turn = <<>> /\ fault = {}
      /\ \A l \in Listeners : wire[l] = <<>> /\ signals[l] = 0
      /\ at' = [p \in Protocols |-> <<"off", "">>]
      /\ UNCHANGED <<wire, buffer, signals, sentNow, turn, fault>>
  BY DEF EndRound, Quiet, Running, Instant, Faulty, hostvars, qnosvars
<1>2. \A p \in Protocols : at'[p] = <<"off", "">> /\ ~InTurn(p)'
  <2>1. turn' = <<>>
    BY <1>1
  <2> QED
    <3>1. \A p \in Protocols : at'[p] = <<"off", "">>
      BY <1>1
    <3>2. \A p \in Protocols : ~InTurn(p)'
      BY <2>1 DEF InTurn
    <3> QED
      BY <3>1, <3>2
<1>3. Scheduled'
  BY <1>1, <1>2, ReaderFacts DEF Scheduled, Asleep
<1>4. Uncrowded'
  <2>1. ASSUME NEW l \in Listeners
        PROVE  /\ Len(wire'[l]) + signals'[l] =< sentNow'[l]
               /\ ~Crowded(Reader(l))' =>
                    /\ InTurn(Reader(l))' => signals'[l] = 0
                    /\ signals'[l] > 0 => buffer'[l] # <<>>
                    /\ at'[Reader(l)] = <<"woken", l[2]>> => buffer'[l] # <<>>
    <3>1. Len(wire'[l]) + signals'[l] =< sentNow'[l]
      BY <1>1 DEF Instant, Uncrowded
    <3>2. at'[Reader(l)] # <<"woken", l[2]>>
      <4>1. at'[Reader(l)] = <<"off", "">>
        BY <1>2, ReaderFacts
      <4>2. <<"off", "">>[1] = "off" /\ <<"woken", l[2]>>[1] = "woken"
        OBVIOUS
      <4> QED
        BY <4>1, <4>2
    <3>3. signals'[l] = 0
      BY <1>1
    <3> QED
      BY <3>1, <3>2, <3>3
  <2> QED
    BY <2>1 DEF Uncrowded, Reader
<1>5. Faulty'
  BY <1>1 DEF Faulty, CrowdedFaults
<1> QED
  BY <1>3, <1>4, <1>5, EventTypes DEF Instant

LEMMA SleepInstant ==
    ASSUME Instant, NEW p \in Protocols, Sleep(p)
    PROVE  Instant'
<1>1. /\ main = "run" /\ turn = <<>> /\ fault = {}
      /\ \A l \in Listeners : wire[l] = <<>> /\ signals[l] = 0
      /\ sentNow' = [l \in Listeners |-> 0]
      /\ UNCHANGED <<wire, buffer, signals, at, fault, main>>
  BY DEF Sleep, Quiet, Running, Instant, Faulty, mainvars, hostvars, qnosvars
<1>2. \A q \in Protocols : at[q][1] \in Asleep
  BY <1>1, NoTurn
<1>3. Scheduled'
  BY <1>1, <1>2 DEF Instant, Scheduled
<1>4. Uncrowded'
  <2>1. ASSUME NEW l \in Listeners
        PROVE  /\ Len(wire'[l]) + signals'[l] =< sentNow'[l]
               /\ ~Crowded(Reader(l))' =>
                    /\ InTurn(Reader(l))' => signals'[l] = 0
                    /\ signals'[l] > 0 => buffer'[l] # <<>>
                    /\ at'[Reader(l)] = <<"woken", l[2]>> => buffer'[l] # <<>>
    <3>1. Len(wire'[l]) + signals'[l] =< sentNow'[l]
      BY <1>1
    <3>2. at'[Reader(l)] # <<"woken", l[2]>>
      <4>1. at'[Reader(l)][1] \in Asleep /\ <<"woken", l[2]>>[1] = "woken"
        BY <1>1, <1>2, ReaderFacts
      <4> QED
        BY <4>1 DEF Asleep
    <3>3. signals'[l] = 0
      BY <1>1
    <3> QED
      BY <3>1, <3>2, <3>3
  <2> QED
    BY <2>1 DEF Uncrowded, Reader
<1>5. Faulty'
  BY <1>1 DEF Faulty, CrowdedFaults
<1> QED
  BY <1>3, <1>4, <1>5, EventTypes DEF Instant

LEMMA ListenInstant ==
    ASSUME Instant, NEW l \in Listeners, Listen(l)
    PROVE  Instant'
<1>1. /\ main = "run" /\ turn = <<>> /\ wire[l] # <<>>
      /\ UNCHANGED <<main, turn, at, sentNow, fault>>
      /\ wire' = [wire EXCEPT ![l] = Tail(@)]
      /\ \A q \in Protocols : ~InTurn(q)' /\ at[q][1] \in Asleep
      /\ \A q : Crowded(q)' <=> Crowded(q)
  <2>1. /\ main = "run" /\ turn = <<>> /\ wire[l] # <<>>
        /\ UNCHANGED <<main, turn, at, sentNow, fault>>
    BY DEF Listen, Running, mainvars
  <2>2. wire' = [wire EXCEPT ![l] = Tail(@)]
    BY ListenTypes DEF Instant, Types
  <2> QED
    BY <2>1, <2>2, NoTurn DEF InTurn, Crowded, Reader
<1>2. \A k \in Listeners : /\ wire[k] \in Seq(MessageOf(k)) /\ buffer[k] \in Seq(MessageOf(k))
                           /\ signals[k] \in Nat /\ sentNow[k] \in Nat
                           /\ buffer'[k] \in Seq(MessageOf(k)) /\ signals'[k] \in Nat
  BY EventTypes DEF Instant, Types, ChannelTypes, MessageOf
<1>3. \A k \in Listeners : /\ signals[k] =< signals'[k]
                           /\ Len(wire'[k]) + signals'[k] =< Len(wire[k]) + signals[k]
                           /\ signals'[k] = signals[k] => buffer'[k] = buffer[k]
                           /\ signals'[k] > signals[k] => buffer'[k] # <<>>
  <2>1. /\ Len(wire'[l]) = Len(wire[l]) - 1 /\ Len(wire[l]) \in Nat
        /\ \A k \in Listeners : k # l => wire'[k] = wire[k]
    BY <1>1, <1>2 DEF Instant, Types, ChannelTypes
  <2>2. CASE l \in on
    <3>1. PICK m : buffer' = [buffer EXCEPT ![l] = Append(@, m)]
      BY <2>2 DEF Listen
    <3>2. signals' = [signals EXCEPT ![l] = @ + 1]
      BY <2>2 DEF Listen
    <3>3. /\ buffer'[l] = Append(buffer[l], m) /\ signals'[l] = signals[l] + 1
          /\ \A k \in Listeners : k # l => buffer'[k] = buffer[k] /\ signals'[k] = signals[k]
      BY <3>1, <3>2 DEF Instant, Types, ChannelTypes
    <3>4. buffer'[l] # <<>>
      BY <1>2, <3>3
    <3>5. \A k \in Listeners : Len(wire[k]) \in Nat
      BY <1>2
    <3> HIDE DEF Listeners
    <3> QED
      BY <1>2, <2>1, <3>3, SMTT(30), <3>4, <3>5
  <2>3. CASE l \notin on
    <3>1. buffer' = buffer /\ signals' = signals
      BY <2>3 DEF Listen
    <3>2. \A k \in Listeners : Len(wire[k]) \in Nat
      BY <1>2
    <3> QED
      BY <1>2, <2>1, <3>1, <3>2
  <2> QED
    BY <2>2, <2>3
<1>4. Scheduled'
  <2>1. ASSUME NEW k \in Listeners, at'[Reader(k)] = <<"await", k[2]>>, buffer'[k] # <<>>
        PROVE  signals'[k] > 0
    <3>1. CASE signals'[k] = signals[k]
      BY <1>1, <1>3, <2>1, <3>1 DEF Instant, Scheduled
    <3>2. CASE signals'[k] # signals[k]
      BY <1>2, <1>3, <3>2
    <3> QED
      BY <3>1, <3>2
  <2> QED
    BY <1>1, <2>1 DEF Scheduled
<1>5. Uncrowded'
  <2>1. ASSUME NEW k \in Listeners
        PROVE  /\ Len(wire'[k]) + signals'[k] =< sentNow'[k]
               /\ ~Crowded(Reader(k))' =>
                    /\ InTurn(Reader(k))' => signals'[k] = 0
                    /\ signals'[k] > 0 => buffer'[k] # <<>>
                    /\ at'[Reader(k)] = <<"woken", k[2]>> => buffer'[k] # <<>>
    <3>1. Len(wire'[k]) + signals'[k] =< sentNow'[k]
      <4>1. Len(wire[k]) + signals[k] =< sentNow[k] /\ sentNow'[k] = sentNow[k]
        BY <1>1 DEF Instant, Uncrowded
      <4>2. Len(wire[k]) \in Nat /\ Len(wire'[k]) \in Nat
        BY <1>2, EventTypes DEF Types, ChannelTypes, MessageOf
      <4> QED
        BY <1>2, <1>3, <4>1, <4>2
    <3>2. ~InTurn(Reader(k))' /\ at'[Reader(k)] # <<"woken", k[2]>>
      BY <1>1, ReaderFacts DEF Asleep
    <3>3. ~Crowded(Reader(k))' /\ signals'[k] > 0 => buffer'[k] # <<>>
      <4>1. CASE signals'[k] = signals[k]
        BY <1>1, <1>3, <4>1 DEF Instant, Uncrowded, Reader
      <4>2. CASE signals'[k] # signals[k]
        BY <1>2, <1>3, <4>2
      <4> QED
        BY <4>1, <4>2
    <3> QED
      BY <3>1, <3>2, <3>3
  <2> QED
    BY <2>1 DEF Uncrowded, Reader
<1>6. Faulty'
  BY <1>1 DEF Instant, Faulty, CrowdedFaults, Reader
<1> QED
  BY <1>4, <1>5, <1>6, EventTypes DEF Instant

LEMMA SignalInstant ==
    ASSUME Instant, NEW l \in Listeners, Signal(l)
    PROVE  Instant'
<1> DEFINE p == Reader(l)
           waits == at[p] = <<"await", l[2]>>
<1>1. /\ main = "run" /\ turn = <<>> /\ signals[l] > 0 /\ p \in Protocols
      /\ UNCHANGED <<main, wire, buffer, sentNow, fault>>
      /\ \A q \in Protocols : ~InTurn(q) /\ at[q][1] \in Asleep
      /\ \A q : Crowded(q)' <=> Crowded(q)
      /\ signals' = [signals EXCEPT ![l] = @ - 1]
      /\ turn' = IF waits THEN <<p>> ELSE <<>>
  <2>1. /\ main = "run" /\ turn = <<>> /\ signals[l] > 0
        /\ UNCHANGED <<main, wire, buffer, sentNow, fault>>
        /\ signals' = [signals EXCEPT ![l] = @ - 1]
        /\ turn' = IF waits THEN <<p>> ELSE <<>>
    BY DEF Signal, Wakes, Running, mainvars
  <2> QED
    BY <2>1, NoTurn, ReaderFacts DEF Crowded, Reader
<1>2. /\ signals'[l] = signals[l] - 1
      /\ \A k \in Listeners : /\ k # l => signals'[k] = signals[k]
                              /\ signals[k] \in Nat /\ sentNow[k] \in Nat
                              /\ Len(wire[k]) \in Nat
                              /\ Len(wire[k]) + signals[k] =< sentNow[k]
  <2>1. \A k \in Listeners : wire[k] \in Seq(MessageOf(k))
    BY DEF Instant, Types, ChannelTypes
  <2>2. \A k \in Listeners : Len(wire[k]) \in Nat
    BY <2>1
  <2> QED
    BY <1>1, <2>2 DEF Instant, Types, ChannelTypes, Uncrowded
<1>3. /\ \A q \in Protocols : at'[q] = IF waits /\ q = p THEN <<"woken", l[2]>> ELSE at[q]
      /\ \A q \in Protocols : InTurn(q)' <=> waits /\ q = p
  <2>1. CASE waits
    <3>1. at' = [at EXCEPT ![p] = <<"woken", at[p][2]>>] /\ turn' = <<p>>
      BY <1>1, <2>1 DEF Signal, Wakes
    <3>2. at[p][2] = l[2]
      BY <2>1
    <3>3. DOMAIN at = Protocols
      BY DEF Instant, Types
    <3>4. \A q \in Protocols : InTurn(q)' <=> q = p
      BY <3>1 DEF InTurn
    <3> HIDE DEF p
    <3> QED
      BY <2>1, <3>1, <3>2, <3>3, <3>4
  <2>2. CASE ~waits
    BY <1>1, <2>2 DEF Signal, Wakes, InTurn
  <2> QED
    BY <2>1, <2>2
<1> HIDE DEF p
<1>4. Scheduled'
  <2>1. ASSUME NEW k \in Listeners, at'[Reader(k)] = <<"await", k[2]>>, buffer'[k] # <<>>
        PROVE  signals'[k] > 0
    <3>1. at[Reader(k)] = <<"await", k[2]>> /\ ~(waits /\ Reader(k) = p)
      BY <1>3, <2>1, ReaderFacts
    <3>2. k # l
      BY <3>1 DEF p
    <3> QED
      BY <1>1, <1>2, <2>1, <3>1, <3>2 DEF Instant, Scheduled
  <2>2. \A q \in Protocols : ~InTurn(q)' => at'[q][1] \in Asleep
    BY <1>1, <1>3
  <2> QED
    BY <1>1, <2>1, <2>2 DEF Scheduled
<1>5. Uncrowded'
  <2>1. ASSUME NEW k \in Listeners
        PROVE  /\ Len(wire'[k]) + signals'[k] =< sentNow'[k]
               /\ ~Crowded(Reader(k)) =>
                    /\ InTurn(Reader(k))' => signals'[k] = 0
                    /\ signals'[k] > 0 => buffer'[k] # <<>>
                    /\ at'[Reader(k)] = <<"woken", k[2]>> => buffer'[k] # <<>>
    <3>1. Len(wire'[k]) + signals'[k] =< sentNow'[k] /\ signals'[k] =< signals[k]
      <4>1. CASE k = l
        BY <1>1, <1>2, <4>1
      <4>2. CASE k # l
        BY <1>1, <1>2, <4>2
      <4> QED
        BY <4>1, <4>2
    <3>2. ASSUME ~Crowded(Reader(k)), InTurn(Reader(k))'
          PROVE  signals'[k] = 0
      <4>1. Reader(k) = p
        BY <1>3, <3>2, ReaderFacts
      <4>2. sentNow[l] > 0
        BY <1>1, <1>2
      <4>3. CASE k = l
        <5>1. ~(sentNow[l] > 1)
          BY <3>2, <4>1, <4>2 DEF Crowded, p
        <5> QED
          BY <1>1, <1>2, <4>3, <5>1
      <4>4. CASE k # l
        <5>1. ~(sentNow[k] > 0)
          BY <3>2, <4>1, <4>2, <4>4 DEF Crowded, p
        <5> QED
          BY <1>2, <4>4, <5>1
      <4> QED
        BY <4>3, <4>4
    <3>3. ASSUME ~Crowded(Reader(k)), signals'[k] > 0
          PROVE  buffer'[k] # <<>>
      <4>1. signals[k] > 0
        BY <1>2, <3>3
      <4> QED
        BY <1>1, <3>3, <4>1 DEF Instant, Uncrowded
    <3>4. ASSUME ~Crowded(Reader(k)), at'[Reader(k)] = <<"woken", k[2]>>
          PROVE  buffer'[k] # <<>>
      <4>1. at[Reader(k)] # <<"woken", k[2]>>
        BY <1>1, ReaderFacts DEF Asleep
      <4>2. Reader(k) = p /\ <<"woken", l[2]>> = <<"woken", k[2]>>
        BY <1>3, <3>4, <4>1, ReaderFacts
      <4>3. k = l
        BY <4>2, ReaderFacts DEF p
      <4> QED
        BY <1>1, <3>4, <4>3 DEF Instant, Uncrowded
    <3> QED
      BY <3>1, <3>2, <3>3, <3>4
  <2> QED
    BY <1>1, <2>1 DEF Uncrowded, Reader
<1>6. Faulty'
  BY <1>1 DEF Instant, Faulty, CrowdedFaults, Reader
<1> QED
  BY <1>4, <1>5, <1>6, EventTypes DEF Instant

LEMMA ProtocolInstant ==
    ASSUME Instant, NEW p \in Protocols, Await(p) \/ PopEmpty(p) \/ PollAgain(p) \/ Timeout(p)
    PROVE  Instant'
<1>0. Types'
  BY EventTypes DEF Instant
<1>1. CASE Await(p)
  <2> DEFINE a == <<"await", at[p][2]>>
  <2>1. /\ Turn(p) /\ at' = [at EXCEPT ![p] = a] /\ turn' = Tail(turn)
        /\ UNCHANGED <<program, main, fault, buffer, signals>> /\ Sends
        /\ buffer[<<p[1], at[p][2]>>] = <<>>
    BY <1>1 DEF Await, mainvars, channels, Sends
  <2>2. a[1] = "await" /\ a[2] = at[p][2]
    OBVIOUS
  <2> HIDE DEF a
  <2> QED
    BY <1>0, <2>1, <2>2, TurnStep DEF Asleep
<1>2. CASE PollAgain(p)
  <2>1. /\ Turn(p) /\ turn' = Tail(turn) /\ at[p] = <<"setup", "">>
        /\ UNCHANGED <<program, main, fault, buffer, signals>> /\ Sends
    BY <1>2 DEF PollAgain, Polls, mainvars, channels, Sends
  <2>2. at' = [at EXCEPT ![p] = <<"setup", "">>]
    BY <1>2, <2>1 DEF PollAgain, Instant, Types
  <2> QED
    BY <1>0, <2>1, <2>2, TurnStep DEF Asleep
<1>3. CASE PopEmpty(p)
  <2> DEFINE l == <<p[1], at[p][2]>>
  <2>1. /\ main = "run" /\ main' = "raised" /\ fault' = fault \cup {<<"IndexError", l>>}
        /\ at[p][1] = "woken" /\ buffer[l] = <<>>
        /\ UNCHANGED <<turn, at, wire, port, buffer, signals, sentNow>>
    BY <1>3 DEF PopEmpty, Turn, Running, channels
  <2>2. l \in Listeners /\ Reader(l) = p /\ at[p] = <<"woken", l[2]>>
    <3>1. /\ <<p[1], at[p][2]>> \in Listeners /\ Reader(<<p[1], at[p][2]>>) = p
          /\ at[p] = <<at[p][1], at[p][2]>>
      BY <2>1, OwnListener DEF Instant, Waiting
    <3> QED
      BY <2>1, <3>1
  <2> HIDE DEF l
  <2>3. Crowded(Reader(l))
    BY <2>1, <2>2 DEF Instant, Uncrowded
  <2>4. \A q : Crowded(q)' <=> Crowded(q)
    BY <2>1 DEF Crowded, Reader
  <2>5. Scheduled' /\ Uncrowded'
    BY <2>1, <2>4 DEF Instant, Scheduled, Uncrowded, InTurn, Reader
  <2>6. \A f \in fault' : f[1] = "IndexError" => f[2] \in Listeners /\ Crowded(Reader(f[2]))'
    <3>1. <<"IndexError", l>>[2] = l
      OBVIOUS
    <3> QED
      BY <2>1, <2>2, <2>3, <2>4, <3>1 DEF Instant, Faulty, CrowdedFaults
  <2> QED
    BY <1>0, <2>1, <2>5, <2>6 DEF Instant, Faulty, CrowdedFaults, Reader
<1>4. CASE Timeout(p)
  <2>1. /\ main = "run" /\ main' = "raised" /\ fault' = fault \cup {<<"TimeoutError", p>>}
        /\ UNCHANGED <<turn, at, wire, port, buffer, signals, sentNow>>
    BY <1>4 DEF Timeout, Polls, Turn, Running, channels
  <2>2. \A q : Crowded(q)' <=> Crowded(q)
    BY <2>1 DEF Crowded, Reader
  <2>3. Scheduled' /\ Uncrowded'
    BY <2>1, <2>2 DEF Instant, Scheduled, Uncrowded, InTurn, Reader
  <2>4. \A f \in fault' : f[1] = "IndexError" => f \in fault
    BY <2>1
  <2> QED
    BY <1>0, <2>1, <2>2, <2>3, <2>4 DEF Instant, Faulty, CrowdedFaults, Reader
<1> QED
  BY <1>1, <1>2, <1>3, <1>4

LEMMA InstantKept == Instant /\ [Next]_vars => Instant'
<1>1. ASSUME Instant, Next
      PROVE  Instant'
  BY <1>1, StartInstant, EndInstant, SleepInstant, ListenInstant, SignalInstant,
     ProtocolInstant, HostInstant, QnosInstant DEF Next, Events
<1>2. ASSUME Instant, UNCHANGED vars
      PROVE  Instant'
  <2>1. UNCHANGED <<program, main, round, turn, at, pc, opened, current, got, handled, fault>>
    BY <1>2 DEF vars, mainvars, hostvars, qnosvars
  <2>2. UNCHANGED <<wire, port, buffer, signals, on, sentNow>>
    BY <1>2 DEF vars, channels
  <2>3. Types'
    BY <1>2, <2>1, <2>2 DEF Instant, Types, ChannelTypes, MessageOf
  <2>4. Scheduled' /\ Uncrowded' /\ Faulty'
    BY <1>2, <2>1, <2>2 DEF Instant, Scheduled, Uncrowded, Faulty, CrowdedFaults, Crowded, InTurn, Reader
  <2> QED
    BY <2>3, <2>4 DEF Instant
<1> QED
  BY <1>1, <1>2

-----------------------------------------------------------------------------
(* The messages between a host and its QNodeOS, one step at a time.          *)

(* Appending to the work, and taking the first of it.                        *)
LEMMA AppendedWork ==
    ASSUME NEW M, NEW w \in Seq(M), NEW m \in M
    PROVE  /\ Append(w, m) \in Seq(M) /\ Append(w, m) # <<>>
           /\ Len(Append(w, m)) = Len(w) + 1 /\ Len(w) \in Nat
           /\ DOMAIN w = 1 .. Len(w) /\ DOMAIN Append(w, m) = 1 .. Len(w) + 1
           /\ \A i \in 1 .. Len(w) : Append(w, m)[i] = w[i]
           /\ Append(w, m)[Len(w) + 1] = m
           /\ Final(Append(w, m)) = m
BY DEF Final

LEMMA TakenWork ==
    ASSUME NEW M, NEW w \in Seq(M), w # <<>>
    PROVE  /\ Tail(w) \in Seq(M) /\ Len(w) \in Nat /\ Len(w) > 0
           /\ Len(Tail(w)) = Len(w) - 1
           /\ DOMAIN w = 1 .. Len(w) /\ DOMAIN Tail(w) = 1 .. Len(w) - 1
           /\ \A i \in 1 .. Len(w) - 1 : Tail(w)[i] = w[i + 1]
           /\ (Tail(w) = <<>> <=> Len(w) = 1)
           /\ Tail(w) # <<>> => Final(Tail(w)) = Final(w)
<1>1. /\ Tail(w) \in Seq(M) /\ Len(w) \in Nat /\ Len(w) > 0
      /\ Len(Tail(w)) = Len(w) - 1
      /\ DOMAIN w = 1 .. Len(w) /\ DOMAIN Tail(w) = 1 .. Len(w) - 1
      /\ \A i \in 1 .. Len(w) - 1 : Tail(w)[i] = w[i + 1]
  OBVIOUS
<1>2. Tail(w) = <<>> <=> Len(w) = 1
  <2>1. \A s \in Seq(M) : s = <<>> <=> Len(s) = 0
    OBVIOUS
  <2>2. Tail(w) = <<>> <=> Len(Tail(w)) = 0
    BY <1>1, <2>1, Zenon
  <2>3. Len(w) - 1 = 0 <=> Len(w) = 1
    BY <1>1
  <2> QED
    BY <1>1, <2>2, <2>3, Zenon
<1>3. Tail(w) # <<>> => Final(Tail(w)) = Final(w)
  BY <1>1, <1>2 DEF Final
<1> QED
  BY <1>1, <1>2, <1>3

(* A host with no question unanswered enters its connection,                 *)
LEMMA ServeEnter ==
    ASSUME NEW M, NEW w \in Seq(M), NEW m \in M, NEW off \in BOOLEAN, NEW ans,
           NEW exited \in Nat, NEW done \in Nat, m.kind = "init",
           Serve(w, ans, FALSE, off, 0, 0, exited, done), exited = 0
    PROVE  Serve(Append(w, m), ans, FALSE, off, 1, 0, exited, done)
<1>1. Len(w) = 0 /\ done = 0
  BY AppendedWork DEF Serve
<1> QED
  BY <1>1, AppendedWork DEF Serve

(* or asks one,                                                              *)
LEMMA ServeAsk ==
    ASSUME NEW M, NEW w \in Seq(M), NEW m \in M, NEW off \in BOOLEAN, NEW ans,
           NEW entered \in Nat, NEW asked \in Nat, NEW done \in Nat,
           m.kind \in Questions, entered > 0, Serve(w, ans, FALSE, off, entered, asked, 0, done)
    PROVE  Serve(Append(w, m), ans, TRUE, off, entered, asked + 1, 0, done)
<1>1. \A i \in DOMAIN w : w[i].kind = "init" /\ i = 1
  BY DEF Serve
<1>2. Len(w) =< 1
  BY <1>1, AppendedWork
<1> QED
  BY <1>1, <1>2, AppendedWork DEF Serve, Questions

(* or exits.                                                                 *)
LEMMA ServeExit ==
    ASSUME NEW M, NEW w \in Seq(M), NEW m \in M, NEW off \in BOOLEAN, NEW ans,
           NEW entered \in Nat, NEW asked \in Nat, NEW done \in Nat,
           m.kind = "stop", Serve(w, ans, FALSE, off, entered, asked, 0, done)
    PROVE  Serve(Append(w, m), ans, FALSE, off, entered, asked, 1, done)
<1>1. \A i \in DOMAIN w : w[i].kind = "init" /\ i = 1
  BY DEF Serve
<1>2. Len(w) =< 1
  BY <1>1, AppendedWork
<1> QED
  BY <1>1, <1>2, AppendedWork DEF Serve

(* The QNodeOS handles the message of the connection,                        *)
LEMMA ServeInit ==
    ASSUME NEW M, NEW w \in Seq(M), w # <<>>, w[1].kind = "init",
           NEW off \in BOOLEAN, NEW asks \in BOOLEAN, NEW ans,
           NEW entered \in Nat, NEW asked \in Nat, NEW exited \in Nat, NEW done \in Nat,
           Serve(w, ans, asks, off, entered, asked, exited, done)
    PROVE  Serve(Tail(w), ans, asks, off, entered, asked, exited, done + 1)
<1> DEFINE k == Len(w)
           t == Tail(w)
<1>1. /\ k \in Nat /\ k > 0 /\ Len(t) = k - 1 /\ DOMAIN w = 1 .. k /\ DOMAIN t = 1 .. k - 1
      /\ \A i \in 1 .. k - 1 : t[i] = w[i + 1]
      /\ t = <<>> <=> k = 1
      /\ t # <<>> => Final(t) = Final(w)
  BY TakenWork
<1>2. k =< 2 /\ done + k = entered + asked + exited
  BY DEF Serve
<1> HIDE DEF k, t
<1>3. \A i \in DOMAIN t : i = 1 /\ k = 2 /\ t[i] = w[2]
  BY <1>1, <1>2
<1>4. k = 2 => w[2].kind # "init"
  BY <1>1 DEF Serve
<1>5. /\ Len(t) =< 2 /\ Len(t) # 2
      /\ done + 1 + Len(t) = entered + asked + exited
  BY <1>1, <1>2
<1>6. \A i \in DOMAIN t : /\ t[i].kind # "init"
                          /\ t[i].kind = "stop" => i = Len(t)
  BY <1>1, <1>3, <1>4
<1>7. ~off
  BY DEF Serve
<1>8. (off \/ \E i \in DOMAIN t : t[i].kind = "stop") <=> exited > 0
  <2>1. exited > 0 <=> \E i \in 1 .. k : w[i].kind = "stop"
    BY <1>1, <1>7 DEF Serve
  <2>2. \A i \in 1 .. k : w[i].kind = "stop" => i - 1 \in DOMAIN t /\ t[i - 1] = w[i]
    <3>1. \A i \in 1 .. k : w[i].kind = "stop" => i # 1
      OBVIOUS
    <3> QED
      BY <1>1, <3>1
  <2>3. \A i \in DOMAIN t : 2 \in 1 .. k /\ t[i] = w[2]
    BY <1>1, <1>3
  <2> QED
    BY <1>7, <2>1, <2>2, <2>3
<1>9. asks => /\ exited = 0 /\ asked > 0
              /\ t = <<>> => Len(ans) = 1
              /\ t # <<>> => ans = <<>> /\ Final(t).kind \in Questions
  <2>1. asks => /\ exited = 0 /\ asked > 0
                /\ ans = <<>> /\ Final(w).kind \in Questions
    BY DEF Serve
  <2>2. k = 1 => Final(w).kind = "init"
    BY DEF Final, k
  <2> QED
    BY <1>1, <2>1, <2>2 DEF Questions
<1>10. ~asks => ans = <<>> /\ \A i \in DOMAIN t : t[i].kind \in {"init", "stop"}
  <2>1. ~asks => ans = <<>> /\ \A i \in 1 .. k : w[i].kind \in {"init", "stop"}
    BY <1>1 DEF Serve
  <2>2. \A i \in DOMAIN t : 2 \in 1 .. k /\ t[i] = w[2]
    BY <1>1, <1>3
  <2> QED
    BY <2>1, <2>2
<1>11. asked > 0 => entered > 0
  BY DEF Serve
<1> QED
  BY <1>5, <1>6, <1>7, <1>8, <1>9, <1>10, <1>11 DEF Serve, t

(* or answers a question,                                                    *)
LEMMA OnlyQuestion ==
    ASSUME NEW M, NEW w \in Seq(M), w # <<>>, w[1].kind \in Questions,
           NEW off \in BOOLEAN, NEW asks \in BOOLEAN, NEW ans,
           NEW entered \in Nat, NEW asked \in Nat, NEW exited \in Nat, NEW done \in Nat,
           Serve(w, ans, asks, off, entered, asked, exited, done)
    PROVE  asks /\ Len(w) = 1 /\ ans = <<>> /\ Tail(w) = <<>>
<1>1. Len(w) \in Nat /\ Len(w) > 0 /\ 1 \in DOMAIN w
  BY TakenWork
<1>2. asks /\ Len(w) = 1 /\ ans = <<>>
  <2>1. w[1].kind \notin {"init", "stop"}
    BY DEF Questions
  <2>2. asks
    BY <1>1, <2>1 DEF Serve
  <2>3. Len(w) # 2 /\ Len(w) =< 2
    BY <2>1 DEF Serve
  <2>4. ans = <<>>
    BY <2>2 DEF Serve
  <2>5. Len(w) = 1
    <3> DEFINE k == Len(w)
    <3>1. k \in Nat /\ k > 0 /\ k # 2 /\ k =< 2
      BY <1>1, <2>3
    <3> HIDE DEF k
    <3>2. k = 1
      BY <3>1
    <3> QED
      BY <3>2 DEF k
  <2> QED
    BY <2>2, <2>4, <2>5, Zenon
<1> QED
  BY <1>2, TakenWork DEF Serve, Questions

LEMMA ServeAnswer ==
    ASSUME NEW M, NEW w \in Seq(M), Len(w) = 1, w[1].kind \in Questions, NEW m \in M,
           NEW off \in BOOLEAN, NEW ans,
           NEW entered \in Nat, NEW asked \in Nat, NEW exited \in Nat, NEW done \in Nat,
           Serve(w, ans, TRUE, off, entered, asked, exited, done)
    PROVE  Serve(<<>>, <<m>>, TRUE, off, entered, asked, exited, done + 1)
BY DEF Serve, Questions

(* or stops.                                                                 *)
LEMMA ServeStop ==
    ASSUME NEW M, NEW w \in Seq(M), w # <<>>, w[1].kind = "stop",
           NEW off \in BOOLEAN, NEW asks \in BOOLEAN, NEW ans,
           NEW entered \in Nat, NEW asked \in Nat, NEW exited \in Nat, NEW done \in Nat,
           Serve(w, ans, asks, off, entered, asked, exited, done)
    PROVE  /\ Tail(w) = <<>>
           /\ Serve(<<>>, ans, asks, TRUE, entered, asked, exited, done + 1)
<1>1. Len(w) = 1 /\ exited > 0
  BY TakenWork DEF Serve
<1> QED
  BY <1>1, TakenWork DEF Serve

(* The host reads an answer.                                                 *)
LEMMA ServeRead ==
    ASSUME NEW M, NEW w \in Seq(M), NEW off \in BOOLEAN, NEW ans,
           NEW entered \in Nat, NEW asked \in Nat, NEW exited \in Nat, NEW done \in Nat,
           ans # <<>>, Serve(w, ans, TRUE, off, entered, asked, exited, done)
    PROVE  /\ w = <<>> /\ Len(ans) = 1
           /\ Serve(w, <<>>, FALSE, off, entered, asked, exited, done)
<1>1. w = <<>> /\ Len(ans) = 1
  BY DEF Serve
<1> QED
  BY <1>1 DEF Serve

-----------------------------------------------------------------------------
(* Programs and their counts.                                                *)

LEMMA CodeFacts ==
    ASSUME Types, NEW n \in Nodes
    PROVE  /\ Len(program.code[n]) \in Nat
           /\ DOMAIN program.code[n] = 1 .. Len(program.code[n])
           /\ \A kind : /\ OpsOf(n, kind) \subseteq Nat /\ IsFiniteSet(OpsOf(n, kind))
                        /\ Before(n, kind) \subseteq OpsOf(n, kind) /\ IsFiniteSet(Before(n, kind))
                        /\ Cardinality(OpsOf(n, kind)) \in Nat /\ Done(n, kind) \in Nat
                        /\ Done(n, kind) =< Cardinality(OpsOf(n, kind))
                        /\ Done(n, kind) = 0 <=> Before(n, kind) = {}
           /\ OneConnection(program.code[n]) /\ SocketsNamed(program.code[n])
           /\ Numbered(program.code[n])
<1>1. program \in Programs /\ program.code[n] \in Seq(Range(program.code[n]))
  BY SingleThreadAssumption DEF Types
<1>2. Len(program.code[n]) \in Nat /\ DOMAIN program.code[n] = 1 .. Len(program.code[n])
  BY <1>1
<1>3. ASSUME NEW kind
      PROVE  /\ OpsOf(n, kind) \subseteq Nat /\ IsFiniteSet(OpsOf(n, kind))
             /\ Before(n, kind) \subseteq OpsOf(n, kind) /\ IsFiniteSet(Before(n, kind))
             /\ Cardinality(OpsOf(n, kind)) \in Nat /\ Done(n, kind) \in Nat
             /\ Done(n, kind) =< Cardinality(OpsOf(n, kind))
             /\ Done(n, kind) = 0 <=> Before(n, kind) = {}
  <2>1. OpsOf(n, kind) \subseteq 1 .. Len(program.code[n]) /\ OpsOf(n, kind) \subseteq Nat
    BY <1>2 DEF OpsOf
  <2>2. IsFiniteSet(1 .. Len(program.code[n]))
    BY <1>2, FS_Interval
  <2>3. IsFiniteSet(OpsOf(n, kind))
    BY <2>1, <2>2, FS_Subset
  <2>4. Before(n, kind) \subseteq OpsOf(n, kind)
    BY DEF Before
  <2>5. IsFiniteSet(Before(n, kind)) /\ Done(n, kind) =< Cardinality(OpsOf(n, kind))
    BY <2>3, <2>4, FS_Subset DEF Done
  <2>6. Cardinality(OpsOf(n, kind)) \in Nat /\ Done(n, kind) \in Nat
    BY <2>3, <2>5, FS_CardinalityType DEF Done
  <2>7. Done(n, kind) = 0 <=> Before(n, kind) = {}
    BY <2>5, FS_EmptySet DEF Done
  <2> QED
    BY <2>1, <2>3, <2>4, <2>5, <2>6, <2>7
<1> QED
  BY <1>1, <1>2, <1>3, ProgramsAssumption

LEMMA DoneNext ==
    ASSUME Types, NEW n \in Nodes, NextOp(n), HostOp(n).kind # "none", program' = program
    PROVE  \A kind : /\ HostOp(n).kind = kind => /\ Before(n, kind)' = Before(n, kind) \cup {pc[n]}
                                                 /\ Done(n, kind)' = Done(n, kind) + 1
                     /\ HostOp(n).kind # kind => /\ Before(n, kind)' = Before(n, kind)
                                                 /\ Done(n, kind)' = Done(n, kind)
<1>1. pc[n] \in DOMAIN program.code[n] /\ HostOp(n) = program.code[n][pc[n]]
  BY HostOpFacts
<1>2. pc[n] \in Nat /\ pc'[n] = pc[n] + 1
  BY DEF NextOp, Types
<1>3. ASSUME NEW kind
      PROVE  /\ HostOp(n).kind = kind => /\ Before(n, kind)' = Before(n, kind) \cup {pc[n]}
                                         /\ Done(n, kind)' = Done(n, kind) + 1
             /\ HostOp(n).kind # kind => /\ Before(n, kind)' = Before(n, kind)
                                         /\ Done(n, kind)' = Done(n, kind)
  <2>1. \A i \in OpsOf(n, kind) : i \in Nat
    BY CodeFacts
  <2>2. OpsOf(n, kind)' = OpsOf(n, kind)
    BY DEF OpsOf
  <2>3. pc[n] \in OpsOf(n, kind) <=> HostOp(n).kind = kind
    BY <1>1 DEF OpsOf
  <2>4. pc[n] \notin Before(n, kind) /\ IsFiniteSet(Before(n, kind)) /\ Done(n, kind) \in Nat
    BY <1>2, CodeFacts DEF Before
  <2>5. CASE HostOp(n).kind = kind
    <3>1. Before(n, kind)' = Before(n, kind) \cup {pc[n]}
      BY <1>2, <2>1, <2>2, <2>3, <2>5 DEF Before
    <3>2. Cardinality(Before(n, kind) \cup {pc[n]}) = Cardinality(Before(n, kind)) + 1
      BY <2>4, FS_AddElement
    <3> QED
      BY <2>5, <3>1, <3>2 DEF Done
  <2>6. CASE HostOp(n).kind # kind
    <3>1. Before(n, kind)' = Before(n, kind)
      BY <1>2, <2>1, <2>2, <2>3, <2>6 DEF Before
    <3> QED
      BY <2>6, <3>1 DEF Done
  <2> QED
    BY <2>5, <2>6
<1> QED
  BY <1>3

LEMMA DoneSame ==
    ASSUME NEW n \in Nodes, pc'[n] = pc[n], program' = program
    PROVE  /\ \A kind : Before(n, kind)' = Before(n, kind) /\ Done(n, kind)' = Done(n, kind)
           /\ HostOp(n)' = HostOp(n)
BY DEF Before, Done, OpsOf, HostOp

LEMMA QueueTypes ==
    ASSUME Types, NEW n \in Nodes
    PROVE  /\ Work(n) \in Seq(Commands \cup {Nothing})
           /\ Answers(n) \in Seq(Commands \cup {Nothing})
           /\ Unread(n) \in Seq(Nat \X Nat)
           /\ Asks(n) \in BOOLEAN /\ Off(n) \in BOOLEAN
           /\ buffer[<<n, "host">>] \in Seq(Commands) /\ wire[<<n, "host">>] \in Seq(Commands)
           /\ buffer[<<n, "result">>] \in Seq(Commands \cup {Nothing})
           /\ wire[<<n, "result">>] \in Seq(Commands \cup {Nothing})
           /\ buffer[<<n, "peer">>] \in Seq(Nat \X Nat) /\ wire[<<n, "peer">>] \in Seq(Nat \X Nat)
           /\ handled[n] \in Nat /\ Asks(n) \in BOOLEAN /\ Off(n) \in BOOLEAN
<1>1. /\ MessageOf(<<n, "host">>) = Commands
      /\ MessageOf(<<n, "result">>) = Commands \cup {Nothing}
      /\ MessageOf(<<n, "peer">>) = Nat \X Nat
  BY DEF MessageOf
<1>2. /\ buffer[<<n, "host">>] \in Seq(Commands) /\ wire[<<n, "host">>] \in Seq(Commands)
      /\ buffer[<<n, "result">>] \in Seq(Commands \cup {Nothing})
      /\ wire[<<n, "result">>] \in Seq(Commands \cup {Nothing})
      /\ buffer[<<n, "peer">>] \in Seq(Nat \X Nat) /\ wire[<<n, "peer">>] \in Seq(Nat \X Nat)
  BY <1>1, ReaderFacts DEF Types, ChannelTypes
<1>3. Answers(n) \in Seq(Commands \cup {Nothing}) /\ Unread(n) \in Seq(Nat \X Nat)
  BY <1>2, ConcatProperties DEF Answers, Unread
<1>4. Work(n) \in Seq(Commands \cup {Nothing})
  <2> DEFINE first == IF at[QNodeOs(n)] \in Handling THEN <<current[n]>> ELSE <<>>
             rest == buffer[<<n, "host">>] \o wire[<<n, "host">>]
  <2>1. first \in Seq(Commands \cup {Nothing})
    <3>1. current[n] \in Commands \cup {Nothing}
      BY DEF Types
    <3>2. <<current[n]>> \in Seq(Commands \cup {Nothing}) /\ <<>> \in Seq(Commands \cup {Nothing})
      BY <3>1
    <3> QED
      BY <3>2, Zenon
  <2>2. rest \in Seq(Commands)
    BY <1>2, ConcatProperties
  <2>3. rest \in Seq(Commands \cup {Nothing})
    BY <2>2
  <2> HIDE DEF first, rest
  <2>4. first \o rest \in Seq(Commands \cup {Nothing})
    BY <2>1, <2>3, ConcatProperties
  <2> QED
    BY <2>4 DEF Work, first, rest
<1> QED
  BY <1>2, <1>3, <1>4 DEF Asks, Off, Types

(* A node whose messages stay where they are keeps what is said of it.       *)
LEMMA ServedSame ==
    ASSUME NEW n \in Nodes, Served(n),
           \A kind \in {"enter", "flush", "exit"} : Done(n, kind)' = Done(n, kind),
           opened'[n] = opened[n], handled'[n] = handled[n],
           Work(n)' = Work(n), Answers(n)' = Answers(n),
           Asks(n)' <=> Asks(n), Off(n)' <=> Off(n)
    PROVE  Served(n)'
<1>1. Asked(n)' = Asked(n)
  BY DEF Asked
<1>2. Asks(n)' = Asks(n) /\ Off(n)' = Off(n)
  BY DEF Asks, Off
<1> QED
  BY <1>1, <1>2 DEF Served

LEMMA HandlesSame ==
    ASSUME NEW n \in Nodes, Handles(n), \A k : <<n, k>> \in on => <<n, k>> \in on',
           current'[n] = current[n], opened'[n] = opened[n],
           \/ at'[QNodeOs(n)] = at[QNodeOs(n)]
           \/ at'[QNodeOs(n)] \in Waiting \X {"host"} /\ ~Off(n)
    PROVE  Handles(n)'
<1>1. CASE at'[QNodeOs(n)] = at[QNodeOs(n)]
  BY <1>1 DEF Handles, Off
<1>2. CASE at'[QNodeOs(n)] \in Waiting \X {"host"} /\ ~Off(n)
  <2>1. at'[QNodeOs(n)][2] = "host" /\ \A k : <<k, "">>[2] = ""
    BY <1>2, Pairs
  <2> QED
    BY <1>2, <2>1 DEF Handles, Off
<1> QED
  BY <1>1, <1>2

LEMMA UsableSame ==
    ASSUME NEW n \in Nodes, Usable(n), program' = program, opened'[n] = opened[n],
           Before(n, "setup")' = Before(n, "setup"),
           Work(n)' = Work(n), Asks(n)' <=> Asks(n), round' = round, circuits \subseteq circuits'
    PROVE  Usable(n)'
<1>1. \A s : Ready(s) => Ready(s)'
  BY DEF Ready
<1>2. Pending(n)' <=> Pending(n)
  BY DEF Pending
<1> QED
  BY <1>1, <1>2 DEF Usable

LEMMA ToldSame ==
    ASSUME NEW n \in Nodes, Told(n), program' = program, round' = round, pc'[n] = pc[n],
           got'[n] = got[n], Done(Peer[n], "send")' = Done(Peer[n], "send"), Unread(n)' = Unread(n),
           \/ at'[Host(n)] = at[Host(n)]
           \/ at'[Host(n)] \in Waiting \X {at[Host(n)][2]}
    PROVE  Told(n)'
<1>1. Done(n, "recv")' = Done(n, "recv") /\ HostOp(n)' = HostOp(n)
  BY DoneSame
<1>2. Balanced' <=> Balanced
  BY DEF Balanced, OpsOf
<1>3. (at'[Host(n)])[2] = at[Host(n)][2]
  BY DEF Told, Placed, Delivered
<1>4. /\ at'[Host(n)] = <<"setup", "">> => at[Host(n)] = <<"setup", "">>
      /\ at'[Host(n)] = <<"ended", "">> => at[Host(n)] = <<"ended", "">>
      /\ at'[Host(n)] # <<"off", "">>
  <2>1. CASE at'[Host(n)] = at[Host(n)]
    BY <2>1 DEF Told, Placed, Delivered
  <2>2. CASE at'[Host(n)] \in Waiting \X {at[Host(n)][2]}
    <3>1. at'[Host(n)][1] \in Waiting
      BY <2>2, Pairs
    <3>2. /\ <<"setup", "">>[1] = "setup" /\ <<"ended", "">>[1] = "ended" /\ <<"off", "">>[1] = "off"
          /\ \A k \in {"setup", "ended", "off"} : k \notin Waiting
      BY DEF Waiting
    <3> QED
      BY <3>1, <3>2, Zenon
  <2> QED
    BY <2>1, <2>2
<1> QED
  BY <1>1, <1>2, <1>3, <1>4 DEF Told, Placed, Delivered

-----------------------------------------------------------------------------
(* A step of a host.                                                         *)

(* What it leaves alone.                                                     *)
LEMMA HostFrame ==
    ASSUME Types, NEW n \in Nodes, HostNext(n)
    PROVE  /\ main = "run" /\ UNCHANGED <<program, main, round, on, port, current, handled>>
           /\ \A m \in Nodes : at'[QNodeOs(m)] = at[QNodeOs(m)]
           /\ circuits \subseteq circuits' /\ \A c \in circuits' : c \in circuits \/ c[3] = round
           /\ \A m \in Nodes : /\ buffer'[<<m, "host">>] = buffer[<<m, "host">>]
                               /\ wire'[<<m, "result">>] = wire[<<m, "result">>]
           /\ \A m \in Nodes \ {n} :
                 /\ at'[Host(m)] = at[Host(m)]
                 /\ pc'[m] = pc[m] /\ opened'[m] = opened[m] /\ got'[m] = got[m]
                 /\ wire'[<<m, "host">>] = wire[<<m, "host">>]
                 /\ buffer'[<<m, "result">>] = buffer[<<m, "result">>]
                 /\ buffer'[<<m, "peer">>] = buffer[<<m, "peer">>]
           /\ \A m \in Nodes : ~SendClassical(n) => wire'[<<m, "peer">>] = wire[<<m, "peer">>]
<1>1. UNCHANGED <<program, main, round, on, port, current, handled>>
  BY DEF HostNext, Enter, HostSetup, HostSetupDone, Flush, ReceiveResult, SendClassical,
         RecvClassical, GotClassical, Exit, Return, mainvars, qnosvars, channels, Commit, Sent, Popped
<1>2. main = "run"
  BY DEF HostNext, Enter, HostSetup, HostSetupDone, Flush, ReceiveResult, SendClassical,
         RecvClassical, GotClassical, Exit, Return, HostRuns, Polls, Pops, Turn, Running
<1>3. at' = at \/ \E a : at' = [at EXCEPT ![Host(n)] = a]
  BY DEF HostNext, Enter, HostSetup, HostSetupDone, Flush, ReceiveResult, SendClassical,
         RecvClassical, GotClassical, Exit, Return
<1>4. /\ \A m \in Nodes : at'[QNodeOs(m)] = at[QNodeOs(m)]
      /\ \A m \in Nodes \ {n} : at'[Host(m)] = at[Host(m)]
  <2>1. \A m \in Nodes : QNodeOs(m) # Host(n) /\ (m # n => Host(m) # Host(n))
    BY DEF QNodeOs, Host
  <2>2. \A m \in Nodes : QNodeOs(m) \in DOMAIN at /\ Host(m) \in DOMAIN at
    BY ReaderFacts DEF Types
  <2>3. \A q \in DOMAIN at : q # Host(n) => at'[q] = at[q]
    BY <1>3
  <2> QED
    BY <2>1, <2>2, <2>3, Zenon
<1>5. /\ circuits' = circuits \/ circuits' = circuits \cup {<<n, HostOp(n).arg, round>>}
  BY DEF HostNext, Enter, HostSetup, HostSetupDone, Flush, ReceiveResult, SendClassical,
         RecvClassical, GotClassical, Exit, Return, qnosvars
<1>6. circuits \subseteq circuits' /\ \A c \in circuits' : c \in circuits \/ c[3] = round
  BY <1>5
<1>7. \A m \in Nodes \ {n} : pc'[m] = pc[m] /\ opened'[m] = opened[m] /\ got'[m] = got[m]
  <2>1. pc' = pc \/ NextOp(n)
    BY DEF HostNext, Enter, HostSetup, HostSetupDone, Flush, ReceiveResult, SendClassical,
           RecvClassical, GotClassical, Exit, Return, hostvars
  <2>2. opened' = opened \/ \E x : opened' = [opened EXCEPT ![n] = x]
    BY DEF HostNext, Enter, HostSetup, HostSetupDone, Flush, ReceiveResult, SendClassical,
           RecvClassical, GotClassical, Exit, Return, hostvars
  <2>3. got' = got \/ \E x : got' = [got EXCEPT ![n] = x]
    BY DEF HostNext, Enter, HostSetup, HostSetupDone, Flush, ReceiveResult, SendClassical,
           RecvClassical, GotClassical, Exit, Return, hostvars
  <2> QED
    BY <2>1, <2>2, <2>3 DEF NextOp, Types
<1>8. \/ wire' = wire
      \/ \E x : wire' = [wire EXCEPT ![<<n, "host">>] = x]
      \/ SendClassical(n) /\ \E x : wire' = [wire EXCEPT ![<<Peer[n], "peer">>] = x]
  BY DEF HostNext, Enter, HostSetup, HostSetupDone, Flush, ReceiveResult, SendClassical,
         RecvClassical, GotClassical, Exit, Return, channels, Commit, Sent, Popped
<1>9. \/ buffer' = buffer
      \/ \E x : buffer' = [buffer EXCEPT ![<<n, "result">>] = x]
      \/ \E x : buffer' = [buffer EXCEPT ![<<n, "peer">>] = x]
  BY DEF HostNext, Enter, HostSetup, HostSetupDone, Flush, ReceiveResult, SendClassical,
         RecvClassical, GotClassical, Exit, Return, channels, Commit, Sent, Popped
<1>10. \A m \in Nodes : /\ <<m, "host">> \in DOMAIN wire /\ <<m, "host">> \in DOMAIN buffer
                         /\ <<m, "result">> \in DOMAIN wire /\ <<m, "result">> \in DOMAIN buffer
                         /\ <<m, "peer">> \in DOMAIN wire /\ <<m, "peer">> \in DOMAIN buffer
  BY ReaderFacts DEF Types, ChannelTypes
<1>11. \A l \in DOMAIN wire :
          l # <<n, "host">> /\ (SendClassical(n) => l # <<Peer[n], "peer">>) => wire'[l] = wire[l]
  BY <1>8
<1>12. \A l \in DOMAIN buffer : l # <<n, "result">> /\ l # <<n, "peer">> => buffer'[l] = buffer[l]
  BY <1>9
<1>13. \A m \in Nodes : /\ buffer'[<<m, "host">>] = buffer[<<m, "host">>]
                         /\ wire'[<<m, "result">>] = wire[<<m, "result">>]
  BY <1>10, <1>11, <1>12
<1>14. \A m \in Nodes : ~SendClassical(n) => wire'[<<m, "peer">>] = wire[<<m, "peer">>]
  BY <1>10, <1>11
<1>15. \A m \in Nodes \ {n} :
          /\ at'[Host(m)] = at[Host(m)]
          /\ pc'[m] = pc[m] /\ opened'[m] = opened[m] /\ got'[m] = got[m]
          /\ wire'[<<m, "host">>] = wire[<<m, "host">>]
          /\ buffer'[<<m, "result">>] = buffer[<<m, "result">>]
          /\ buffer'[<<m, "peer">>] = buffer[<<m, "peer">>]
  BY <1>4, <1>7, <1>10, <1>11, <1>12
<1> QED
  BY <1>1, <1>2, <1>4, <1>6, <1>13, <1>14, <1>15, Zenon

(* The QNodeOS is as it was, so only what is sent adds to its work.          *)
LEMMA HostWork ==
    ASSUME Types, NEW n \in Nodes, HostNext(n), NEW m \in Nodes
    PROVE  /\ wire'[<<m, "host">>] = wire[<<m, "host">>] => Work(m)' = Work(m)
           /\ buffer'[<<m, "result">>] = buffer[<<m, "result">>] => Answers(m)' = Answers(m)
           /\ Off(m)' <=> Off(m)
           /\ wire'[<<m, "peer">>] = wire[<<m, "peer">>] /\ buffer'[<<m, "peer">>] = buffer[<<m, "peer">>]
                 => Unread(m)' = Unread(m)
BY HostFrame DEF Work, Answers, Off, Unread

LEMMA HostElsewhere ==
    ASSUME Types, NEW n \in Nodes, HostNext(n), NEW m \in Nodes \ {n},
           Served(m), Handles(m), Usable(m)
    PROVE  Served(m)' /\ Handles(m)' /\ Usable(m)'
<1>1. /\ Work(m)' = Work(m) /\ Answers(m)' = Answers(m) /\ (Off(m)' <=> Off(m))
      /\ Asks(m)' <=> Asks(m)
  BY HostFrame, HostWork DEF Asks
<1>2. \A kind : Done(m, kind)' = Done(m, kind) /\ Before(m, kind)' = Before(m, kind)
  BY HostFrame, DoneSame
<1>3. /\ opened'[m] = opened[m] /\ handled'[m] = handled[m] /\ on' = on /\ current'[m] = current[m]
      /\ at'[QNodeOs(m)] = at[QNodeOs(m)] /\ program' = program /\ round' = round
      /\ circuits \subseteq circuits'
  BY HostFrame
<1>4. Served(m)'
  BY <1>1, <1>2, <1>3, ServedSame
<1>5. Handles(m)'
  BY <1>3, HandlesSame
<1>6. Usable(m)'
  BY <1>1, <1>2, <1>3, UsableSame
<1> QED
  BY <1>4, <1>5, <1>6

(* The connection of a program is entered once, before anything else is      *)
(* asked of it, and not used after it is exited.                             *)
LEMMA Connected ==
    ASSUME Types, NEW n \in Nodes, HostOp(n).kind \in {"enter", "flush", "exit"}
    PROVE  /\ Before(n, "exit") = {} /\ Done(n, "exit") = 0
           /\ HostOp(n).kind = "enter" => Before(n, "enter") = {} /\ Done(n, "enter") = 0
           /\ HostOp(n).kind # "enter" => Done(n, "enter") > 0
<1> DEFINE code == program.code[n]
           i == pc[n]
<1>1. i \in DOMAIN code /\ HostOp(n) = code[i] /\ i \in Nat
  BY HostOpFacts DEF Types
<1>2. Talks(code[i]) /\ DOMAIN code \subseteq Nat /\ OneConnection(code)
  BY <1>1, CodeFacts DEF Talks
<1> HIDE DEF code, i
<1>3. \A kind : Before(n, kind) = {j \in DOMAIN code : code[j].kind = kind /\ j < i}
  BY DEF Before, OpsOf, code, i
<1>4. Before(n, "exit") = {}
  <2>1. ASSUME NEW j \in DOMAIN code, code[j].kind = "exit", j < i
        PROVE  FALSE
    <3>1. i =< j
      BY <1>1, <1>2, <2>1 DEF OneConnection
    <3> QED
      BY <1>1, <1>2, <2>1, <3>1
  <2> QED
    BY <1>3, <2>1
<1>5. HostOp(n).kind = "enter" => Before(n, "enter") = {}
  <2>1. ASSUME HostOp(n).kind = "enter", NEW j \in DOMAIN code, code[j].kind = "enter", j < i
        PROVE  FALSE
    <3>1. Talks(code[j])
      BY <2>1 DEF Talks
    <3>2. i =< j
      BY <1>1, <1>2, <2>1, <3>1 DEF OneConnection
    <3> QED
      BY <1>1, <1>2, <2>1, <3>2
  <2> QED
    BY <1>3, <2>1
<1>6. HostOp(n).kind # "enter" => Before(n, "enter") # {}
  <2>1. PICK j \in DOMAIN code : code[j].kind = "enter"
    BY <1>1, <1>2 DEF OneConnection
  <2>2. j =< i
    BY <1>1, <1>2, <2>1 DEF OneConnection
  <2>3. HostOp(n).kind # "enter" => j < i
    BY <1>1, <1>2, <2>1, <2>2
  <2> QED
    BY <1>3, <2>1, <2>3
<1>7. \A kind : (Done(n, kind) = 0 <=> Before(n, kind) = {}) /\ Done(n, kind) \in Nat
  BY CodeFacts
<1> QED
  BY <1>4, <1>5, <1>6, <1>7

(* What a host commits is the last of its QNodeOS's work.                    *)
LEMMA CommitWork ==
    ASSUME Types, NEW n \in Nodes, HostNext(n), NEW kind \in {"init", "open", "subroutine", "stop"},
           NEW arg \in {0} \cup Sockets \cup DOMAIN Subroutines, Commit(n, kind, arg)
    PROVE  LET m == [kind |-> kind, arg |-> arg, sockets |-> HostOp(n).sockets]
           IN  /\ m \in Commands /\ Work(n)' = Append(Work(n), m) /\ Answers(n)' = Answers(n)
               /\ Work(n)' # <<>> /\ Final(Work(n)') = m
<1> DEFINE m == [kind |-> kind, arg |-> arg, sockets |-> HostOp(n).sockets]
           first == IF at[QNodeOs(n)] \in Handling THEN <<current[n]>> ELSE <<>>
           b == buffer[<<n, "host">>]
           w == wire[<<n, "host">>]
           S == Commands \cup {Nothing}
<1>1. m \in Commands
  BY HostOpFacts DEF Commands
<1>2. /\ wire'[<<n, "host">>] = Append(w, m) /\ buffer' = buffer
      /\ at'[QNodeOs(n)] = at[QNodeOs(n)] /\ current' = current
  <2>1. <<n, "host">> \in DOMAIN wire
    BY ReaderFacts DEF Types, ChannelTypes
  <2> QED
    BY <2>1, HostFrame DEF Commit, Sent
<1>3. b \in Seq(S) /\ w \in Seq(S) /\ first \in Seq(S) /\ m \in S
  <2>1. b \in Seq(Commands) /\ w \in Seq(Commands)
    BY QueueTypes
  <2>2. b \in Seq(S) /\ w \in Seq(S)
    BY <2>1
  <2>3. current[n] \in S
    BY DEF Types
  <2>4. <<current[n]>> \in Seq(S) /\ <<>> \in Seq(S)
    BY <2>3
  <2> QED
    BY <1>1, <2>2, <2>4, Zenon
<1>4. Work(n) = first \o (b \o w)
  BY DEF Work
<1>5. Work(n)' = first \o (b \o Append(w, m))
  BY <1>2 DEF Work
<1> HIDE DEF m, first, b, w, S
<1>6. b \o Append(w, m) = Append(b \o w, m) /\ b \o w \in Seq(S)
  BY <1>3, AppendLast, ConcatProperties
<1>7. first \o Append(b \o w, m) = Append(first \o (b \o w), m)
  BY <1>3, <1>6, AppendLast
<1>8. Work(n)' = Append(Work(n), m) /\ Work(n) \in Seq(S)
  BY <1>3, <1>4, <1>5, <1>6, <1>7, ConcatProperties
<1>9. Work(n)' # <<>> /\ Final(Work(n)') = m
  BY <1>3, <1>8, AppendedWork
<1>10. Answers(n)' = Answers(n)
  BY <1>2, HostFrame DEF Answers
<1> QED
  BY <1>1, <1>8, <1>9, <1>10 DEF m

(* A host that runs has no question unanswered.                              *)
LEMMA RunningHost ==
    ASSUME Types, NEW n \in Nodes, at[Host(n)][2] # "result", Served(n), Usable(n)
    PROVE  /\ Asks(n) = FALSE /\ ~Pending(n)
           /\ \A s \in opened[n] : Ready(s)
           /\ Serve(Work(n), Answers(n), FALSE, Off(n),
                    Done(n, "enter"), Asked(n), Done(n, "exit"), handled[n])
<1>1. Asks(n) = FALSE
  BY DEF Asks
<1>2. ~Pending(n)
  BY <1>1 DEF Pending
<1> QED
  BY <1>1, <1>2 DEF Served, Usable

LEMMA EnterKept ==
    ASSUME Types, NEW n \in Nodes, Enter(n), Served(n), Handles(n), Usable(n)
    PROVE  Served(n)' /\ Handles(n)' /\ Usable(n)'
<1> DEFINE m == [kind |-> "init", arg |-> 0, sockets |-> HostOp(n).sockets]
<1>1. /\ HostNext(n) /\ HostOp(n).kind = "enter" /\ at[Host(n)] = <<"run", "">> /\ at' = at
      /\ NextOp(n) /\ opened' = opened /\ Commit(n, "init", 0)
  BY DEF Enter, HostRuns, HostNext
<1>2. /\ m \in Commands /\ m.kind = "init" /\ Work(n)' = Append(Work(n), m)
      /\ Answers(n)' = Answers(n)
  BY <1>1, CommitWork
<1>3. /\ at[Host(n)][2] # "result" /\ Asks(n)' = FALSE
  <2>1. <<"run", "">>[2] = "" /\ "" # "result"
    OBVIOUS
  <2> QED
    BY <1>1, <2>1, Zenon DEF Asks
<1>4. /\ Asks(n) = FALSE /\ ~Pending(n)
      /\ \A s \in opened[n] : Ready(s)
      /\ Serve(Work(n), Answers(n), FALSE, Off(n),
               Done(n, "enter"), Asked(n), Done(n, "exit"), handled[n])
  BY <1>3, RunningHost
<1>5. Done(n, "enter") = 0 /\ Done(n, "exit") = 0
  BY <1>1, Connected
<1>6. Asked(n) = 0
  <2>1. Done(n, "flush") \in Nat /\ Cardinality(opened[n]) \in Nat
    BY CodeFacts, FS_CardinalityType DEF Handles
  <2> QED
    BY <1>4, <1>5, <2>1 DEF Serve, Asked
<1>7. /\ program' = program /\ Off(n)' = Off(n) /\ handled'[n] = handled[n] /\ on' = on
      /\ current'[n] = current[n] /\ at'[QNodeOs(n)] = at[QNodeOs(n)]
      /\ round' = round /\ circuits \subseteq circuits'
  BY <1>1, HostFrame DEF Off
<1>8. /\ Done(n, "enter")' = 1 /\ Done(n, "exit")' = 0 /\ Done(n, "flush")' = Done(n, "flush")
      /\ Before(n, "setup")' = Before(n, "setup")
  <2>1. HostOp(n).kind # "none" /\ NextOp(n)
    BY <1>1
  <2>2. /\ Done(n, "enter")' = Done(n, "enter") + 1 /\ Done(n, "exit")' = Done(n, "exit")
        /\ Done(n, "flush")' = Done(n, "flush") /\ Before(n, "setup")' = Before(n, "setup")
    BY <1>1, <1>7, <2>1, DoneNext
  <2> QED
    BY <1>5, <2>2
<1>9. Asked(n)' = 0
  BY <1>1, <1>6, <1>8 DEF Asked
<1>10. Work(n) \in Seq(Commands \cup {Nothing}) /\ Off(n) \in BOOLEAN /\ handled[n] \in Nat
  BY QueueTypes
<1> HIDE DEF m
<1>11. Serve(Append(Work(n), m), Answers(n), FALSE, Off(n), 1, 0, 0, handled[n])
  BY <1>2, <1>4, <1>5, <1>6, <1>10, ServeEnter
<1>12. Served(n)'
  BY <1>2, <1>3, <1>7, <1>8, <1>9, <1>11, Zenon DEF Served
<1>13. Handles(n)'
  BY <1>1, <1>7, HandlesSame
<1>14. Usable(n)'
  <2>1. ~Pending(n)'
    BY <1>3 DEF Pending
  <2>2. \A s : Ready(s) => Ready(s)'
    BY <1>7 DEF Ready
  <2> QED
    BY <1>1, <1>4, <1>7, <1>8, <2>1, <2>2 DEF Usable
<1> QED
  BY <1>12, <1>13, <1>14

LEMMA AskedNat ==
    ASSUME Types, NEW n \in Nodes, Handles(n)
    PROVE  /\ \A kind : Done(n, kind) \in Nat
           /\ IsFiniteSet(opened[n]) /\ Cardinality(opened[n]) \in Nat /\ Asked(n) \in Nat
<1>1. \A kind : Done(n, kind) \in Nat
  BY CodeFacts
<1>2. IsFiniteSet(opened[n])
  BY DEF Handles
<1>3. Cardinality(opened[n]) \in Nat
  BY <1>2, FS_CardinalityType
<1>4. Asked(n) \in Nat
  BY <1>1, <1>3 DEF Asked
<1> QED
  BY <1>1, <1>2, <1>3, <1>4

LEMMA FlushOpenKept ==
    ASSUME Types, NEW n \in Nodes, Flush(n), Served(n), Handles(n), Usable(n),
           NEW s \in Sockets, s \notin opened[n], Commit(n, "open", s),
           opened' = [opened EXCEPT ![n] = @ \cup {s}], UNCHANGED pc
    PROVE  Served(n)' /\ Handles(n)' /\ Usable(n)'
<1> DEFINE m == [kind |-> "open", arg |-> s, sockets |-> HostOp(n).sockets]
<1>1. /\ HostNext(n) /\ HostOp(n).kind = "flush" /\ at[Host(n)] = <<"run", "">>
      /\ at' = [at EXCEPT ![Host(n)] = <<"receive", "result">>]
      /\ opened'[n] = opened[n] \cup {s} /\ pc'[n] = pc[n]
  BY DEF Flush, HostRuns, HostNext, Types
<1>2. /\ m \in Commands /\ m.kind = "open" /\ m.arg = s /\ Work(n)' = Append(Work(n), m)
      /\ Answers(n)' = Answers(n) /\ Work(n)' # <<>> /\ Final(Work(n)') = m
  BY <1>1, CommitWork
<1>3. /\ at[Host(n)][2] # "result" /\ Asks(n)' = TRUE
  <2>1. <<"run", "">>[2] = "" /\ "" # "result" /\ <<"receive", "result">>[2] = "result"
    OBVIOUS
  <2>2. at'[Host(n)] = <<"receive", "result">>
    BY <1>1, ReaderFacts DEF Types
  <2> QED
    BY <1>1, <2>1, <2>2, Zenon DEF Asks
<1>4. /\ Asks(n) = FALSE /\ ~Pending(n)
      /\ \A x \in opened[n] : Ready(x)
      /\ Serve(Work(n), Answers(n), FALSE, Off(n),
               Done(n, "enter"), Asked(n), Done(n, "exit"), handled[n])
  BY <1>3, RunningHost
<1>5. Done(n, "enter") > 0 /\ Done(n, "exit") = 0
  BY <1>1, Connected
<1>6. /\ Asked(n) \in Nat /\ Cardinality(opened[n]) \in Nat
      /\ IsFiniteSet(opened'[n]) /\ Cardinality(opened'[n]) = Cardinality(opened[n]) + 1
  <2>1. Asked(n) \in Nat /\ IsFiniteSet(opened[n]) /\ Cardinality(opened[n]) \in Nat
    BY AskedNat
  <2>2. /\ IsFiniteSet(opened[n] \cup {s})
        /\ Cardinality(opened[n] \cup {s}) = Cardinality(opened[n]) + 1
    BY <2>1, FS_AddElement
  <2> QED
    BY <1>1, <2>1, <2>2, Zenon
<1>7. /\ program' = program /\ Off(n)' = Off(n) /\ handled'[n] = handled[n] /\ on' = on
      /\ current'[n] = current[n] /\ at'[QNodeOs(n)] = at[QNodeOs(n)]
      /\ round' = round /\ circuits \subseteq circuits'
  BY <1>1, HostFrame DEF Off
<1>8. \A kind : Done(n, kind)' = Done(n, kind) /\ Before(n, kind)' = Before(n, kind)
  BY <1>1, <1>7, DoneSame
<1>9. Asked(n)' = Asked(n) + 1
  <2>1. \A kind : Done(n, kind) \in Nat
    BY AskedNat
  <2> QED
    BY <1>6, <1>8, <2>1 DEF Asked
<1>10. Work(n) \in Seq(Commands \cup {Nothing}) /\ Off(n) \in BOOLEAN /\ handled[n] \in Nat
  BY QueueTypes
<1> HIDE DEF m
<1>11. Serve(Append(Work(n), m), Answers(n), TRUE, Off(n),
             Done(n, "enter"), Asked(n) + 1, 0, handled[n])
  <2>1. Serve(Work(n), Answers(n), FALSE, Off(n), Done(n, "enter"), Asked(n), 0, handled[n])
    BY <1>4, <1>5, Zenon
  <2>2. m.kind \in Questions /\ Done(n, "enter") \in Nat /\ m \in Commands \cup {Nothing}
    BY <1>2, AskedNat DEF Questions
  <2> QED
    BY <1>5, <1>6, <1>10, <2>1, <2>2, ServeAsk, ZenonT(40)
<1>12. Served(n)'
  <2>1. Done(n, "exit")' = 0
    BY <1>5, <1>8
  <2> QED
    BY <1>2, <1>3, <1>7, <1>8, <1>9, <1>11, <2>1, Zenon DEF Served
<1>13. Handles(n)'
  BY <1>6, <1>7 DEF Handles, Off
<1>14. Usable(n)'
  <2>1. Pending(n)'
    BY <1>2, <1>3 DEF Pending
  <2>2. \A x : Ready(x) => Ready(x)'
    BY <1>7 DEF Ready
  <2> QED
    BY <1>1, <1>2, <1>4, <1>7, <1>8, <2>1, <2>2 DEF Usable
<1> QED
  BY <1>12, <1>13, <1>14

LEMMA FlushSubroutineKept ==
    ASSUME Types, NEW n \in Nodes, Flush(n), Served(n), Handles(n), Usable(n),
           \A i \in DOMAIN HostOp(n).sockets : HostOp(n).sockets[i] \in opened[n],
           Commit(n, "subroutine", HostOp(n).arg), NextOp(n), UNCHANGED opened
    PROVE  Served(n)' /\ Handles(n)' /\ Usable(n)'
<1> DEFINE m == [kind |-> "subroutine", arg |-> HostOp(n).arg, sockets |-> HostOp(n).sockets]
<1>1. /\ HostNext(n) /\ HostOp(n).kind = "flush" /\ at[Host(n)] = <<"run", "">>
      /\ at' = [at EXCEPT ![Host(n)] = <<"receive", "result">>]
  BY DEF Flush, HostRuns, HostNext, Types
<1>2. /\ m \in Commands /\ m.kind = "subroutine" /\ m.arg = HostOp(n).arg
      /\ Work(n)' = Append(Work(n), m)
      /\ Answers(n)' = Answers(n) /\ Work(n)' # <<>> /\ Final(Work(n)') = m
  <2>1. HostOp(n).arg \in {0} \cup Sockets \cup DOMAIN Subroutines
    BY <1>1, HostOpFacts
  <2> QED
    BY <1>1, <2>1, CommitWork
<1>3. /\ at[Host(n)][2] # "result" /\ Asks(n)' = TRUE
  <2>1. <<"run", "">>[2] = "" /\ "" # "result" /\ <<"receive", "result">>[2] = "result"
    OBVIOUS
  <2>2. at'[Host(n)] = <<"receive", "result">>
    BY <1>1, ReaderFacts DEF Types
  <2> QED
    BY <1>1, <2>1, <2>2, Zenon DEF Asks
<1>4. /\ Asks(n) = FALSE /\ ~Pending(n)
      /\ \A x \in opened[n] : Ready(x)
      /\ Serve(Work(n), Answers(n), FALSE, Off(n),
               Done(n, "enter"), Asked(n), Done(n, "exit"), handled[n])
  BY <1>3, RunningHost
<1>5. Done(n, "enter") > 0 /\ Done(n, "exit") = 0
  BY <1>1, Connected
<1>6. Asked(n) \in Nat /\ Cardinality(opened[n]) \in Nat
  BY AskedNat
<1>7. /\ program' = program /\ Off(n)' = Off(n) /\ handled'[n] = handled[n] /\ on' = on
      /\ current'[n] = current[n] /\ at'[QNodeOs(n)] = at[QNodeOs(n)]
      /\ round' = round /\ circuits \subseteq circuits'
  BY <1>1, HostFrame DEF Off
<1>8. /\ Done(n, "enter")' = Done(n, "enter") /\ Done(n, "exit")' = Done(n, "exit")
      /\ Done(n, "flush")' = Done(n, "flush") + 1
      /\ Before(n, "setup")' = Before(n, "setup")
  <2>1. HostOp(n).kind # "none"
    BY <1>1
  <2> QED
    BY <1>1, <1>7, <2>1, DoneNext
<1>9. Asked(n)' = Asked(n) + 1
  <2>1. \A kind : Done(n, kind) \in Nat
    BY AskedNat
  <2> QED
    BY <1>6, <1>8, <2>1 DEF Asked
<1>10. Work(n) \in Seq(Commands \cup {Nothing}) /\ Off(n) \in BOOLEAN /\ handled[n] \in Nat
  BY QueueTypes
<1> HIDE DEF m
<1>11. Serve(Append(Work(n), m), Answers(n), TRUE, Off(n),
             Done(n, "enter"), Asked(n) + 1, 0, handled[n])
  <2>1. Serve(Work(n), Answers(n), FALSE, Off(n), Done(n, "enter"), Asked(n), 0, handled[n])
    BY <1>4, <1>5, Zenon
  <2>2. m.kind \in Questions /\ Done(n, "enter") \in Nat /\ m \in Commands \cup {Nothing}
    BY <1>2, AskedNat DEF Questions
  <2> QED
    BY <1>5, <1>6, <1>10, <2>1, <2>2, ServeAsk
<1>12. Served(n)'
  <2>1. Done(n, "exit")' = 0
    BY <1>5, <1>8
  <2> QED
    BY <1>2, <1>3, <1>7, <1>8, <1>9, <1>11, <2>1, Zenon DEF Served
<1>13. Handles(n)'
  BY <1>7, HandlesSame
<1>14. Usable(n)'
  <2> DEFINE sub == Subroutines[HostOp(n).arg]
  <2>1. \A x : Ready(x) => Ready(x)'
    BY <1>7 DEF Ready
  <2>2. sub.kind \in {"create", "recv"} => Ready(sub.socket)
    <3>1. /\ pc[n] \in DOMAIN program.code[n] /\ HostOp(n) = program.code[n][pc[n]]
          /\ DOMAIN program.code[n] = 1 .. Len(program.code[n]) /\ Len(program.code[n]) \in Nat
          /\ SocketsNamed(program.code[n])
      BY <1>1, HostOpFacts, CodeFacts
    <3>2. ASSUME sub.kind \in {"create", "recv"}
          PROVE  \/ sub.socket \in Range(HostOp(n).sockets)
                 \/ \E j \in 1 .. pc[n] - 1 : /\ program.code[n][j].kind = "setup"
                                              /\ program.code[n][j].arg = sub.socket
      BY <1>1, <3>1, <3>2 DEF SocketsNamed
    <3>3. sub.socket \in Range(HostOp(n).sockets) => sub.socket \in opened[n]
      BY DEF Range
    <3>4. \A j \in 1 .. pc[n] - 1 : program.code[n][j].kind = "setup" => j \in Before(n, "setup")
      BY <3>1 DEF Before, OpsOf
    <3>5. \A j \in Before(n, "setup") : Ready(program.code[n][j].arg)
      BY DEF Usable
    <3> HIDE DEF sub
    <3> QED
      BY <1>4, <3>2, <3>3, <3>4, <3>5
  <2> QED
    BY <1>2, <1>4, <1>7, <1>8, <2>1, <2>2 DEF Usable
<1> QED
  BY <1>12, <1>13, <1>14

LEMMA ExitKept ==
    ASSUME Types, NEW n \in Nodes, Exit(n), Served(n), Handles(n), Usable(n)
    PROVE  Served(n)' /\ Handles(n)' /\ Usable(n)'
<1> DEFINE m == [kind |-> "stop", arg |-> 0, sockets |-> HostOp(n).sockets]
<1>1. /\ HostNext(n) /\ HostOp(n).kind = "exit" /\ at[Host(n)] = <<"run", "">> /\ at' = at
      /\ NextOp(n) /\ opened' = opened /\ Commit(n, "stop", 0)
  BY DEF Exit, HostRuns, HostNext
<1>2. /\ m \in Commands /\ m.kind = "stop" /\ Work(n)' = Append(Work(n), m)
      /\ Answers(n)' = Answers(n)
  BY <1>1, CommitWork
<1>3. /\ at[Host(n)][2] # "result" /\ Asks(n)' = FALSE
  <2>1. <<"run", "">>[2] = "" /\ "" # "result"
    OBVIOUS
  <2> QED
    BY <1>1, <2>1, Zenon DEF Asks
<1>4. /\ Asks(n) = FALSE /\ ~Pending(n)
      /\ \A s \in opened[n] : Ready(s)
      /\ Serve(Work(n), Answers(n), FALSE, Off(n),
               Done(n, "enter"), Asked(n), Done(n, "exit"), handled[n])
  BY <1>3, RunningHost
<1>5. Done(n, "exit") = 0
  BY <1>1, Connected
<1>6. Asked(n) \in Nat
  BY AskedNat
<1>7. /\ program' = program /\ Off(n)' = Off(n) /\ handled'[n] = handled[n] /\ on' = on
      /\ current'[n] = current[n] /\ at'[QNodeOs(n)] = at[QNodeOs(n)]
      /\ round' = round /\ circuits \subseteq circuits'
  BY <1>1, HostFrame DEF Off
<1>8. /\ Done(n, "enter")' = Done(n, "enter") /\ Done(n, "exit")' = 1
      /\ Done(n, "flush")' = Done(n, "flush") /\ Before(n, "setup")' = Before(n, "setup")
  <2>1. HostOp(n).kind # "none"
    BY <1>1
  <2>2. /\ Done(n, "enter")' = Done(n, "enter") /\ Done(n, "exit")' = Done(n, "exit") + 1
        /\ Done(n, "flush")' = Done(n, "flush") /\ Before(n, "setup")' = Before(n, "setup")
    BY <1>1, <1>7, <2>1, DoneNext
  <2> QED
    BY <1>5, <2>2
<1>9. Asked(n)' = Asked(n)
  BY <1>1, <1>8 DEF Asked
<1>10. Work(n) \in Seq(Commands \cup {Nothing}) /\ Off(n) \in BOOLEAN /\ handled[n] \in Nat
  BY QueueTypes
<1> HIDE DEF m
<1>11. Serve(Append(Work(n), m), Answers(n), FALSE, Off(n), Done(n, "enter"), Asked(n), 1, handled[n])
  <2>1. Serve(Work(n), Answers(n), FALSE, Off(n), Done(n, "enter"), Asked(n), 0, handled[n])
    BY <1>4, <1>5, Zenon
  <2>2. Done(n, "enter") \in Nat /\ m \in Commands \cup {Nothing}
    BY <1>2, AskedNat
  <2> QED
    BY <1>2, <1>6, <1>10, <2>1, <2>2, ServeExit
<1>12. Served(n)'
  BY <1>2, <1>3, <1>7, <1>8, <1>9, <1>11, Zenon DEF Served
<1>13. Handles(n)'
  BY <1>1, <1>7, HandlesSame
<1>14. Usable(n)'
  <2>1. ~Pending(n)'
    BY <1>3 DEF Pending
  <2>2. \A s : Ready(s) => Ready(s)'
    BY <1>7 DEF Ready
  <2> QED
    BY <1>1, <1>4, <1>7, <1>8, <2>1, <2>2 DEF Usable
<1> QED
  BY <1>12, <1>13, <1>14

(* A host that neither commits nor reads an answer.                          *)
LEMMA SteadyHost ==
    ASSUME Types, NEW n \in Nodes, HostNext(n), Served(n), Handles(n), Usable(n),
           wire'[<<n, "host">>] = wire[<<n, "host">>],
           buffer'[<<n, "result">>] = buffer[<<n, "result">>], opened'[n] = opened[n],
           at[Host(n)][2] # "result", at'[Host(n)][2] # "result",
           \/ pc'[n] = pc[n]
           \/ NextOp(n) /\ HostOp(n).kind \in {"setup", "send", "recv"}
    PROVE  /\ Served(n)' /\ Handles(n)'
           /\ HostOp(n).kind # "setup" \/ pc'[n] = pc[n] => Usable(n)'
<1>1. /\ Work(n)' = Work(n) /\ Answers(n)' = Answers(n) /\ (Off(n)' <=> Off(n))
      /\ Asks(n)' <=> Asks(n)
  BY HostFrame, HostWork DEF Asks
<1>2. /\ opened'[n] = opened[n] /\ handled'[n] = handled[n] /\ on' = on /\ current'[n] = current[n]
      /\ at'[QNodeOs(n)] = at[QNodeOs(n)] /\ program' = program /\ round' = round
      /\ circuits \subseteq circuits'
  BY HostFrame
<1>3. /\ \A kind \in {"enter", "flush", "exit"} : Done(n, kind)' = Done(n, kind)
      /\ HostOp(n).kind # "setup" \/ pc'[n] = pc[n] => Before(n, "setup")' = Before(n, "setup")
  <2>1. CASE pc'[n] = pc[n]
    BY <1>2, <2>1, DoneSame
  <2>2. CASE NextOp(n) /\ HostOp(n).kind \in {"setup", "send", "recv"}
    <3>1. HostOp(n).kind # "none" /\ \A kind \in {"enter", "flush", "exit"} : HostOp(n).kind # kind
      BY <2>2
    <3>2. pc'[n] # pc[n]
      BY <2>2 DEF NextOp, Types
    <3> QED
      BY <1>2, <2>2, <3>1, <3>2, DoneNext
  <2> QED
    BY <2>1, <2>2
<1>4. Served(n)'
  BY <1>1, <1>2, <1>3, ServedSame
<1>5. Handles(n)'
  BY <1>2, HandlesSame
<1>6. HostOp(n).kind # "setup" \/ pc'[n] = pc[n] => Usable(n)'
  BY <1>1, <1>2, <1>3, UsableSame
<1> QED
  BY <1>4, <1>5, <1>6

(* Circuits are those of the present round.                                  *)
LEMMA CircuitReady ==
    ASSUME NEW s, \A c \in circuits : c[3] = round, HasCircuit(s)
    PROVE  Ready(s)
<1>1. ASSUME NEW x \in Nodes
      PROVE  <<x, s, round>> \in circuits
  <2>1. PICK r \in 1 .. round : <<x, s, r>> \in circuits
    BY DEF HasCircuit
  <2>2. <<x, s, r>>[3] = r
    OBVIOUS
  <2>3. r = round
    BY <2>1, <2>2, Zenon
  <2> QED
    BY <2>1, <2>3
<1> QED
  BY <1>1 DEF Ready

LEMMA HostSetupDoneKept ==
    ASSUME Types, NEW n \in Nodes, HostSetupDone(n), Served(n), Handles(n), Usable(n), Told(n),
           \A c \in circuits : c[3] = round
    PROVE  Served(n)' /\ Handles(n)' /\ Usable(n)'
<1>1. /\ HostNext(n) /\ at[Host(n)] = <<"setup", "">> /\ NextOp(n) /\ UNCHANGED <<opened, wire, buffer>>
      /\ HasCircuit(HostOp(n).arg) /\ at' = [at EXCEPT ![Host(n)] = <<"run", "">>]
  <2>1. <<n, "Host">>[1] = n /\ <<n, "Host">>[2] = "Host"
    OBVIOUS
  <2> QED
    BY <2>1 DEF HostSetupDone, HostNext, Polls, SettingUp, Host, channels
<1>2. HostOp(n).kind = "setup"
  BY <1>1 DEF Told, Placed
<1>3. at[Host(n)][2] # "result" /\ at'[Host(n)][2] # "result"
  <2>1. /\ <<"setup", "">>[2] = "" /\ <<"run", "">>[2] = "" /\ "" # "result"
    OBVIOUS
  <2>2. at'[Host(n)] = <<"run", "">>
    BY <1>1, ReaderFacts DEF Types
  <2> QED
    BY <1>1, <2>1, <2>2, Zenon
<1>4. Served(n)' /\ Handles(n)'
  BY <1>1, <1>2, <1>3, SteadyHost
<1>5. /\ program' = program /\ round' = round /\ circuits \subseteq circuits'
      /\ pc[n] \in DOMAIN program.code[n] /\ HostOp(n) = program.code[n][pc[n]]
  BY <1>1, <1>2, HostFrame, HostOpFacts
<1>6. Before(n, "setup")' = Before(n, "setup") \cup {pc[n]}
  <2>1. HostOp(n).kind # "none"
    BY <1>2
  <2> QED
    BY <1>1, <1>2, <1>5, <2>1, DoneNext
<1>7. Ready(program.code[n][pc[n]].arg)
  BY <1>1, <1>5, CircuitReady
<1>8. Usable(n)'
  <2>1. ~Pending(n)' /\ ~Pending(n)
    BY <1>3 DEF Pending, Asks
  <2>2. \A s : Ready(s) => Ready(s)'
    BY <1>5 DEF Ready
  <2>3. /\ \A i \in Before(n, "setup") : Ready(program.code[n][i].arg)
        /\ \A s \in opened[n] : Ready(s)
    BY <2>1 DEF Usable
  <2> QED
    BY <1>1, <1>5, <1>6, <1>7, <2>1, <2>2, <2>3 DEF Usable
<1> QED
  BY <1>4, <1>8

LEMMA ReceiveResultKept ==
    ASSUME Types, NEW n \in Nodes, ReceiveResult(n), Served(n), Handles(n), Usable(n)
    PROVE  Served(n)' /\ Handles(n)' /\ Usable(n)'
<1> DEFINE l == <<n, "result">>
<1>1. /\ HostNext(n) /\ buffer[l] # <<>> /\ Popped(l) /\ UNCHANGED <<pc, opened>>
      /\ at' = [at EXCEPT ![Host(n)] = <<"run", "">>]
  BY DEF ReceiveResult, HostNext, Pops, hostvars
<1>2. buffer'[l] = Tail(buffer[l]) /\ wire' = wire
  BY <1>1, ReaderFacts, PoppedTypes DEF Types, Popped
<1>3. Answers(n) # <<>> /\ Answers(n)' = Tail(Answers(n))
  <2>1. buffer[l] \in Seq(Commands \cup {Nothing}) /\ wire[l] \in Seq(Commands \cup {Nothing})
    BY QueueTypes
  <2> HIDE DEF l
  <2>2. buffer[l] \o wire[l] # <<>> /\ Tail(buffer[l] \o wire[l]) = Tail(buffer[l]) \o wire[l]
    BY <1>1, <2>1, TakeFirst
  <2> QED
    BY <1>2, <2>2 DEF Answers, l
<1>4. /\ Work(n)' = Work(n) /\ Off(n)' = Off(n)
  BY <1>1, <1>2, HostFrame, HostWork DEF Off
<1>5. Asks(n)' = FALSE
  <2>1. <<"run", "">>[2] = "" /\ "" # "result" /\ at'[Host(n)] = <<"run", "">>
    BY <1>1, ReaderFacts DEF Types
  <2> QED
    BY <2>1, Zenon DEF Asks
<1>6. /\ \A kind : Done(n, kind)' = Done(n, kind) /\ Before(n, kind)' = Before(n, kind)
      /\ Asked(n)' = Asked(n) /\ handled'[n] = handled[n] /\ on' = on /\ program' = program
      /\ current'[n] = current[n] /\ at'[QNodeOs(n)] = at[QNodeOs(n)] /\ opened'[n] = opened[n]
      /\ round' = round /\ circuits \subseteq circuits'
  <2>1. /\ handled'[n] = handled[n] /\ on' = on /\ current'[n] = current[n] /\ program' = program
        /\ at'[QNodeOs(n)] = at[QNodeOs(n)] /\ round' = round /\ circuits \subseteq circuits'
    BY <1>1, HostFrame
  <2>2. \A kind : Done(n, kind)' = Done(n, kind) /\ Before(n, kind)' = Before(n, kind)
    BY <1>1, <2>1, DoneSame
  <2> QED
    BY <1>1, <2>1, <2>2 DEF Asked
<1>7. /\ Work(n) = <<>>
      /\ Serve(Work(n), Tail(Answers(n)), FALSE, Off(n),
               Done(n, "enter"), Asked(n), Done(n, "exit"), handled[n])
  <2> DEFINE S == Commands \cup {Nothing}
             w == Work(n)
             ans == Answers(n)
             entered == Done(n, "enter")
             exited == Done(n, "exit")
  <2>1. /\ w \in Seq(S) /\ ans \in Seq(S) /\ ans # <<>>
        /\ Off(n) \in BOOLEAN /\ handled[n] \in Nat
    BY <1>3, QueueTypes
  <2>2. Asked(n) \in Nat /\ entered \in Nat /\ exited \in Nat
    BY AskedNat
  <2>3. Serve(w, ans, Asks(n), Off(n), entered, Asked(n), exited, handled[n])
    BY DEF Served
  <2>4. Asks(n) = TRUE
    BY <1>3, <2>1, <2>3 DEF Serve
  <2>5. Serve(w, ans, TRUE, Off(n), entered, Asked(n), exited, handled[n])
    BY <2>3, <2>4, Zenon
  <2> HIDE DEF S, w, ans, entered, exited
  <2>6. /\ w = <<>> /\ Len(ans) = 1
        /\ Serve(w, <<>>, FALSE, Off(n), entered, Asked(n), exited, handled[n])
    BY <2>1, <2>2, <2>5, ServeRead
  <2>7. Tail(ans) = <<>>
    BY <2>1, <2>6, TakenWork
  <2> QED
    BY <2>6, <2>7, Zenon DEF w, ans, entered, exited
<1>8. Served(n)'
  <2>1. Serve(Work(n)', Answers(n)', Asks(n)', Off(n)',
              Done(n, "enter")', Asked(n)', Done(n, "exit")', handled'[n])
    <3>1. Done(n, "enter")' = Done(n, "enter") /\ Done(n, "exit")' = Done(n, "exit")
      BY <1>6
    <3> QED
      BY <1>3, <1>4, <1>5, <1>6, <1>7, <3>1, Zenon
  <2> QED
    BY <2>1, Zenon DEF Served
<1>9. Handles(n)'
  BY <1>6, HandlesSame
<1>10. Usable(n)'
  <2>1. ~Pending(n)' /\ ~Pending(n)
    BY <1>5, <1>7 DEF Pending
  <2>2. \A s : Ready(s) => Ready(s)'
    BY <1>6 DEF Ready
  <2> QED
    BY <1>6, <2>1, <2>2 DEF Usable
<1> QED
  BY <1>8, <1>9, <1>10

LEMMA SteadyHostKept ==
    ASSUME Types, NEW n \in Nodes, Served(n), Handles(n), Usable(n), Told(n),
           HostSetup(n) \/ SendClassical(n) \/ RecvClassical(n) \/ GotClassical(n) \/ Return(n)
    PROVE  Served(n)' /\ Handles(n)' /\ Usable(n)'
<1>1. HostNext(n) /\ opened'[n] = opened[n]
  BY DEF HostNext, HostSetup, SendClassical, RecvClassical, GotClassical, Return, hostvars
<1>2. wire'[<<n, "host">>] = wire[<<n, "host">>] /\ buffer'[<<n, "result">>] = buffer[<<n, "result">>]
  <2>1. /\ <<n, "host">> \in DOMAIN wire /\ <<n, "result">> \in DOMAIN buffer
        /\ <<n, "host">> # <<Peer[n], "peer">> /\ <<n, "result">> # <<n, "peer">>
    BY ReaderFacts DEF Types, ChannelTypes
  <2>2. wire' = wire \/ \E x : wire' = [wire EXCEPT ![<<Peer[n], "peer">>] = x]
    BY DEF HostSetup, SendClassical, RecvClassical, GotClassical, Return, channels, Sent, Popped
  <2>3. buffer' = buffer \/ \E x : buffer' = [buffer EXCEPT ![<<n, "peer">>] = x]
    BY DEF HostSetup, SendClassical, RecvClassical, GotClassical, Return, channels, Sent, Popped
  <2> QED
    BY <2>1, <2>2, <2>3
<1>3. at[Host(n)][2] # "result" /\ at'[Host(n)][2] # "result"
  <2>0. <<n, "peer">>[2] = "peer"
    OBVIOUS
  <2>1. /\ at[Host(n)] \in {<<"run", "">>, <<"receive", "peer">>, <<"woken", "peer">>}
        /\ \/ at' = at
           \/ \E a \in {<<"setup", "">>, <<"receive", "peer">>, <<"run", "">>, <<"ended", "">>} :
                 at' = [at EXCEPT ![Host(n)] = a]
    BY DEF HostSetup, SendClassical, RecvClassical, GotClassical, Return, HostRuns, Pops
  <2>2. at'[Host(n)] \in {<<"setup", "">>, <<"receive", "peer">>, <<"run", "">>, <<"ended", "">>,
                          <<"woken", "peer">>}
    BY <2>1, ReaderFacts DEF Types
  <2>3. \A k : <<k, "">>[2] = "" /\ <<k, "peer">>[2] = "peer"
    OBVIOUS
  <2>4. "" # "result" /\ "peer" # "result"
    OBVIOUS
  <2> QED
    BY <2>1, <2>2, <2>3, <2>4, Zenon
<1>4. /\ HostOp(n).kind # "setup" \/ pc'[n] = pc[n]
      /\ pc'[n] = pc[n] \/ (NextOp(n) /\ HostOp(n).kind \in {"setup", "send", "recv"})
  <2>1. CASE HostSetup(n) \/ RecvClassical(n) \/ Return(n)
    BY <2>1 DEF HostSetup, RecvClassical, Return, hostvars
  <2>2. CASE SendClassical(n)
    BY <2>2 DEF SendClassical, HostRuns
  <2>3. CASE GotClassical(n)
    <3>1. at[Host(n)][2] = "peer"
      <4>1. at[Host(n)] \in {<<"receive", <<n, "peer">>[2]>>, <<"woken", <<n, "peer">>[2]>>}
        BY <2>3 DEF GotClassical, Pops
      <4>2. <<n, "peer">>[2] = "peer" /\ \A k : <<k, "peer">>[2] = "peer"
        OBVIOUS
      <4> QED
        BY <4>1, <4>2, Zenon
    <3> QED
      BY <2>3, <3>1 DEF GotClassical, Told, Placed
  <2> QED
    BY <2>1, <2>2, <2>3
<1> QED
  BY <1>1, <1>2, <1>3, <1>4, SteadyHost

LEMMA HostKept ==
    ASSUME Types, NEW n \in Nodes, HostNext(n), \A c \in circuits : c[3] = round,
           \A m \in Nodes : Served(m) /\ Handles(m) /\ Usable(m) /\ Told(m)
    PROVE  \A m \in Nodes : Served(m)' /\ Handles(m)' /\ Usable(m)'
<1>1. \A m \in Nodes \ {n} : Served(m)' /\ Handles(m)' /\ Usable(m)'
  BY HostElsewhere
<1>2. CASE Flush(n)
  <2>1. CASE \E i \in DOMAIN HostOp(n).sockets :
                /\ NextSocket(n, i)
                /\ Commit(n, "open", HostOp(n).sockets[i])
                /\ opened' = [opened EXCEPT ![n] = @ \cup {HostOp(n).sockets[i]}]
                /\ UNCHANGED pc
    <3>1. PICK i \in DOMAIN HostOp(n).sockets :
             /\ HostOp(n).sockets[i] \notin opened[n]
             /\ Commit(n, "open", HostOp(n).sockets[i])
             /\ opened' = [opened EXCEPT ![n] = @ \cup {HostOp(n).sockets[i]}]
             /\ UNCHANGED pc
      BY <2>1 DEF NextSocket
    <3>2. HostOp(n).sockets[i] \in Sockets
      BY HostOpFacts
    <3> QED
      BY <1>1, <1>2, <3>1, <3>2, FlushOpenKept
  <2>2. CASE /\ \A i \in DOMAIN HostOp(n).sockets : HostOp(n).sockets[i] \in opened[n]
             /\ Commit(n, "subroutine", HostOp(n).arg)
             /\ NextOp(n)
             /\ UNCHANGED opened
    BY <1>1, <1>2, <2>2, FlushSubroutineKept
  <2> QED
    BY <1>2, <2>1, <2>2 DEF Flush
<1>3. CASE ~Flush(n)
  BY <1>1, <1>3, EnterKept, ExitKept, HostSetupDoneKept, ReceiveResultKept, SteadyHostKept
     DEF HostNext
<1> QED
  BY <1>2, <1>3

-----------------------------------------------------------------------------
(* The messages between the hosts.                                           *)

LEMMA FirstApart ==
    ASSUME NEW S, NEW b \in Seq(S), NEW c \in Seq(S), b # <<>>
    PROVE  <<Head(b)>> \o (Tail(b) \o c) = b \o c
<1>1. Head(b) \in S /\ Tail(b) \in Seq(S) /\ <<Head(b)>> \in Seq(S)
  BY HeadTailProperties
<1>2. b = <<Head(b)>> \o Tail(b)
  OBVIOUS
<1>3. (<<Head(b)>> \o Tail(b)) \o c = <<Head(b)>> \o (Tail(b) \o c)
  BY <1>1, ConcatAssociative
<1> QED
  BY <1>2, <1>3, Zenon

LEMMA MovedFirst ==
    ASSUME NEW S, NEW a \in Seq(S), NEW b \in Seq(S), NEW c \in Seq(S), b # <<>>
    PROVE  Append(a, Head(b)) \o (Tail(b) \o c) = a \o (b \o c)
<1>1. Head(b) \in S /\ Tail(b) \in Seq(S) /\ <<Head(b)>> \in Seq(S)
  BY HeadTailProperties
<1>2. <<Head(b)>> \o (Tail(b) \o c) = b \o c
  BY FirstApart
<1>3. Append(a, Head(b)) = a \o <<Head(b)>>
  BY <1>1, AppendIsConcat
<1>4. (a \o <<Head(b)>>) \o (Tail(b) \o c) = a \o (<<Head(b)>> \o (Tail(b) \o c))
  BY <1>1, ConcatAssociative, ConcatProperties
<1> QED
  BY <1>2, <1>3, <1>4, Zenon

LEMMA AppendedLast ==
    ASSUME NEW S, NEW a \in Seq(S), NEW b \in Seq(S), NEW c \in Seq(S), NEW x \in S
    PROVE  a \o (b \o Append(c, x)) = Append(a \o (b \o c), x)
<1>1. b \o Append(c, x) = Append(b \o c, x) /\ b \o c \in Seq(S)
  BY AppendLast, ConcatProperties
<1>2. a \o Append(b \o c, x) = Append(a \o (b \o c), x)
  BY <1>1, AppendLast
<1> QED
  BY <1>1, <1>2, Zenon

LEMMA CountedAppend ==
    ASSUME NEW k \in Nat, NEW r
    PROVE  Append([i \in 1 .. k |-> <<r, i>>], <<r, k + 1>>) = [i \in 1 .. k + 1 |-> <<r, i>>]
<1> DEFINE s == [i \in 1 .. k |-> <<r, i>>]
           t == [i \in 1 .. k + 1 |-> <<r, i>>]
           x == <<r, k + 1>>
           S == {r} \X Nat
<1>1. s \in Seq(S) /\ Len(s) = k /\ x \in S
  OBVIOUS
<1>2. t \in Seq(S) /\ Len(t) = k + 1
  OBVIOUS
<1>3. \A i \in 1 .. k : s[i] = t[i]
  OBVIOUS
<1>4. t[k + 1] = x
  OBVIOUS
<1> HIDE DEF s, t, x, S
<1>5. /\ Append(s, x) \in Seq(S) /\ Len(Append(s, x)) = k + 1
      /\ \A i \in 1 .. k : Append(s, x)[i] = s[i]
      /\ Append(s, x)[k + 1] = x
  BY <1>1
<1>6. \A i \in 1 .. k + 1 : Append(s, x)[i] = t[i]
  <2>1. \A i \in 1 .. k + 1 : i \in 1 .. k \/ i = k + 1
    OBVIOUS
  <2> QED
    BY <1>3, <1>4, <1>5, <2>1
<1>7. Append(s, x) = t
  BY <1>2, <1>5, <1>6, SeqEqual
<1> QED
  BY <1>7 DEF s, t, x

(* Messages are sent under their numbers.                                    *)
LEMMA SentNumber ==
    ASSUME Types, NEW n \in Nodes, HostOp(n).kind = "send"
    PROVE  HostOp(n).arg = Done(n, "send") + 1
<1> DEFINE code == program.code[n]
           i == pc[n]
<1>1. i \in DOMAIN code /\ HostOp(n) = code[i] /\ DOMAIN code = 1 .. Len(code) /\ Len(code) \in Nat
  BY HostOpFacts, CodeFacts
<1>2. code[i].arg = Cardinality({j \in 1 .. i : code[j].kind = "send"})
  BY <1>1, CodeFacts DEF Numbered
<1>3. {j \in 1 .. i : code[j].kind = "send"} = Before(n, "send") \cup {i}
  BY <1>1 DEF Before, OpsOf
<1>4. i \notin Before(n, "send") /\ IsFiniteSet(Before(n, "send"))
  BY <1>1, CodeFacts DEF Before
<1>5. Cardinality(Before(n, "send") \cup {i}) = Cardinality(Before(n, "send")) + 1
  <2> HIDE DEF i
  <2> QED
    BY <1>4, FS_AddElement
<1> HIDE DEF code, i
<1> QED
  BY <1>1, <1>2, <1>3, <1>5, Zenon DEF Done

LEMMA HostStates ==
    /\ \A a \in {<<"run", "">>, <<"receive", "result">>} :
          a[2] # "peer" /\ a # <<"setup", "">> /\ a # <<"ended", "">> /\ a # <<"off", "">>
    /\ LET a == <<"receive", "peer">>
       IN  a # <<"setup", "">> /\ a # <<"ended", "">> /\ a # <<"off", "">>
    /\ LET a == <<"setup", "">>
       IN  a[2] # "peer" /\ a # <<"ended", "">> /\ a # <<"off", "">>
    /\ LET a == <<"ended", "">>
       IN  a[2] # "peer" /\ a # <<"setup", "">> /\ a # <<"off", "">>
<1>1. /\ \A k : <<k, "">>[1] = k /\ <<k, "">>[2] = ""
      /\ \A k : <<"receive", k>>[1] = "receive" /\ <<"receive", k>>[2] = k
      /\ "" # "peer" /\ "result" # "peer" /\ "run" # "setup" /\ "run" # "ended" /\ "run" # "off"
      /\ "receive" # "setup" /\ "receive" # "ended" /\ "receive" # "off"
      /\ "setup" # "ended" /\ "setup" # "off" /\ "ended" # "off"
  OBVIOUS
<1> QED
  BY <1>1

LEMMA HostPlaced ==
    ASSUME Types, NEW n \in Nodes, HostNext(n), Placed(n)
    PROVE  Placed(n)' /\ (~SendClassical(n) => Done(n, "send")' = Done(n, "send"))
<1> DEFINE a == at'[Host(n)]
<1>0. program' = program
  BY HostFrame
<1>1. /\ Host(n) \in DOMAIN at /\ n \in DOMAIN got /\ n \in DOMAIN pc
      /\ got[n] \in Seq(Nat \X Nat) /\ Done(n, "recv") \in Nat /\ pc[n] \in Nat
  BY ReaderFacts, CodeFacts DEF Types
<1>2. NextOp(n) => pc'[n] > 0
  BY <1>1 DEF NextOp
<1>3. ASSUME HostOp(n).kind # "none", HostOp(n).kind # "recv", NextOp(n), got' = got,
             \/ at' = at /\ at[Host(n)] = <<"run", "">>
             \/ at' = [at EXCEPT ![Host(n)] = <<"run", "">>]
             \/ at' = [at EXCEPT ![Host(n)] = <<"receive", "result">>]
      PROVE  Placed(n)' /\ (HostOp(n).kind # "send" => Done(n, "send")' = Done(n, "send"))
  <2>1. a = <<"run", "">> \/ a = <<"receive", "result">>
    BY <1>1, <1>3
  <2>2. /\ a[2] # "peer" /\ a # <<"setup", "">> /\ a # <<"ended", "">> /\ a # <<"off", "">>
    <3> HIDE DEF a
    <3> QED
      BY <2>1, HostStates, Zenon
  <2>3. /\ Done(n, "recv")' = Done(n, "recv") /\ pc'[n] > 0
        /\ HostOp(n).kind # "send" => Done(n, "send")' = Done(n, "send")
    <3>1. \A kind : HostOp(n).kind # kind => Done(n, kind)' = Done(n, kind)
      BY <1>0, <1>3, DoneNext
    <3>2. pc'[n] > 0
      BY <1>2, <1>3
    <3> QED
      BY <1>3, <3>1, <3>2
  <2> QED
    BY <1>3, <2>2, <2>3 DEF Placed
<1>4. ASSUME pc'[n] = pc[n], got' = got,
             \/ at' = [at EXCEPT ![Host(n)] = <<"setup", "">>] /\ HostOp(n).kind = "setup"
             \/ at' = [at EXCEPT ![Host(n)] = <<"ended", "">>] /\ HostOp(n).kind = "none"
             \/ at' = [at EXCEPT ![Host(n)] = <<"receive", "peer">>] /\ HostOp(n).kind = "recv"
             \/ at' = [at EXCEPT ![Host(n)] = <<"receive", "result">>]
             \/ at' = [at EXCEPT ![Host(n)] = <<"run", "">>]
      PROVE  Placed(n)' /\ Done(n, "send")' = Done(n, "send")
  <2>1. \/ a = <<"setup", "">> /\ HostOp(n).kind = "setup"
        \/ a = <<"ended", "">> /\ HostOp(n).kind = "none"
        \/ a = <<"receive", "peer">> /\ HostOp(n).kind = "recv"
        \/ a = <<"receive", "result">>
        \/ a = <<"run", "">>
    BY <1>1, <1>4
  <2>2. /\ a[2] = "peer" => HostOp(n).kind = "recv"
        /\ a = <<"setup", "">> => HostOp(n).kind = "setup"
        /\ a = <<"ended", "">> => HostOp(n).kind = "none"
        /\ a # <<"off", "">>
    <3> HIDE DEF a
    <3> QED
      BY <2>1, HostStates, Zenon
  <2>3. HostOp(n)' = HostOp(n) /\ \A kind : Done(n, kind)' = Done(n, kind)
    BY <1>0, <1>4, DoneSame
  <2> QED
    BY <1>4, <2>2, <2>3 DEF Placed
<1>5. CASE Enter(n) \/ Exit(n)
  BY <1>3, <1>5 DEF Enter, Exit, HostRuns
<1>6. CASE SendClassical(n)
  BY <1>3, <1>6 DEF SendClassical, HostRuns
<1>7. CASE Flush(n)
  BY <1>3, <1>4, <1>7 DEF Flush, HostRuns
<1>8. CASE HostSetup(n) \/ RecvClassical(n) \/ Return(n)
  BY <1>4, <1>8 DEF HostSetup, RecvClassical, Return, HostRuns, hostvars
<1>9. CASE ReceiveResult(n)
  BY <1>4, <1>9 DEF ReceiveResult, hostvars
<1>10. CASE HostSetupDone(n)
  <2>1. /\ at[Host(n)] = <<"setup", "">> /\ NextOp(n) /\ got' = got
        /\ at' = [at EXCEPT ![Host(n)] = <<"run", "">>]
    BY <1>10 DEF HostSetupDone, Polls
  <2>2. HostOp(n).kind = "setup"
    BY <2>1 DEF Placed
  <2> QED
    BY <1>3, <2>1, <2>2
<1>11. CASE GotClassical(n)
  <2>1. at[Host(n)][2] = "peer"
    <3>1. at[Host(n)] \in {<<"receive", <<n, "peer">>[2]>>, <<"woken", <<n, "peer">>[2]>>}
      BY <1>11 DEF GotClassical, Pops
    <3>2. <<n, "peer">>[2] = "peer" /\ \A k : <<k, "peer">>[2] = "peer"
      OBVIOUS
    <3> QED
      BY <3>1, <3>2, Zenon
  <2>2. HostOp(n).kind = "recv" /\ NextOp(n)
    BY <1>11, <2>1 DEF Placed, GotClassical
  <2>3. Done(n, "recv")' = Done(n, "recv") + 1 /\ Done(n, "send")' = Done(n, "send") /\ pc'[n] > 0
    <3>1. HostOp(n).kind # "none"
      BY <2>2
    <3>2. /\ \A kind : HostOp(n).kind # kind => Done(n, kind)' = Done(n, kind)
          /\ \A kind : HostOp(n).kind = kind => Done(n, kind)' = Done(n, kind) + 1
      BY <1>0, <2>2, <3>1, DoneNext
    <3>3. pc'[n] > 0
      BY <1>1, <2>2 DEF NextOp
    <3>4. HostOp(n).kind # "send"
      BY <2>2
    <3> QED
      BY <2>2, <3>2, <3>3, <3>4
  <2>4. a = <<"run", "">>
    BY <1>1, <1>11 DEF GotClassical
  <2>5. Len(got'[n]) = Len(got[n]) + 1
    <3>1. Head(buffer[<<n, "peer">>]) \in Nat \X Nat
      <4>1. buffer[<<n, "peer">>] \in Seq(Nat \X Nat) /\ buffer[<<n, "peer">>] # <<>>
        BY <1>11, QueueTypes DEF GotClassical, Pops
      <4> QED
        BY <4>1, HeadTailProperties
    <3>2. got'[n] = Append(got[n], Head(buffer[<<n, "peer">>]))
      BY <1>1, <1>11 DEF GotClassical
    <3> QED
      BY <1>1, <3>1, <3>2
  <2>6. /\ a[2] # "peer" /\ a # <<"setup", "">> /\ a # <<"ended", "">> /\ a # <<"off", "">>
    <3> HIDE DEF a
    <3> QED
      BY <2>4, HostStates, Zenon
  <2> QED
    BY <2>3, <2>5, <2>6 DEF Placed
<1> QED
  BY <1>5, <1>6, <1>7, <1>8, <1>9, <1>10, <1>11 DEF HostNext

LEMMA HostTold ==
    ASSUME Types, NEW n \in Nodes, HostNext(n), \A m \in Nodes : Told(m), NEW m \in Nodes
    PROVE  Told(m)'
<1>0. /\ Peer[m] \in Nodes /\ Peer[n] \in Nodes /\ (Peer[m] = n <=> m = Peer[n])
      /\ program' = program /\ round' = round /\ (Balanced' <=> Balanced)
  <2>1. program' = program /\ round' = round
    BY HostFrame
  <2> QED
    BY <2>1, SingleThreadAssumption DEF Balanced, OpsOf
<1>1. Placed(m)'
  <2>1. CASE m = n
    BY <2>1, HostPlaced DEF Told
  <2>2. CASE m # n
    <3>1. at'[Host(m)] = at[Host(m)] /\ pc'[m] = pc[m] /\ got'[m] = got[m]
      BY <2>2, HostFrame
    <3>2. HostOp(m)' = HostOp(m) /\ Done(m, "recv")' = Done(m, "recv")
      BY <1>0, <3>1, DoneSame
    <3> QED
      BY <3>1, <3>2 DEF Told, Placed
  <2> QED
    BY <2>1, <2>2
<1>2. \A x \in Nodes : (x = n => ~SendClassical(n)) => Done(x, "send")' = Done(x, "send")
  <2>1. ASSUME NEW x \in Nodes, x # n
        PROVE  Done(x, "send")' = Done(x, "send")
    <3>1. pc'[x] = pc[x]
      BY <2>1, HostFrame
    <3> QED
      BY <1>0, <3>1, DoneSame
  <2>2. ~SendClassical(n) => Done(n, "send")' = Done(n, "send")
    BY HostPlaced DEF Told
  <2> QED
    BY <2>1, <2>2
<1> DEFINE l == <<m, "peer">>
<1>3. /\ buffer[l] \in Seq(Nat \X Nat) /\ wire[l] \in Seq(Nat \X Nat) /\ got[m] \in Seq(Nat \X Nat)
      /\ l \in DOMAIN wire /\ l \in DOMAIN buffer /\ round \in Nat
      /\ Done(Peer[m], "send") \in Nat
  BY <1>0, QueueTypes, ReaderFacts, CodeFacts DEF Types, ChannelTypes
<1>4. Balanced => got[m] \o (buffer[l] \o wire[l]) = [i \in 1 .. Done(Peer[m], "send") |-> <<round, i>>]
  BY DEF Told, Delivered, Unread
<1>5. CASE SendClassical(n) /\ m = Peer[n]
  <2> DEFINE x == <<round, HostOp(n).arg>>
             k == Done(n, "send")
  <2>1. /\ HostOp(n).kind = "send" /\ HostOp(n).arg = k + 1 /\ NextOp(n) /\ got' = got
        /\ Sent(<<Peer[n], "peer">>, x)
    BY <1>5, SentNumber DEF SendClassical, HostRuns
  <2>2. wire'[l] = Append(wire[l], x) /\ buffer' = buffer
    BY <1>3, <1>5, <2>1 DEF Sent
  <2>3. Done(n, "send")' = k + 1
    <3>1. HostOp(n).kind # "none"
      BY <2>1
    <3> QED
      BY <1>0, <2>1, <3>1, DoneNext
  <2>4. x \in Nat \X Nat /\ x = <<round, k + 1>>
    BY <1>3, <2>1, HostOpFacts
  <2>5. k \in Nat
    BY CodeFacts
  <2>6. Peer[m] = n
    BY <1>0, <1>5
  <2> DEFINE b == buffer[l]
             w == wire[l]
             g == got[m]
  <2>7. b \in Seq(Nat \X Nat) /\ w \in Seq(Nat \X Nat) /\ g \in Seq(Nat \X Nat)
    BY <1>3
  <2>8. (got[m] \o Unread(m))' = g \o (b \o Append(w, x))
    BY <2>1, <2>2 DEF Unread
  <2>9. Balanced => g \o (b \o w) = [i \in 1 .. k |-> <<round, i>>]
    BY <1>4, <2>6
  <2> HIDE DEF x, k, b, w, g, l
  <2>10. g \o (b \o Append(w, x)) = Append(g \o (b \o w), x)
    <3> DEFINE S == Nat \X Nat
    <3>1. b \in Seq(S) /\ w \in Seq(S) /\ g \in Seq(S) /\ x \in S
      BY <2>4, <2>7
    <3> HIDE DEF S
    <3> QED
      BY <3>1, AppendedLast, SMTT(30)
  <2>11. Balanced => g \o (b \o Append(w, x)) = [i \in 1 .. k + 1 |-> <<round, i>>]
    BY <2>4, <2>5, <2>9, <2>10, CountedAppend
  <2>12. Delivered(m)'
    BY <1>0, <2>3, <2>6, <2>8, <2>11 DEF Delivered
  <2> QED
    BY <1>1, <2>12 DEF Told
<1>6. CASE GotClassical(n) /\ m = n
  <2>1. /\ buffer[l] # <<>> /\ got'[m] = Append(got[m], Head(buffer[l])) /\ Popped(l)
    BY <1>6 DEF GotClassical, Pops, Types
  <2>2. buffer'[l] = Tail(buffer[l]) /\ wire' = wire
    BY <1>3, <2>1 DEF Popped
  <2>3. Done(Peer[m], "send")' = Done(Peer[m], "send")
    <3>1. ~SendClassical(n)
      <4>1. <<"run", "">> # <<"receive", "peer">> /\ <<"run", "">> # <<"woken", "peer">>
            /\ <<n, "peer">>[2] = "peer"
        <5>1. <<"run", "">>[2] = "" /\ \A k : <<k, "peer">>[2] = "peer"
          OBVIOUS
        <5> QED
          BY <5>1
      <4> QED
        BY <1>6, <4>1 DEF GotClassical, SendClassical, HostRuns, Pops
    <3> QED
      BY <1>0, <1>2, <3>1
  <2>4. (got[m] \o Unread(m))' = Append(got[m], Head(buffer[l])) \o (Tail(buffer[l]) \o wire[l])
    BY <2>1, <2>2 DEF Unread
  <2>5. (got[m] \o Unread(m))' = got[m] \o (buffer[l] \o wire[l])
    <3> DEFINE b == buffer[l]
               w == wire[l]
               g == got[m]
               S == Nat \X Nat
    <3>1. b \in Seq(S) /\ w \in Seq(S) /\ g \in Seq(S) /\ b # <<>>
      BY <1>3, <2>1
    <3> HIDE DEF b, w, g, S
    <3>2. Append(g, Head(b)) \o (Tail(b) \o w) = g \o (b \o w)
      BY <3>1, MovedFirst, SMTT(30)
    <3> QED
      BY <2>4, <3>2, Zenon DEF b, w, g
  <2>6. Delivered(m)'
    BY <1>0, <1>4, <2>3, <2>5 DEF Delivered
  <2> QED
    BY <1>1, <2>6 DEF Told
<1>7. CASE ~(SendClassical(n) /\ m = Peer[n]) /\ ~(GotClassical(n) /\ m = n)
  <2>1. Done(Peer[m], "send")' = Done(Peer[m], "send")
    BY <1>0, <1>2, <1>7
  <2>2. got'[m] = got[m] /\ buffer'[l] = buffer[l]
    <3>1. CASE m # n
      BY <3>1, HostFrame
    <3>2. CASE m = n
      <4>1. ~GotClassical(n)
        BY <1>7, <3>2
      <4>2. /\ got' = got
            /\ buffer' = buffer \/ \E x : buffer' = [buffer EXCEPT ![<<n, "result">>] = x]
        BY <4>1 DEF HostNext, Enter, HostSetup, HostSetupDone, Flush, ReceiveResult, SendClassical,
           RecvClassical, Exit, Return, hostvars, channels, Commit, Sent, Popped
      <4>3. l # <<n, "result">>
        OBVIOUS
      <4> QED
        BY <1>3, <4>2, <4>3
    <3> QED
      BY <3>1, <3>2
  <2>3. wire'[l] = wire[l]
    <3>1. CASE ~SendClassical(n)
      BY <3>1, HostFrame
    <3>2. CASE SendClassical(n)
      <4>1. \E x : wire' = [wire EXCEPT ![<<Peer[n], "peer">>] = x]
        BY <3>2 DEF SendClassical, Sent
      <4>2. l # <<Peer[n], "peer">>
        BY <1>7, <3>2
      <4> QED
        BY <1>3, <4>1, <4>2
    <3> QED
      BY <3>1, <3>2
  <2>4. (got[m] \o Unread(m))' = got[m] \o (buffer[l] \o wire[l])
    BY <2>2, <2>3 DEF Unread
  <2>5. Delivered(m)'
    BY <1>0, <1>4, <2>1, <2>4 DEF Delivered
  <2> QED
    BY <1>1, <2>5 DEF Told
<1> QED
  BY <1>5, <1>6, <1>7

-----------------------------------------------------------------------------
(* A step of a QNodeOS.                                                      *)

LEMMA QnosFrame ==
    ASSUME Types, NEW n \in Nodes, QnosNext(n)
    PROVE  /\ main = "run" /\ UNCHANGED <<program, main, round, pc, opened, got, port>>
           /\ circuits \subseteq circuits' /\ \A c \in circuits' : c \in circuits \/ c[3] = round
           /\ \A m \in Nodes :
                 /\ at'[Host(m)] = at[Host(m)]
                 /\ wire'[<<m, "host">>] = wire[<<m, "host">>]
                 /\ buffer'[<<m, "result">>] = buffer[<<m, "result">>]
                 /\ buffer'[<<m, "peer">>] = buffer[<<m, "peer">>]
                 /\ wire'[<<m, "peer">>] = wire[<<m, "peer">>]
           /\ \A m \in Nodes \ {n} :
                 /\ at'[QNodeOs(m)] = at[QNodeOs(m)] /\ current'[m] = current[m]
                 /\ handled'[m] = handled[m]
                 /\ buffer'[<<m, "host">>] = buffer[<<m, "host">>]
                 /\ wire'[<<m, "result">>] = wire[<<m, "result">>]
           /\ \A l \in on : l # <<n, "host">> \/ ~HandleStop(n) => l \in on'
<1>1. main = "run" /\ UNCHANGED <<program, main, round, pc, opened, got, port>>
  BY DEF QnosNext, ReceiveMsg, HandleInit, HandleOpen, SetupDone, ExecuteSubroutine,
         FinishSubroutine, HandleStop, QnosRuns, Pops, Polls, Turn, Running, mainvars, hostvars,
         channels, Answer, Sent, Popped
<1>2. /\ circuits' = circuits \/ circuits' = circuits \cup {<<n, current[n].arg, round>>}
      /\ \E a : at' = [at EXCEPT ![QNodeOs(n)] = a]
      /\ current' = current \/ \E a : current' = [current EXCEPT ![n] = a]
      /\ handled' = handled \/ \E a : handled' = [handled EXCEPT ![n] = a]
      /\ buffer' = buffer \/ \E a : buffer' = [buffer EXCEPT ![<<n, "host">>] = a]
      /\ wire' = wire \/ \E a : wire' = [wire EXCEPT ![<<n, "result">>] = a]
      /\ on' = on \/ (HandleStop(n) /\ on' = on \ {<<n, "host">>})
  BY DEF QnosNext, ReceiveMsg, HandleInit, HandleOpen, SetupDone, ExecuteSubroutine,
         FinishSubroutine, HandleStop, Loop, qnosvars, channels, Answer, Handled, Sent, Popped
<1>3. circuits \subseteq circuits' /\ \A c \in circuits' : c \in circuits \/ c[3] = round
  BY <1>2
<1>4. \A m \in Nodes : /\ Host(m) \in DOMAIN at /\ QNodeOs(m) \in DOMAIN at /\ Host(m) # QNodeOs(n)
                       /\ m # n => QNodeOs(m) # QNodeOs(n)
                       /\ m \in DOMAIN current /\ m \in DOMAIN handled
                       /\ \A k \in {"host", "result", "peer"} :
                             <<m, k>> \in DOMAIN wire /\ <<m, k>> \in DOMAIN buffer
  BY ReaderFacts DEF Types, ChannelTypes, Host, QNodeOs
<1>5. /\ \A q \in DOMAIN at : q # QNodeOs(n) => at'[q] = at[q]
      /\ \A m \in DOMAIN current : m # n => current'[m] = current[m]
      /\ \A m \in DOMAIN handled : m # n => handled'[m] = handled[m]
      /\ \A l \in DOMAIN buffer : l # <<n, "host">> => buffer'[l] = buffer[l]
      /\ \A l \in DOMAIN wire : l # <<n, "result">> => wire'[l] = wire[l]
  BY <1>2
<1>6. \A m \in Nodes :
         /\ at'[Host(m)] = at[Host(m)]
         /\ wire'[<<m, "host">>] = wire[<<m, "host">>]
         /\ buffer'[<<m, "result">>] = buffer[<<m, "result">>]
         /\ buffer'[<<m, "peer">>] = buffer[<<m, "peer">>]
         /\ wire'[<<m, "peer">>] = wire[<<m, "peer">>]
  BY <1>4, <1>5
<1>7. \A m \in Nodes \ {n} :
         /\ at'[QNodeOs(m)] = at[QNodeOs(m)] /\ current'[m] = current[m]
         /\ handled'[m] = handled[m]
         /\ buffer'[<<m, "host">>] = buffer[<<m, "host">>]
         /\ wire'[<<m, "result">>] = wire[<<m, "result">>]
  BY <1>4, <1>5
<1> QED
  BY <1>1, <1>2, <1>3, <1>6, <1>7

LEMMA QnosTold ==
    ASSUME Types, NEW n \in Nodes, QnosNext(n), NEW m \in Nodes, Told(m)
    PROVE  Told(m)'
<1>1. /\ program' = program /\ round' = round /\ pc'[m] = pc[m] /\ got'[m] = got[m]
      /\ at'[Host(m)] = at[Host(m)] /\ pc' = pc
  BY QnosFrame
<1>2. Unread(m)' = Unread(m)
  BY QnosFrame DEF Unread
<1>3. Done(Peer[m], "send")' = Done(Peer[m], "send")
  BY <1>1 DEF Done, Before, OpsOf
<1> QED
  BY <1>1, <1>2, <1>3, ToldSame

(* What it does not change of its own host, and of the other nodes.          *)
LEMMA QnosHosts ==
    ASSUME Types, NEW n \in Nodes, QnosNext(n), NEW m \in Nodes
    PROVE  /\ program' = program /\ round' = round /\ opened'[m] = opened[m]
           /\ \A kind : Done(m, kind)' = Done(m, kind) /\ Before(m, kind)' = Before(m, kind)
           /\ Asked(m)' = Asked(m) /\ Asks(m)' = Asks(m)
           /\ \A s : Ready(s) => Ready(s)'
           /\ wire'[<<m, "result">>] = wire[<<m, "result">>] => Answers(m)' = Answers(m)
<1>1. /\ program' = program /\ round' = round /\ pc'[m] = pc[m] /\ opened'[m] = opened[m]
      /\ at'[Host(m)] = at[Host(m)] /\ circuits \subseteq circuits'
      /\ buffer'[<<m, "result">>] = buffer[<<m, "result">>]
  BY QnosFrame
<1>2. \A kind : Done(m, kind)' = Done(m, kind) /\ Before(m, kind)' = Before(m, kind)
  BY <1>1, DoneSame
<1>3. Asked(m)' = Asked(m) /\ Asks(m)' = Asks(m)
  BY <1>1, <1>2 DEF Asked, Asks
<1>4. \A s : Ready(s) => Ready(s)'
  BY <1>1 DEF Ready
<1> QED
  BY <1>1, <1>2, <1>3, <1>4 DEF Answers

LEMMA QnosElsewhere ==
    ASSUME Types, NEW n \in Nodes, QnosNext(n), NEW m \in Nodes \ {n},
           Served(m), Handles(m), Usable(m)
    PROVE  Served(m)' /\ Handles(m)' /\ Usable(m)'
<1>1. /\ at'[QNodeOs(m)] = at[QNodeOs(m)] /\ current'[m] = current[m] /\ handled'[m] = handled[m]
      /\ buffer'[<<m, "host">>] = buffer[<<m, "host">>] /\ wire'[<<m, "host">>] = wire[<<m, "host">>]
      /\ wire'[<<m, "result">>] = wire[<<m, "result">>]
      /\ circuits \subseteq circuits'
  BY QnosFrame
<1>2. Work(m)' = Work(m) /\ (Off(m)' <=> Off(m))
  BY <1>1 DEF Work, Off
<1>3. \A k : <<m, k>> \in on => <<m, k>> \in on'
  BY QnosFrame
<1>4. /\ program' = program /\ round' = round /\ opened'[m] = opened[m]
      /\ \A kind : Done(m, kind)' = Done(m, kind) /\ Before(m, kind)' = Before(m, kind)
      /\ (Asks(m)' <=> Asks(m)) /\ Answers(m)' = Answers(m)
  BY <1>1, QnosHosts
<1>5. Served(m)'
  BY <1>1, <1>2, <1>4, ServedSame
<1>6. Handles(m)'
  BY <1>1, <1>3, <1>4, HandlesSame
<1>7. Usable(m)'
  BY <1>1, <1>2, <1>4, UsableSame
<1> QED
  BY <1>5, <1>6, <1>7

(* The message that a QNodeOS handles is the first of its work.              *)
LEMMA WorkFacts ==
    ASSUME Types, NEW n \in Nodes
    PROVE  LET rest == buffer[<<n, "host">>] \o wire[<<n, "host">>]
           IN  /\ at[QNodeOs(n)] \in Handling =>
                     /\ Work(n) # <<>> /\ Work(n)[1] = current[n] /\ Tail(Work(n)) = rest
               /\ at[QNodeOs(n)] \notin Handling => Work(n) = rest
               /\ \A k \in Waiting : <<k, "host">> \notin Handling /\ <<k, "host">> # <<"off", "">>
               /\ <<"off", "">> \notin Handling
               /\ \A k \in {"init", "open", "subroutine", "stop", "setup", "executing"} :
                     <<k, "">> \in Handling
<1> DEFINE rest == buffer[<<n, "host">>] \o wire[<<n, "host">>]
           S == Commands \cup {Nothing}
<1>1. rest \in Seq(S) /\ current[n] \in S
  <2>1. buffer[<<n, "host">>] \in Seq(Commands) /\ wire[<<n, "host">>] \in Seq(Commands)
    BY QueueTypes
  <2>2. rest \in Seq(Commands)
    BY <2>1, ConcatProperties
  <2> HIDE DEF rest
  <2> QED
    BY <2>2 DEF Types
<1>2. \A k \in Waiting : <<k, "host">> \notin Handling /\ <<k, "host">> # <<"off", "">>
  <2>1. \A k : <<k, "host">>[2] = "host" /\ <<k, "">>[2] = ""
    OBVIOUS
  <2>2. \A a \in Handling : a[2] = ""
    BY DEF Handling
  <2> QED
    BY <2>1, <2>2
<1>3. <<"off", "">> \notin Handling
  BY DEF Handling
<1>8. \A k \in {"init", "open", "subroutine", "stop", "setup", "executing"} : <<k, "">> \in Handling
  BY DEF Handling
<1>4. at[QNodeOs(n)] \in Handling => Work(n) = <<current[n]>> \o rest
  BY DEF Work
<1>5. at[QNodeOs(n)] \notin Handling => Work(n) = <<>> \o rest
  BY DEF Work
<1> HIDE DEF rest, S
<1>6. <<>> \o rest = rest
  BY <1>1
<1>7. LET w == <<current[n]>> \o rest
      IN  w # <<>> /\ w[1] = current[n] /\ Tail(w) = rest
  BY <1>1
<1> QED
  BY <1>2, <1>3, <1>4, <1>5, <1>6, <1>7, <1>8 DEF rest

(* What is said of the QNodeOS's work holds again after a step that leaves   *)
(* its work, or takes the first of it.                                       *)
LEMMA QnosUsable ==
    ASSUME Types, NEW n \in Nodes, QnosNext(n), Usable(n),
           \/ Work(n)' = Work(n)
           \/ Work(n) # <<>> /\ Work(n)' = Tail(Work(n)) /\ Tail(Work(n)) # <<>>
           \/ Work(n)' = <<>> /\ \A s \in opened[n] : Ready(s)
    PROVE  Usable(n)'
<1>1. /\ program' = program /\ opened'[n] = opened[n] /\ Before(n, "setup")' = Before(n, "setup")
      /\ Asks(n)' = Asks(n) /\ \A s : Ready(s) => Ready(s)'
  BY QnosHosts
<1>2. Pending(n)' => Pending(n) /\ Final(Work(n)') = Final(Work(n))
  <2>1. CASE Work(n)' = Work(n)
    BY <1>1, <2>1 DEF Pending
  <2>2. CASE Work(n) # <<>> /\ Work(n)' = Tail(Work(n)) /\ Tail(Work(n)) # <<>>
    <3>1. Work(n) \in Seq(Commands \cup {Nothing})
      BY QueueTypes
    <3>2. Final(Tail(Work(n))) = Final(Work(n))
      BY <2>2, <3>1, TakenWork
    <3> QED
      BY <1>1, <2>2, <3>2 DEF Pending
  <2>3. CASE Work(n)' = <<>>
    BY <2>3 DEF Pending
  <2> QED
    BY <2>1, <2>2, <2>3
<1>3. \A s \in opened[n] : \/ Ready(s)
                           \/ Pending(n)' /\ Final(Work(n)').kind = "open" /\ Final(Work(n)').arg = s
  <2>1. CASE Work(n)' = Work(n)
    BY <1>1, <2>1 DEF Usable, Pending
  <2>2. CASE Work(n) # <<>> /\ Work(n)' = Tail(Work(n)) /\ Tail(Work(n)) # <<>>
    <3>1. Work(n) \in Seq(Commands \cup {Nothing})
      BY QueueTypes
    <3>2. Final(Tail(Work(n))) = Final(Work(n))
      BY <2>2, <3>1, TakenWork
    <3> QED
      BY <1>1, <2>2, <3>2 DEF Usable, Pending
  <2>3. CASE Work(n)' = <<>> /\ \A s \in opened[n] : Ready(s)
    BY <2>3
  <2> QED
    BY <2>1, <2>2, <2>3
<1> DEFINE m == Final(Work(n))
<1>4. Pending(n)' /\ m.kind = "subroutine" /\ Subroutines[m.arg].kind \in {"create", "recv"}
         => Ready(Subroutines[m.arg].socket)
  BY <1>2 DEF Usable
<1>5. \A i \in Before(n, "setup") : Ready(program.code[n][i].arg)
  BY DEF Usable
<1> QED
  BY <1>1, <1>2, <1>3, <1>4, <1>5 DEF Usable

LEMMA ReceiveMsgKept ==
    ASSUME Types, NEW n \in Nodes, ReceiveMsg(n), Served(n), Handles(n), Usable(n)
    PROVE  Served(n)' /\ Handles(n)' /\ Usable(n)'
<1> DEFINE l == <<n, "host">>
           b == buffer[l]
           m == Head(b)
           w == wire[l]
<1>1. /\ QnosNext(n) /\ b # <<>> /\ Popped(l) /\ current' = [current EXCEPT ![n] = m]
      /\ at' = [at EXCEPT ![QNodeOs(n)] = <<m.kind, "">>] /\ UNCHANGED handled
      /\ at[QNodeOs(n)] \in {<<"receive", "host">>, <<"woken", "host">>}
  <2>1. <<n, "host">>[2] = "host"
    OBVIOUS
  <2> QED
    BY <2>1 DEF ReceiveMsg, QnosNext, Pops
<1>2. /\ m \in Commands /\ b \in Seq(Commands) /\ w \in Seq(Commands)
  <2>1. b \in Seq(Commands) /\ w \in Seq(Commands)
    BY QueueTypes
  <2> HIDE DEF b, w
  <2>2. Head(b) \in Commands
    BY <1>1, <2>1, HeadTailProperties
  <2> QED
    BY <2>1, <2>2 DEF b
<1>3. /\ current'[n] = m /\ at'[QNodeOs(n)] = <<m.kind, "">> /\ handled'[n] = handled[n]
      /\ buffer'[l] = Tail(b) /\ wire' = wire /\ on' = on
  BY <1>1, ReaderFacts DEF Types, ChannelTypes, Popped
<1>4. /\ m.kind \in {"init", "open", "subroutine", "stop"}
      /\ at'[QNodeOs(n)] \in Handling /\ at[QNodeOs(n)] \notin Handling
      /\ Off(n) = FALSE /\ Off(n)' = FALSE
  <2>1. m.kind \in {"init", "open", "subroutine", "stop"}
    BY <1>2 DEF Commands
  <2>2. at'[QNodeOs(n)] \in Handling
    BY <1>3, <2>1, WorkFacts
  <2>3. at[QNodeOs(n)] \notin Handling /\ ~Off(n)
    BY <1>1, WorkFacts DEF Waiting, Off
  <2>4. ~Off(n)'
    BY <2>2, WorkFacts DEF Off
  <2> QED
    BY <2>1, <2>2, <2>3, <2>4 DEF Off
<1>5. Work(n)' = Work(n)
  <2>1. Work(n)' = <<m>> \o (Tail(b) \o w)
    BY <1>3, <1>4 DEF Work
  <2>2. Work(n) = b \o w
    BY <1>4, WorkFacts
  <2>3. <<m>> \o (Tail(b) \o w) = b \o w
    <3> HIDE DEF l, w, b
    <3> QED
      BY <1>1, <1>2, FirstApart
  <2> QED
    BY <2>1, <2>2, <2>3
<1>6. /\ \A kind : Done(n, kind)' = Done(n, kind)
      /\ Answers(n)' = Answers(n) /\ (Asks(n)' <=> Asks(n)) /\ opened'[n] = opened[n]
  BY <1>1, <1>3, QnosHosts
<1>7. Served(n)'
  BY <1>3, <1>4, <1>5, <1>6, ServedSame
<1>8. Handles(n)'
  <2>1. \A kind \in {"init", "open", "subroutine", "stop", "setup", "executing"} :
            at'[QNodeOs(n)] = <<kind, "">> => m.kind = kind
    <3>1. \A k : <<k, "">>[1] = k
      OBVIOUS
    <3> QED
      BY <1>3, <3>1, Zenon
  <2>2. m.kind # "setup" /\ m.kind # "executing"
    BY <1>4
  <2>3. <<n, "host">> \in on /\ <<n, "result">> \in on /\ <<n, "peer">> \in on /\ IsFiniteSet(opened[n])
    BY <1>4 DEF Handles
  <2> QED
    BY <1>3, <1>6, <2>1, <2>2, <2>3 DEF Handles
<1>9. Usable(n)'
  BY <1>1, <1>5, QnosUsable
<1> QED
  BY <1>7, <1>8, <1>9

LEMMA HandleInitKept ==
    ASSUME Types, NEW n \in Nodes, HandleInit(n), Served(n), Handles(n), Usable(n)
    PROVE  Served(n)' /\ Handles(n)' /\ Usable(n)'
<1>1. /\ QnosNext(n) /\ at[QNodeOs(n)] = <<"init", "">> /\ current' = current
      /\ at' = [at EXCEPT ![QNodeOs(n)] = <<"receive", "host">>]
      /\ handled' = [handled EXCEPT ![n] = @ + 1] /\ UNCHANGED <<wire, buffer, on>>
  BY DEF HandleInit, QnosNext, QnosRuns, Loop, Handled, channels
<1>2. /\ at'[QNodeOs(n)] = <<"receive", "host">> /\ handled'[n] = handled[n] + 1
      /\ handled[n] \in Nat
  BY <1>1, ReaderFacts DEF Types
<1>3. current[n].kind = "init"
  BY <1>1 DEF Handles
<1>4. /\ at[QNodeOs(n)] \in Handling /\ at'[QNodeOs(n)] \notin Handling
      /\ ~Off(n) /\ ~Off(n)'
  <2>1. at[QNodeOs(n)] \in Handling
    BY <1>1, WorkFacts
  <2>2. at'[QNodeOs(n)] \notin Handling /\ ~Off(n)'
    BY <1>2, WorkFacts DEF Waiting, Off
  <2>3. ~Off(n)
    BY <2>1, WorkFacts DEF Off
  <2> QED
    BY <2>1, <2>2, <2>3
<1>5. Work(n) # <<>> /\ Work(n)[1] = current[n] /\ Work(n)' = Tail(Work(n))
  <2>1. /\ Work(n) # <<>> /\ Work(n)[1] = current[n]
        /\ Tail(Work(n)) = buffer[<<n, "host">>] \o wire[<<n, "host">>]
    BY <1>4, WorkFacts
  <2>2. Work(n)' = <<>> \o (buffer[<<n, "host">>] \o wire[<<n, "host">>])
    BY <1>1, <1>4 DEF Work
  <2>3. <<>> \o (buffer[<<n, "host">>] \o wire[<<n, "host">>])
            = buffer[<<n, "host">>] \o wire[<<n, "host">>]
    <3> DEFINE r == buffer[<<n, "host">>] \o wire[<<n, "host">>]
    <3>1. r \in Seq(Commands)
      BY QueueTypes, ConcatProperties
    <3> HIDE DEF r
    <3>2. <<>> \o r = r
      BY <3>1
    <3> QED
      BY <3>2 DEF r
  <2> QED
    BY <2>1, <2>2, <2>3
<1>6. /\ Done(n, "enter")' = Done(n, "enter") /\ Done(n, "exit")' = Done(n, "exit")
      /\ Asked(n)' = Asked(n)
      /\ Answers(n)' = Answers(n) /\ Asks(n)' = Asks(n) /\ opened'[n] = opened[n]
  BY <1>1, QnosHosts
<1>7. Serve(Tail(Work(n)), Answers(n), Asks(n), Off(n),
            Done(n, "enter"), Asked(n), Done(n, "exit"), handled[n] + 1)
  <2>1. /\ Work(n) \in Seq(Commands \cup {Nothing}) /\ Asks(n) \in BOOLEAN /\ Off(n) \in BOOLEAN
        /\ Done(n, "enter") \in Nat /\ Asked(n) \in Nat /\ Done(n, "exit") \in Nat
    BY QueueTypes, AskedNat
  <2>2. Serve(Work(n), Answers(n), Asks(n), Off(n),
              Done(n, "enter"), Asked(n), Done(n, "exit"), handled[n])
    BY DEF Served
  <2> QED
    BY <1>2, <1>3, <1>5, <2>1, <2>2, ServeInit
<1>8. Served(n)'
  <2>1. Off(n)' = Off(n)
    BY <1>4 DEF Off
  <2> QED
    BY <1>2, <1>5, <1>6, <1>7, <2>1, Zenon DEF Served
<1>9. Handles(n)'
  <2>1. at'[QNodeOs(n)] \in Waiting \X {"host"}
    BY <1>2 DEF Waiting
  <2> QED
    BY <1>1, <1>4, <1>6, <2>1, HandlesSame
<1>10. Usable(n)'
  <2>1. CASE Tail(Work(n)) # <<>>
    BY <1>1, <1>5, <2>1, QnosUsable
  <2>2. CASE Tail(Work(n)) = <<>>
    <3>1. Final(Work(n)).kind = "init"
      <4>1. Work(n) \in Seq(Commands \cup {Nothing})
        BY QueueTypes
      <4>2. Len(Work(n)) = 1
        BY <1>5, <2>2, <4>1, TakenWork
      <4> QED
        BY <1>3, <1>5, <4>2 DEF Final
    <3>2. \A s \in opened[n] : Ready(s)
      BY <3>1 DEF Usable
    <3> QED
      BY <1>1, <1>5, <2>2, <3>2, QnosUsable
  <2> QED
    BY <2>1, <2>2
<1> QED
  BY <1>8, <1>9, <1>10

LEMMA SteadyQnosKept ==
    ASSUME Types, NEW n \in Nodes, HandleOpen(n) \/ ExecuteSubroutine(n),
           Served(n), Handles(n), Usable(n)
    PROVE  Served(n)' /\ Handles(n)' /\ Usable(n)'
<1>1. /\ QnosNext(n) /\ UNCHANGED <<current, handled, wire, buffer, on>>
      /\ \/ /\ at[QNodeOs(n)] = <<"open", "">>
            /\ at' = [at EXCEPT ![QNodeOs(n)] = <<"setup", "">>]
         \/ /\ at[QNodeOs(n)] \in {<<"subroutine", "">>, <<"executing", "">>}
            /\ at' = [at EXCEPT ![QNodeOs(n)] = <<"executing", "">>]
  BY DEF HandleOpen, ExecuteSubroutine, QnosNext, QnosRuns, channels, qnosvars
<1>2. \/ /\ at[QNodeOs(n)] = <<"open", "">> /\ at'[QNodeOs(n)] = <<"setup", "">>
         /\ current[n].kind = "open"
      \/ /\ at[QNodeOs(n)] \in {<<"subroutine", "">>, <<"executing", "">>}
         /\ at'[QNodeOs(n)] = <<"executing", "">>
         /\ current[n].kind = "subroutine"
  BY <1>1, ReaderFacts DEF Types, Handles
<1>3. at[QNodeOs(n)] \in Handling /\ at'[QNodeOs(n)] \in Handling /\ ~Off(n) /\ ~Off(n)'
  <2>1. at[QNodeOs(n)] \in Handling /\ at'[QNodeOs(n)] \in Handling
    BY <1>2, WorkFacts
  <2> QED
    BY <2>1, WorkFacts DEF Off
<1>4. Work(n)' = Work(n)
  BY <1>1, <1>3 DEF Work
<1>5. /\ \A kind : Done(n, kind)' = Done(n, kind)
      /\ Answers(n)' = Answers(n) /\ (Asks(n)' <=> Asks(n)) /\ opened'[n] = opened[n]
  BY <1>1, QnosHosts
<1>6. Served(n)'
  BY <1>1, <1>3, <1>4, <1>5, ServedSame
<1>7. Handles(n)'
  <2>1. \A k \in {"init", "open", "subroutine", "stop"} :
            at'[QNodeOs(n)] # <<k, "">>
    <3>1. \A k : <<k, "">>[1] = k
      OBVIOUS
    <3>2. at'[QNodeOs(n)] = <<"setup", "">> \/ at'[QNodeOs(n)] = <<"executing", "">>
      BY <1>2
    <3>3. at'[QNodeOs(n)][1] \in {"setup", "executing"}
      BY <3>1, <3>2, Zenon
    <3>4. \A k \in {"init", "open", "subroutine", "stop"} : k \notin {"setup", "executing"}
      OBVIOUS
    <3> QED
      BY <3>1, <3>3, <3>4, Zenon
  <2>2. <<"setup", "">> # <<"executing", "">>
    <3>1. \A k : <<k, "">>[1] = k
      OBVIOUS
    <3> QED
      BY <3>1
  <2> QED
    BY <1>1, <1>2, <1>3, <1>5, <2>1, <2>2 DEF Handles
<1>8. Usable(n)'
  BY <1>1, <1>4, QnosUsable
<1> QED
  BY <1>6, <1>7, <1>8

LEMMA AnswerKept ==
    ASSUME Types, NEW n \in Nodes, QnosNext(n), Answer(n), Loop(n), UNCHANGED current,
           at[QNodeOs(n)] \in Handling, current[n].kind \in Questions,
           current[n].kind = "open" => Ready(current[n].arg),
           \A k : <<n, k>> \in on => <<n, k>> \in on',
           buffer'[<<n, "host">>] = buffer[<<n, "host">>],
           Served(n), Handles(n), Usable(n)
    PROVE  Served(n)' /\ Handles(n)' /\ Usable(n)'
<1> DEFINE l == <<n, "result">>
<1>1. /\ at'[QNodeOs(n)] = <<"receive", "host">> /\ handled'[n] = handled[n] + 1
      /\ handled[n] \in Nat
      /\ buffer'[l] = buffer[l] /\ wire'[l] = Append(wire[l], current[n])
      /\ wire'[<<n, "host">>] = wire[<<n, "host">>]
  BY ReaderFacts, QnosFrame DEF Types, ChannelTypes, Loop, Answer, Handled, Sent
<1>2. at'[QNodeOs(n)] \notin Handling /\ ~Off(n) /\ ~Off(n)'
  BY <1>1, WorkFacts DEF Off, Waiting
<1>3. Work(n) # <<>> /\ Work(n)[1] = current[n] /\ Work(n)' = Tail(Work(n))
  <2>1. /\ Work(n) # <<>> /\ Work(n)[1] = current[n]
        /\ Tail(Work(n)) = buffer[<<n, "host">>] \o wire[<<n, "host">>]
    BY WorkFacts
  <2>2. Work(n)' = <<>> \o (buffer[<<n, "host">>] \o wire[<<n, "host">>])
    BY <1>1, <1>2 DEF Work
  <2>3. <<>> \o (buffer[<<n, "host">>] \o wire[<<n, "host">>])
            = buffer[<<n, "host">>] \o wire[<<n, "host">>]
    <3> DEFINE r == buffer[<<n, "host">>] \o wire[<<n, "host">>]
    <3>1. r \in Seq(Commands)
      BY QueueTypes, ConcatProperties
    <3> HIDE DEF r
    <3>2. <<>> \o r = r
      BY <3>1
    <3> QED
      BY <3>2 DEF r
  <2> QED
    BY <2>1, <2>2, <2>3
<1>4. /\ Done(n, "enter")' = Done(n, "enter") /\ Done(n, "exit")' = Done(n, "exit")
      /\ Asked(n)' = Asked(n) /\ Asks(n)' = Asks(n) /\ opened'[n] = opened[n]
  BY QnosHosts
<1>5. /\ Len(Work(n)) = 1 /\ Answers(n) = <<>> /\ Tail(Work(n)) = <<>>
      /\ Serve(<<>>, <<current[n]>>, Asks(n), Off(n),
               Done(n, "enter"), Asked(n), Done(n, "exit"), handled[n] + 1)
  <2>1. /\ Work(n) \in Seq(Commands \cup {Nothing}) /\ Asks(n) \in BOOLEAN /\ Off(n) \in BOOLEAN
        /\ Done(n, "enter") \in Nat /\ Asked(n) \in Nat /\ Done(n, "exit") \in Nat
    BY QueueTypes, AskedNat
  <2>2. Serve(Work(n), Answers(n), Asks(n), Off(n),
              Done(n, "enter"), Asked(n), Done(n, "exit"), handled[n])
    BY DEF Served
  <2>3. Work(n)[1].kind \in Questions
    BY <1>3
  <2> DEFINE w == Work(n)
             S == Commands \cup {Nothing}
             done == handled[n]
             asks == Asks(n)
             off == Off(n)
             ans == Answers(n)
             entered == Done(n, "enter")
             asked == Asked(n)
             exited == Done(n, "exit")
  <2>4. /\ w \in Seq(S) /\ w # <<>> /\ w[1].kind \in Questions
        /\ off \in BOOLEAN /\ asks \in BOOLEAN /\ done \in Nat
        /\ entered \in Nat /\ asked \in Nat /\ exited \in Nat
        /\ Serve(w, ans, asks, off, entered, asked, exited, done)
    BY <1>1, <1>3, <2>1, <2>2, <2>3
  <2> HIDE DEF w, S, done, asks, off, ans, entered, asked, exited
  <2>5. asks /\ Len(w) = 1 /\ ans = <<>> /\ Tail(w) = <<>>
    BY <2>4, OnlyQuestion
  <2>6. asks = TRUE
    BY <2>4, <2>5
  <2>7. Serve(w, ans, TRUE, off, entered, asked, exited, done)
    BY <2>4, <2>6, Zenon
  <2>8. current[n] \in S
    BY DEF Types, S
  <2>9. Serve(<<>>, <<current[n]>>, TRUE, off, entered, asked, exited, done + 1)
    BY <2>4, <2>5, <2>7, <2>8, ServeAnswer
  <2>10. Asks(n) = TRUE
    BY <2>6 DEF asks
  <2> QED
    BY <2>5, <2>9, <2>10, Zenon DEF w, done, off, ans, entered, asked, exited
<1>6. Answers(n)' = <<current[n]>>
  <2> DEFINE S == Commands \cup {Nothing}
             b == buffer[l]
             w == wire[l]
  <2>1. b \in Seq(S) /\ w \in Seq(S) /\ current[n] \in S
    BY QueueTypes DEF Types
  <2>2. b \o w = <<>>
    BY <1>5 DEF Answers
  <2>3. Answers(n)' = b \o Append(w, current[n])
    BY <1>1 DEF Answers
  <2> HIDE DEF S, b, w, l
  <2>4. b \o Append(w, current[n]) = Append(b \o w, current[n])
    BY <2>1, AppendLast
  <2>5. Append(<<>>, current[n]) = <<current[n]>>
    OBVIOUS
  <2> QED
    BY <2>2, <2>3, <2>4, <2>5
<1>7. Served(n)'
  <2>1. Off(n)' = Off(n) /\ Work(n)' = <<>>
    BY <1>2, <1>3, <1>5 DEF Off
  <2> QED
    BY <1>1, <1>4, <1>5, <1>6, <2>1, Zenon DEF Served
<1>8. Handles(n)'
  <2>1. at'[QNodeOs(n)] \in Waiting \X {"host"}
    BY <1>1 DEF Waiting
  <2> QED
    BY <1>2, <1>4, <2>1, HandlesSame
<1>9. Usable(n)'
  <2>1. Final(Work(n)) = current[n]
    BY <1>3, <1>5 DEF Final
  <2>2. \A s \in opened[n] : Ready(s)
    BY <2>1 DEF Usable
  <2>3. Work(n)' = <<>>
    BY <1>3, <1>5
  <2> QED
    BY <2>2, <2>3, QnosUsable
<1> QED
  BY <1>7, <1>8, <1>9

LEMMA HandleStopKept ==
    ASSUME Types, NEW n \in Nodes, HandleStop(n), Served(n), Handles(n), Usable(n)
    PROVE  Served(n)' /\ Handles(n)' /\ Usable(n)'
<1>1. /\ QnosNext(n) /\ at[QNodeOs(n)] = <<"stop", "">> /\ current' = current
      /\ at' = [at EXCEPT ![QNodeOs(n)] = <<"off", "">>]
      /\ handled' = [handled EXCEPT ![n] = @ + 1] /\ UNCHANGED <<wire, buffer>>
      /\ on' = on \ {<<n, "host">>}
  BY DEF HandleStop, QnosNext, QnosRuns, Handled
<1>2. /\ at'[QNodeOs(n)] = <<"off", "">> /\ handled'[n] = handled[n] + 1
      /\ handled[n] \in Nat /\ current[n].kind = "stop"
  BY <1>1, ReaderFacts DEF Types, Handles
<1>3. /\ at[QNodeOs(n)] \in Handling /\ at'[QNodeOs(n)] \notin Handling
      /\ Off(n)' = TRUE
  BY <1>1, <1>2, WorkFacts DEF Off
<1>4. Work(n) # <<>> /\ Work(n)[1] = current[n] /\ Work(n)' = Tail(Work(n))
  <2>1. /\ Work(n) # <<>> /\ Work(n)[1] = current[n]
        /\ Tail(Work(n)) = buffer[<<n, "host">>] \o wire[<<n, "host">>]
    BY <1>3, WorkFacts
  <2>2. Work(n)' = <<>> \o (buffer[<<n, "host">>] \o wire[<<n, "host">>])
    BY <1>1, <1>3 DEF Work
  <2>3. <<>> \o (buffer[<<n, "host">>] \o wire[<<n, "host">>])
            = buffer[<<n, "host">>] \o wire[<<n, "host">>]
    <3> DEFINE r == buffer[<<n, "host">>] \o wire[<<n, "host">>]
    <3>1. r \in Seq(Commands)
      BY QueueTypes, ConcatProperties
    <3> HIDE DEF r
    <3>2. <<>> \o r = r
      BY <3>1
    <3> QED
      BY <3>2 DEF r
  <2> QED
    BY <2>1, <2>2, <2>3
<1>5. /\ Done(n, "enter")' = Done(n, "enter") /\ Done(n, "exit")' = Done(n, "exit")
      /\ Asked(n)' = Asked(n) /\ Asks(n)' = Asks(n) /\ opened'[n] = opened[n]
      /\ Answers(n)' = Answers(n)
  BY <1>1, QnosHosts
<1>6. /\ Tail(Work(n)) = <<>>
      /\ Serve(<<>>, Answers(n), Asks(n), TRUE,
               Done(n, "enter"), Asked(n), Done(n, "exit"), handled[n] + 1)
  <2>1. /\ Work(n) \in Seq(Commands \cup {Nothing}) /\ Asks(n) \in BOOLEAN /\ Off(n) \in BOOLEAN
        /\ Done(n, "enter") \in Nat /\ Asked(n) \in Nat /\ Done(n, "exit") \in Nat
    BY QueueTypes, AskedNat
  <2>2. Serve(Work(n), Answers(n), Asks(n), Off(n),
              Done(n, "enter"), Asked(n), Done(n, "exit"), handled[n])
    BY DEF Served
  <2>3. Work(n)[1].kind = "stop"
    BY <1>2, <1>4
  <2> QED
    BY <1>2, <1>4, <2>1, <2>2, <2>3, ServeStop
<1>7. Served(n)'
  <2>1. Work(n)' = <<>>
    BY <1>4, <1>6
  <2> QED
    BY <1>2, <1>3, <1>5, <1>6, <2>1, Zenon DEF Served
<1>8. Handles(n)'
  <2>1. \A kind \in {"init", "open", "subroutine", "stop", "setup", "executing"} :
            at'[QNodeOs(n)] # <<kind, "">>
    BY <1>3, WorkFacts
  <2>2. <<n, "result">> \in on' /\ <<n, "peer">> \in on'
    BY <1>1 DEF Handles
  <2> QED
    BY <1>3, <1>5, <2>1, <2>2 DEF Handles
<1>9. Usable(n)'
  <2>1. ~Asks(n)
    BY <1>6 DEF Serve
  <2>2. Work(n)' = <<>> /\ \A s \in opened[n] : Ready(s)
    BY <1>4, <1>6, <2>1 DEF Usable, Pending
  <2> QED
    BY <1>1, <2>2, QnosUsable
<1> QED
  BY <1>7, <1>8, <1>9

LEMMA QnosKept ==
    ASSUME Types, NEW n \in Nodes, QnosNext(n), \A c \in circuits : c[3] = round,
           \A m \in Nodes : Served(m) /\ Handles(m) /\ Usable(m)
    PROVE  \A m \in Nodes : Served(m)' /\ Handles(m)' /\ Usable(m)'
<1>1. \A m \in Nodes \ {n} : Served(m)' /\ Handles(m)' /\ Usable(m)'
  BY QnosElsewhere
<1>2. CASE SetupDone(n)
  <2>1. /\ at[QNodeOs(n)] = <<"setup", "">> /\ HasCircuit(current[n].arg)
        /\ Answer(n) /\ Loop(n) /\ UNCHANGED <<current, on, buffer>>
    <3>1. <<n, "QNodeOs">>[1] = n /\ <<n, "QNodeOs">>[2] = "QNodeOs" /\ "QNodeOs" # "Host"
      OBVIOUS
    <3> QED
      BY <1>2, <3>1 DEF SetupDone, Polls, SettingUp, QNodeOs, Answer, Sent
  <2>2. at[QNodeOs(n)] \in Handling /\ current[n].kind = "open" /\ Ready(current[n].arg)
    BY <2>1, WorkFacts, CircuitReady DEF Handles
  <2>3. current[n].kind \in Questions
    BY <2>2 DEF Questions
  <2> QED
    BY <1>1, <2>1, <2>2, <2>3, AnswerKept
<1>3. CASE FinishSubroutine(n)
  <2>1. /\ at[QNodeOs(n)] \in {<<"subroutine", "">>, <<"executing", "">>}
        /\ Answer(n) /\ Loop(n) /\ UNCHANGED <<current, on, buffer>>
    BY <1>3 DEF FinishSubroutine, QnosRuns, Answer, Sent
  <2>2. at[QNodeOs(n)] \in Handling /\ current[n].kind = "subroutine"
    BY <2>1, WorkFacts DEF Handles
  <2>3. current[n].kind \in Questions /\ current[n].kind # "open"
    BY <2>2 DEF Questions
  <2> QED
    BY <1>1, <2>1, <2>2, <2>3, AnswerKept
<1>4. CASE ~SetupDone(n) /\ ~FinishSubroutine(n)
  BY <1>1, <1>4, ReceiveMsgKept, HandleInitKept, SteadyQnosKept, HandleStopKept DEF QnosNext
<1> QED
  BY <1>2, <1>3, <1>4

-----------------------------------------------------------------------------
(* What the rounds' invariant says at once.                                  *)

LEMMA ServeCounts ==
    ASSUME NEW M, NEW w \in Seq(M), NEW ans, NEW asks \in BOOLEAN, NEW off \in BOOLEAN,
           NEW entered \in Nat, NEW asked \in Nat, NEW exited \in Nat, NEW done \in Nat,
           Serve(w, ans, asks, off, entered, asked, exited, done),
           asked - (IF asks THEN 1 ELSE 0) > 0
    PROVE  /\ entered > 0
           /\ done >= asked - (IF asks THEN 1 ELSE 0) + entered
<1>1. Len(w) \in Nat /\ DOMAIN w = 1 .. Len(w)
  OBVIOUS
<1>2. entered > 0 /\ done + Len(w) = entered + asked + exited
  BY DEF Serve
<1>3. \A i \in DOMAIN w : w[i].kind # "init"
  BY DEF Serve
<1>4. Len(w) =< 1
  <2>1. Len(w) =< 2 /\ (Len(w) = 2 => w[1].kind = "init")
    BY DEF Serve
  <2>2. Len(w) = 2 => 1 \in DOMAIN w
    BY <1>1
  <2> QED
    BY <1>1, <1>3, <2>1, <2>2
<1>5. CASE asks
  BY <1>1, <1>2, <1>4, <1>5
<1>6. CASE ~asks
  <2>1. CASE Len(w) = 0
    BY <1>2, <1>6, <2>1
  <2>2. CASE Len(w) # 0
    <3>1. Len(w) = 1 /\ 1 \in DOMAIN w
      BY <1>1, <1>4, <2>2
    <3>2. w[1].kind = "stop"
      BY <1>3, <1>6, <3>1 DEF Serve
    <3>3. exited > 0
      BY <3>1, <3>2 DEF Serve
    <3> QED
      BY <1>2, <1>6, <3>1, <3>3
  <2> QED
    BY <2>1, <2>2
<1> QED
  BY <1>2, <1>5, <1>6

(* A program enters its connection once.                                     *)
LEMMA OneEnter ==
    ASSUME Types, NEW n \in Nodes, Done(n, "enter") > 0
    PROVE  Done(n, "enter") = Cardinality(OpsOf(n, "enter"))
<1> DEFINE code == program.code[n]
<1>1. OneConnection(code) /\ DOMAIN code \subseteq Nat
  BY CodeFacts
<1>2. Before(n, "enter") # {} /\ Before(n, "enter") \subseteq OpsOf(n, "enter")
  BY CodeFacts
<1>3. PICK i \in Before(n, "enter") : TRUE
  BY <1>2
<1>4. ASSUME NEW j \in OpsOf(n, "enter")
      PROVE  j = i
  <2>1. i \in DOMAIN code /\ code[i].kind = "enter" /\ j \in DOMAIN code /\ code[j].kind = "enter"
    BY <1>2, <1>3 DEF OpsOf
  <2>2. Talks(code[i]) /\ Talks(code[j])
    BY <2>1 DEF Talks
  <2> HIDE DEF code
  <2>3. i =< j /\ j =< i
    BY <1>1, <2>1, <2>2 DEF OneConnection
  <2> QED
    BY <1>1, <2>1, <2>3
<1>5. OpsOf(n, "enter") = Before(n, "enter")
  BY <1>2, <1>3, <1>4
<1> QED
  BY <1>5 DEF Done

LEMMA AnsweredNow ==
    ASSUME Types, \A n \in Nodes : Served(n) /\ Handles(n)
    PROVE  Answered
<1> SUFFICES ASSUME NEW n \in Nodes,
                    Done(n, "flush") + (Cardinality(opened[n]) - (IF Asks(n) THEN 1 ELSE 0)) > 0
             PROVE  handled[n] >= Done(n, "flush") + (Cardinality(opened[n]) - (IF Asks(n) THEN 1 ELSE 0))
                                  + Cardinality(OpsOf(n, "enter"))
  BY Zenon DEF Answered, Asks, Done, Before
<1> DEFINE w == Work(n)
           S == Commands \cup {Nothing}
           asks == Asks(n)
           off == Off(n)
           entered == Done(n, "enter")
           exited == Done(n, "exit")
           asked == Asked(n)
           done == handled[n]
           ans == Answers(n)
<1>1. /\ w \in Seq(S) /\ asks \in BOOLEAN /\ off \in BOOLEAN /\ done \in Nat
      /\ entered \in Nat /\ exited \in Nat /\ asked \in Nat
  BY QueueTypes, AskedNat
<1>2. Serve(w, ans, asks, off, entered, asked, exited, done)
  BY DEF Served
<1>3. /\ asked - (IF asks THEN 1 ELSE 0) > 0
      /\ Done(n, "flush") + (Cardinality(opened[n]) - (IF Asks(n) THEN 1 ELSE 0))
           = asked - (IF asks THEN 1 ELSE 0)
  <2>1. Done(n, "flush") \in Nat /\ Cardinality(opened[n]) \in Nat
    BY AskedNat
  <2> QED
    BY <2>1 DEF Asked
<1>4. entered > 0 => entered = Cardinality(OpsOf(n, "enter"))
  BY OneEnter
<1> HIDE DEF w, S, asks, off, entered, exited, asked, done, ans
<1>5. entered > 0 /\ done >= asked - (IF asks THEN 1 ELSE 0) + entered
  BY <1>1, <1>2, <1>3, ServeCounts
<1>6. done >= asked - (IF asks THEN 1 ELSE 0) + Cardinality(OpsOf(n, "enter"))
  BY <1>4, <1>5
<1> QED
  BY <1>3, <1>6, Zenon DEF done

LEMMA OwnRoundNow ==
    ASSUME Types, \A n \in Nodes : Told(n)
    PROVE  OwnRound
<1> SUFFICES ASSUME Balanced, NEW n \in Nodes, NEW i \in DOMAIN got[n]
             PROVE  got[n][i] = <<round, i>>
  BY DEF OwnRound, Balanced
<1> DEFINE k == Done(Peer[n], "send")
           u == Unread(n)
           g == got[n]
<1>1. g \o u = [j \in 1 .. k |-> <<round, j>>]
  BY DEF Told, Delivered
<1>2. g \in Seq(Nat \X Nat) /\ u \in Seq(Nat \X Nat) /\ k \in Nat
  BY QueueTypes, CodeFacts, SingleThreadAssumption DEF Types
<1> HIDE DEF k, u
<1>3. (g \o u)[i] = g[i] /\ i \in DOMAIN (g \o u)
  <2>1. i \in 1 .. Len(g)
    BY <1>2
  <2> HIDE DEF g
  <2> QED
    BY <1>2, <2>1
<1>4. i \in 1 .. k
  BY <1>1, <1>3
<1> QED
  BY <1>1, <1>3, <1>4

LEMMA SocketsNow ==
    ASSUME Types, \A n \in Nodes : Served(n) /\ Handles(n) /\ Usable(n)
    PROVE  SocketsReady
<1> SUFFICES ASSUME NEW n \in Nodes, at[QNodeOs(n)][1] = "executing",
                    Subroutine(n).kind \in {"create", "recv"}
             PROVE  Ready(Subroutine(n).socket)
  BY DEF SocketsReady, Ready
<1>1. at[QNodeOs(n)] = <<"executing", "">>
  <2>1. at[QNodeOs(n)] \in QnosAts
    BY ReaderFacts DEF Types, AtsOf, QNodeOs
  <2>2. /\ at[QNodeOs(n)] = <<at[QNodeOs(n)][1], at[QNodeOs(n)][2]>>
        /\ at[QNodeOs(n)][1] \notin Waiting => at[QNodeOs(n)][2] = ""
    BY <2>1, AtFacts
  <2> QED
    BY <2>2 DEF Waiting
<1>2. /\ current[n].kind = "subroutine" /\ at[QNodeOs(n)] \in Handling
      /\ Work(n) # <<>> /\ Work(n)[1] = current[n]
  BY <1>1, WorkFacts DEF Handles
<1>3. /\ Work(n) \in Seq(Commands \cup {Nothing}) /\ current[n].kind \in Questions
      /\ Asks(n) \in BOOLEAN /\ Off(n) \in BOOLEAN /\ handled[n] \in Nat
      /\ Done(n, "enter") \in Nat /\ Asked(n) \in Nat /\ Done(n, "exit") \in Nat
  BY <1>2, QueueTypes, AskedNat DEF Questions
<1> DEFINE w == Work(n)
           S == Commands \cup {Nothing}
           done == handled[n]
           asks == Asks(n)
           off == Off(n)
           ans == Answers(n)
           entered == Done(n, "enter")
           asked == Asked(n)
           exited == Done(n, "exit")
<1>4. /\ w \in Seq(S) /\ w # <<>> /\ w[1].kind \in Questions
      /\ off \in BOOLEAN /\ asks \in BOOLEAN /\ done \in Nat
      /\ entered \in Nat /\ asked \in Nat /\ exited \in Nat
      /\ Serve(w, ans, asks, off, entered, asked, exited, done)
  BY <1>2, <1>3 DEF Served
<1> HIDE DEF w, S, done, asks, off, ans, entered, asked, exited
<1>5. asks /\ Len(w) = 1
  BY <1>4, OnlyQuestion
<1>6. Pending(n) /\ Final(Work(n)) = current[n]
  BY <1>2, <1>5 DEF Pending, Final, asks, w
<1> QED
  BY <1>2, <1>6 DEF Usable, Subroutine

-----------------------------------------------------------------------------
(* Events that move messages nowhere but on to their buffers.                *)

Along ==
    /\ UNCHANGED <<program, round, pc, opened, got, handled, current, circuits, on>>
    /\ \A l \in Listeners : port'[l] = port[l] /\ buffer'[l] \o wire'[l] = buffer[l] \o wire[l]
    /\ \A p \in Protocols : \/ at'[p] = at[p]
                            \/ at[p][1] \in Waiting /\ at'[p] \in Waiting \X {at[p][2]}

LEMMA AlongKept ==
    ASSUME Types, NEW n \in Nodes, Along, Served(n), Handles(n), Usable(n), Told(n)
    PROVE  Served(n)' /\ Handles(n)' /\ Usable(n)' /\ Told(n)'
<1>1. /\ UNCHANGED <<program, round, pc, opened, got, handled, current, circuits, on>>
      /\ \A k \in {"host", "result", "peer"} :
            buffer'[<<n, k>>] \o wire'[<<n, k>>] = buffer[<<n, k>>] \o wire[<<n, k>>]
      /\ \/ at'[Host(n)] = at[Host(n)]
         \/ at[Host(n)][1] \in Waiting /\ at'[Host(n)] \in Waiting \X {at[Host(n)][2]}
      /\ \/ at'[QNodeOs(n)] = at[QNodeOs(n)]
         \/ at[QNodeOs(n)][1] \in Waiting /\ at'[QNodeOs(n)] \in Waiting \X {at[QNodeOs(n)][2]}
  BY ReaderFacts DEF Along
<1>2. \/ at'[QNodeOs(n)] = at[QNodeOs(n)]
      \/ /\ at[QNodeOs(n)] \in Waiting \X {"host"} /\ at'[QNodeOs(n)] \in Waiting \X {"host"}
         /\ ~Off(n) /\ ~Off(n)'
         /\ at[QNodeOs(n)] \notin Handling /\ at'[QNodeOs(n)] \notin Handling
  <2>1. ASSUME at[QNodeOs(n)][1] \in Waiting, at'[QNodeOs(n)] \in Waiting \X {at[QNodeOs(n)][2]}
        PROVE  /\ at[QNodeOs(n)] \in Waiting \X {"host"} /\ at'[QNodeOs(n)] \in Waiting \X {"host"}
               /\ ~Off(n) /\ ~Off(n)'
               /\ at[QNodeOs(n)] \notin Handling /\ at'[QNodeOs(n)] \notin Handling
    <3>1. at[QNodeOs(n)] \in QnosAts
      BY ReaderFacts DEF Types, AtsOf, QNodeOs
    <3>2. at[QNodeOs(n)][2] = "host" /\ at[QNodeOs(n)] = <<at[QNodeOs(n)][1], "host">>
      BY <2>1, <3>1, AtFacts
    <3>3. at[QNodeOs(n)] \in Waiting \X {"host"} /\ at'[QNodeOs(n)] \in Waiting \X {"host"}
      BY <2>1, <3>2
    <3>4. \A a \in Waiting \X {"host"} : a \notin Handling /\ a # <<"off", "">>
      <4>1. \A a \in Waiting \X {"host"} : a[1] \in Waiting /\ a = <<a[1], "host">>
        OBVIOUS
      <4> QED
        BY <4>1, WorkFacts, Zenon
    <3> QED
      BY <3>3, <3>4 DEF Off
  <2> QED
    BY <1>1, <2>1
<1>3. (Off(n)' <=> Off(n)) /\ Work(n)' = Work(n)
  <2>1. CASE at'[QNodeOs(n)] = at[QNodeOs(n)]
    BY <1>1, <2>1 DEF Off, Work
  <2>2. CASE at'[QNodeOs(n)] # at[QNodeOs(n)]
    BY <1>1, <1>2, <2>2 DEF Work
  <2> QED
    BY <2>1, <2>2
<1>4. Answers(n)' = Answers(n) /\ Unread(n)' = Unread(n)
  BY <1>1 DEF Answers, Unread
<1>5. (Asks(n)' <=> Asks(n))
  <2>1. \A a \in Waiting \X {at[Host(n)][2]} : a[2] = at[Host(n)][2]
    OBVIOUS
  <2> QED
    BY <1>1, <2>1 DEF Asks
<1>6. /\ pc'[n] = pc[n] /\ opened'[n] = opened[n] /\ handled'[n] = handled[n]
      /\ current'[n] = current[n] /\ got'[n] = got[n]
      /\ \A kind : Done(n, kind)' = Done(n, kind) /\ Before(n, kind)' = Before(n, kind)
      /\ Done(Peer[n], "send")' = Done(Peer[n], "send")
  BY <1>1, DoneSame DEF Done, Before, OpsOf
<1>7. Served(n)'
  BY <1>3, <1>4, <1>5, <1>6, ServedSame
<1>8. Handles(n)'
  BY <1>1, <1>2, <1>6, HandlesSame
<1>9. Usable(n)'
  BY <1>1, <1>3, <1>5, <1>6, UsableSame
<1>10. Told(n)'
  BY <1>1, <1>4, <1>6, ToldSame
<1> QED
  BY <1>7, <1>8, <1>9, <1>10

LEMMA AlongRounds ==
    ASSUME IInv, main \in {"run", "raised"}, main' \in {"run", "raised"}, Along
    PROVE  Rounds'
<1>1. \A n \in Nodes : Served(n)' /\ Handles(n)' /\ Usable(n)' /\ Told(n)'
  BY AlongKept DEF IInv, Instant, Rounds
<1>2. \A c \in circuits' : c[3] = round'
  BY DEF Along, IInv, Rounds
<1>3. \A l \in Listeners : port'[l] = <<>>
  BY DEF Along, IInv, Rounds
<1>4. main' \notin {"start", "end"}
  OBVIOUS
<1> QED
  BY <1>1, <1>2, <1>3, <1>4 DEF Rounds

LEMMA ListenRounds ==
    ASSUME IInv, NEW l \in Listeners, Listen(l)
    PROVE  Rounds'
<1> DEFINE w == wire[l]
           b == buffer[l]
<1>1. /\ main = "run" /\ main' = "run" /\ w # <<>> /\ wire' = [wire EXCEPT ![l] = Tail(@)]
      /\ UNCHANGED <<program, round, pc, opened, got, handled, current, circuits, on, at>>
  BY DEF Listen, Running, mainvars, hostvars, qnosvars
<1>2. /\ DOMAIN wire = Listeners /\ DOMAIN port = Listeners /\ DOMAIN buffer = Listeners
      /\ w \in Seq(MessageOf(l)) /\ b \in Seq(MessageOf(l)) /\ port[l] = <<>>
  BY DEF IInv, Instant, Types, ChannelTypes, Rounds
<1>3. PICK n \in Nodes : l = <<n, "host">> \/ l = <<n, "result">> \/ l = <<n, "peer">>
  BY ReaderFacts
<1>4. l \in on
  <2>1. Served(n) /\ Handles(n)
    BY <1>1 DEF IInv, Rounds
  <2>2. CASE l = <<n, "host">> /\ Off(n)
    <3>1. Work(n) = <<>>
      BY <2>1, <2>2 DEF Served, Serve
    <3>2. at[QNodeOs(n)] \notin Handling /\ Types
      BY <2>2, WorkFacts DEF IInv, Instant, Off
    <3>3. b \o w = <<>>
      BY <2>2, <3>1, <3>2, WorkFacts
    <3> HIDE DEF b, w
    <3> QED
      BY <1>1, <1>2, <3>3
  <2> QED
    BY <1>3, <2>1, <2>2 DEF Handles
<1>5. /\ port' = [port EXCEPT ![l] = Tail(port[l] \o <<Head(w)>>)]
      /\ buffer' = [buffer EXCEPT ![l] = Append(@, Head(port[l] \o <<Head(w)>>))]
  BY <1>4 DEF Listen
<1>6. port[l] \o <<Head(w)>> = <<Head(w)>>
  BY <1>2
<1>7. Tail(<<Head(w)>>) = <<>> /\ Head(<<Head(w)>>) = Head(w)
  OBVIOUS
<1>8. port'[l] = <<>> /\ buffer'[l] = Append(b, Head(w)) /\ wire'[l] = Tail(w)
  BY <1>1, <1>2, <1>5, <1>6, <1>7
<1>9. Append(b, Head(w)) \o Tail(w) = b \o w
  <2> DEFINE S == MessageOf(l)
  <2>1. w \in Seq(S) /\ b \in Seq(S) /\ w # <<>>
    BY <1>1, <1>2
  <2> HIDE DEF w, b, S
  <2>2. Append(b, Head(w)) \o (Tail(w) \o <<>>) = b \o (w \o <<>>)
    BY <2>1, MovedFirst
  <2>3. Tail(w) \o <<>> = Tail(w) /\ w \o <<>> = w
    BY <2>1
  <2> QED
    BY <2>2, <2>3, Zenon
<1>10. \A k \in Listeners : k # l => /\ port'[k] = port[k] /\ buffer'[k] = buffer[k]
                                     /\ wire'[k] = wire[k]
  BY <1>1, <1>2, <1>5
<1>11. \A k \in Listeners : port'[k] = port[k] /\ buffer'[k] \o wire'[k] = buffer[k] \o wire[k]
  <2>1. port'[l] = port[l] /\ buffer'[l] \o wire'[l] = buffer[l] \o wire[l]
    BY <1>2, <1>8, <1>9
  <2> QED
    BY <1>10, <2>1
<1>12. Along
  BY <1>1, <1>11 DEF Along
<1> QED
  BY <1>1, <1>12, AlongRounds

LEMMA ProtocolRounds ==
    ASSUME IInv, NEW p \in Protocols, NEW l \in Listeners,
           \/ Signal(l) \/ Await(p) \/ PopEmpty(p) \/ PollAgain(p) \/ Timeout(p) \/ Sleep(p)
    PROVE  Rounds'
<1>1. /\ main = "run" /\ main' \in {"run", "raised"}
      /\ UNCHANGED <<program, round, pc, opened, got, handled, current, circuits, on, port,
                     buffer, wire>>
  BY DEF Signal, Wakes, Await, PopEmpty, PollAgain, Timeout, Sleep, Polls, Turn, Running,
         mainvars, hostvars, qnosvars, channels
<1>2. \/ at' = at
      \/ at[Reader(l)] = <<"await", l[2]>> /\ at' = [at EXCEPT ![Reader(l)] = <<"woken", @[2]>>]
      \/ at[p][1] = "receive" /\ at' = [at EXCEPT ![p] = <<"await", at[p][2]>>]
  BY DEF Signal, Wakes, Await, PopEmpty, PollAgain, Timeout, Sleep
<1>3. \A q \in Protocols : \/ at'[q] = at[q]
                           \/ at[q][1] \in Waiting /\ at'[q] \in Waiting \X {at[q][2]}
  <2>1. CASE at' = at
    BY <2>1
  <2>2. CASE at[Reader(l)] = <<"await", l[2]>> /\ at' = [at EXCEPT ![Reader(l)] = <<"woken", @[2]>>]
    BY <2>2 DEF Waiting, IInv, Instant, Types
  <2>3. CASE at[p][1] = "receive" /\ at' = [at EXCEPT ![p] = <<"await", at[p][2]>>]
    BY <2>3 DEF Waiting, IInv, Instant, Types
  <2> QED
    BY <1>2, <2>1, <2>2, <2>3
<1>4. Along
  BY <1>1, <1>3 DEF Along
<1> QED
  BY <1>1, <1>4, AlongRounds

LEMMA StepRounds ==
    ASSUME IInv, NEW n \in Nodes, HostNext(n) \/ QnosNext(n)
    PROVE  Rounds'
<1>1. /\ main = "run" /\ main' = "run" /\ round' = round /\ port' = port
      /\ \A c \in circuits' : c \in circuits \/ c[3] = round
  BY HostFrame, QnosFrame DEF IInv, Instant
<1>2. /\ \A c \in circuits : c[3] = round
      /\ \A m \in Nodes : Served(m) /\ Handles(m) /\ Usable(m) /\ Told(m)
      /\ \A l \in Listeners : port[l] = <<>>
  BY <1>1 DEF IInv, Rounds
<1>3. CASE HostNext(n)
  <2>1. \A m \in Nodes : Served(m)' /\ Handles(m)' /\ Usable(m)'
    BY <1>2, <1>3, HostKept DEF IInv, Instant
  <2>2. \A m \in Nodes : Told(m)'
    BY <1>2, <1>3, HostTold DEF IInv, Instant
  <2> QED
    BY <1>1, <1>2, <2>1, <2>2 DEF Rounds
<1>4. CASE QnosNext(n)
  <2>1. \A m \in Nodes : Served(m)' /\ Handles(m)' /\ Usable(m)'
    BY <1>2, <1>4, QnosKept DEF IInv, Instant
  <2>2. \A m \in Nodes : Told(m)'
    BY <1>2, <1>4, QnosTold DEF IInv, Instant
  <2> QED
    BY <1>1, <1>2, <2>1, <2>2 DEF Rounds
<1> QED
  BY <1>3, <1>4

-----------------------------------------------------------------------------
(* The beginning and the end of a round.                                     *)

LEMMA BalancedSame ==
    ASSUME UNCHANGED program
    PROVE  Balanced' <=> Balanced
<1>1. \A n : \A kind : OpsOf(n, kind)' = OpsOf(n, kind)
  BY DEF OpsOf
<1> QED
  BY <1>1 DEF Balanced

LEMMA StartRounds ==
    ASSUME IInv, StartRound
    PROVE  Rounds'
<1>1. /\ main = "start" /\ main' = "run" /\ circuits' = {} /\ on' = Listeners
      /\ at' = [p \in Protocols |-> IF p[2] = "Host" THEN <<"run", "">> ELSE <<"receive", "host">>]
      /\ pc' = [n \in Nodes |-> 1] /\ opened' = [n \in Nodes |-> {}]
      /\ got' = [n \in Nodes |-> <<>>] /\ handled' = [n \in Nodes |-> 0]
      /\ UNCHANGED <<program, wire, port, buffer>>
  BY DEF StartRound, StartMain
<1>2. /\ \A n \in Nodes : buffer[<<n, "host">>] = <<>> /\ buffer[<<n, "result">>] = <<>>
      /\ Balanced => \A n \in Nodes : buffer[<<n, "peer">>] = <<>>
      /\ \A l \in Listeners : wire[l] = <<>> /\ port[l] = <<>>
      /\ Types
  BY <1>1 DEF IInv, Rounds, Instant, Scheduled
<1>3. ASSUME NEW n \in Nodes
      PROVE  Served(n)' /\ Handles(n)' /\ Usable(n)' /\ Told(n)'
  <2>1. /\ at'[Host(n)] = <<"run", "">> /\ at'[QNodeOs(n)] = <<"receive", "host">>
        /\ pc'[n] = 1 /\ opened'[n] = {} /\ got'[n] = <<>> /\ handled'[n] = 0
    BY <1>1, ReaderFacts DEF Host, QNodeOs
  <2>2. ~Asks(n)' /\ ~Off(n)' /\ at'[QNodeOs(n)] \notin Handling
    <3>1. <<"run", "">>[2] = "" /\ "" # "result"
      OBVIOUS
    <3>2. ~Asks(n)'
      BY <2>1, <3>1, Zenon DEF Asks
    <3> QED
      BY <1>2, <2>1, <3>2, WorkFacts DEF Off, Waiting
  <2>3. /\ <<n, "host">> \in Listeners /\ <<n, "result">> \in Listeners /\ <<n, "peer">> \in Listeners
        /\ wire'[<<n, "host">>] = <<>> /\ wire'[<<n, "result">>] = <<>> /\ wire'[<<n, "peer">>] = <<>>
        /\ buffer'[<<n, "host">>] = <<>> /\ buffer'[<<n, "result">>] = <<>>
        /\ Balanced => buffer'[<<n, "peer">>] = <<>>
    BY <1>1, <1>2, ReaderFacts
  <2>4. <<>> \o <<>> = <<>> /\ Len(<<>>) = 0
    OBVIOUS
  <2>5. Work(n)' = <<>> /\ Answers(n)' = <<>> /\ (Balanced => Unread(n)' = <<>>)
    BY <2>2, <2>3, <2>4 DEF Work, Answers, Unread
  <2>6. \A m \in Nodes : \A kind : Before(m, kind)' = {} /\ Done(m, kind)' = 0
    <3>1. ASSUME NEW m \in Nodes, NEW kind
          PROVE  Before(m, kind)' = {}
      <4>1. OpsOf(m, kind)' = OpsOf(m, kind) /\ pc'[m] = 1
        BY <1>1 DEF OpsOf
      <4>2. \A i \in OpsOf(m, kind) : i \in Nat /\ i > 0
        BY <1>2, CodeFacts DEF OpsOf
      <4>3. \A i \in OpsOf(m, kind) : ~(i < 1)
        BY <4>2
      <4> QED
        BY <4>1, <4>3 DEF Before
    <3> QED
      BY <3>1, FS_EmptySet DEF Done
  <2>7. Asked(n)' = 0 /\ IsFiniteSet(opened'[n])
    <3>1. Done(n, "flush")' = 0
      BY <2>6
    <3>2. IsFiniteSet({}) /\ Cardinality({}) = 0
      BY FS_EmptySet
    <3>3. Cardinality(opened'[n]) = 0 /\ IsFiniteSet(opened'[n])
      BY <2>1, <3>2
    <3>4. Asked(n)' = Done(n, "flush")' + Cardinality(opened'[n])
      BY DEF Asked
    <3> QED
      BY <3>1, <3>3, <3>4
  <2>8. Served(n)'
    <3>1. Serve(<<>>, <<>>, FALSE, FALSE, 0, 0, 0, 0)
      BY DEF Serve
    <3>2. Asks(n)' = FALSE /\ Off(n)' = FALSE
      BY <2>2 DEF Asks, Off
    <3>3. Done(n, "enter")' = 0 /\ Done(n, "exit")' = 0
      BY <2>6
    <3> QED
      BY <2>1, <2>5, <2>7, <3>1, <3>2, <3>3, Zenon DEF Served
  <2>9. Handles(n)'
    <3>1. /\ \A kind \in {"init", "open", "subroutine", "stop", "setup", "executing"} :
                at'[QNodeOs(n)] # <<kind, "">>
      BY <1>2, <2>2, WorkFacts
    <3> QED
      BY <1>1, <2>2, <2>3, <2>7, <3>1 DEF Handles
  <2>10. Usable(n)'
    BY <2>1, <2>2, <2>6 DEF Usable, Pending
  <2>11. Placed(n)'
    <3>1. Len(got'[n]) = Done(n, "recv")'
      BY <2>1, <2>4, <2>6
    <3>2. /\ (at'[Host(n)])[2] # "peer" /\ at'[Host(n)] # <<"setup", "">>
          /\ at'[Host(n)] # <<"ended", "">> /\ at'[Host(n)] # <<"off", "">>
      BY <2>1, HostStates, Zenon
    <3>3. pc'[n] > 0
      <4>1. pc'[n] = 1
        BY <2>1
      <4>2. 1 > 0
        OBVIOUS
      <4> QED
        BY <4>1, <4>2, Zenon
    <3> QED
      BY <3>1, <3>2, <3>3, Zenon DEF Placed
  <2>12. Delivered(n)'
    <3>1. Balanced' <=> Balanced
      BY <1>1, BalancedSame
    <3>2. Done(Peer[n], "send")' = 0
      BY <2>6, SingleThreadAssumption
    <3>3. [i \in 1 .. 0 |-> <<round', i>>] = <<>>
      OBVIOUS
    <3> QED
      BY <2>1, <2>4, <2>5, <3>1, <3>2, <3>3 DEF Delivered
  <2> QED
    BY <2>8, <2>9, <2>10, <2>11, <2>12 DEF Told
<1> QED
  BY <1>1, <1>2, <1>3 DEF Rounds

(* Where a host has returned, all of its operations are before it.           *)
LEMMA AllDone ==
    ASSUME Types, NEW n \in Nodes, HostOp(n).kind = "none", pc[n] > 0
    PROVE  \A kind : Done(n, kind) = Cardinality(OpsOf(n, kind))
<1>1. pc[n] \notin DOMAIN program.code[n]
  BY HostOpFacts
<1>2. DOMAIN program.code[n] = 1 .. Len(program.code[n]) /\ Len(program.code[n]) \in Nat /\ pc[n] \in Nat
  BY CodeFacts DEF Types
<1>3. \A i \in DOMAIN program.code[n] : i < pc[n]
  BY <1>1, <1>2
<1>4. \A kind : Before(n, kind) = OpsOf(n, kind)
  BY <1>3 DEF Before, OpsOf
<1> QED
  BY <1>4 DEF Done

LEMMA EndRounds ==
    ASSUME IInv, EndRound
    PROVE  Rounds'
<1>1. /\ main = "run" /\ main' \in {"start", "end"} /\ turn = <<>>
      /\ \A l \in Listeners : wire[l] = <<>> /\ signals[l] = 0
      /\ \A p \in Protocols : at[p][1] \notin {"setup", "executing"}
      /\ at' = [p \in Protocols |-> <<"off", "">>]
      /\ UNCHANGED <<program, round, pc, opened, got, handled, port, buffer>>
  BY DEF EndRound, Quiet, Running, Waits, hostvars, qnosvars
<1>2. /\ Types /\ \A p \in Protocols : at[p][1] \in Asleep
      /\ \A l \in Listeners : at[Reader(l)] = <<"await", l[2]>> => buffer[l] = <<>>
      /\ \A l \in Listeners : port[l] = <<>>
      /\ \A n \in Nodes : Served(n) /\ Handles(n) /\ Usable(n) /\ Told(n)
  <2>1. Instant /\ Rounds
    BY DEF IInv
  <2>2. \A p \in Protocols : at[p][1] \in Asleep
    BY <1>1, <2>1, NoTurn
  <2>3. \A l \in Listeners : at[Reader(l)] = <<"await", l[2]>> => buffer[l] = <<>>
    <3> SUFFICES ASSUME NEW l \in Listeners, at[Reader(l)] = <<"await", l[2]>>
                 PROVE  buffer[l] = <<>>
      OBVIOUS
    <3>1. ~(signals[l] > 0)
      <4>1. signals[l] = 0
        BY <1>1
      <4>2. ~(0 > 0)
        OBVIOUS
      <4> QED
        BY <4>1, <4>2, Zenon
    <3> QED
      BY <2>1, <3>1 DEF Instant, Scheduled
  <2> QED
    BY <1>1, <2>1, <2>2, <2>3 DEF Instant, Rounds
<1>3. ASSUME NEW n \in Nodes
      PROVE  /\ buffer[<<n, "host">>] = <<>> /\ buffer[<<n, "result">>] = <<>> /\ ~Asks(n)
             /\ Balanced => buffer[<<n, "peer">>] = <<>>
  <2>1. /\ wire[<<n, "host">>] = <<>> /\ wire[<<n, "result">>] = <<>> /\ wire[<<n, "peer">>] = <<>>
        /\ buffer[<<n, "host">>] \in Seq(Commands)
        /\ buffer[<<n, "result">>] \in Seq(Commands \cup {Nothing})
        /\ buffer[<<n, "peer">>] \in Seq(Nat \X Nat)
        /\ at[QNodeOs(n)] = <<"await", "host">> => buffer[<<n, "host">>] = <<>>
        /\ at[Host(n)] = <<"await", "result">> => buffer[<<n, "result">>] = <<>>
        /\ at[Host(n)] = <<"await", "peer">> => buffer[<<n, "peer">>] = <<>>
    BY <1>1, <1>2, ReaderFacts, QueueTypes
  <2>2. at[QNodeOs(n)] = <<"off", "">> \/ at[QNodeOs(n)] = <<"await", "host">>
    <3>1. at[QNodeOs(n)] \in QnosAts
      BY <1>2, ReaderFacts DEF Types, AtsOf, QNodeOs
    <3>2. at[QNodeOs(n)][1] \in {"off", "await", "ended"}
      BY <1>1, <1>2, ReaderFacts DEF Asleep
    <3>3. at[QNodeOs(n)][1] # "ended"
      <4>1. \A a \in {"init", "open", "subroutine", "stop", "setup", "executing"} \X {""} : a[1] # "ended"
        OBVIOUS
      <4>2. \A a \in Waiting \X {"host"} : a[1] # "ended"
        BY DEF Waiting
      <4>3. <<"off", "">>[1] # "ended"
        OBVIOUS
      <4> QED
        BY <3>1, <4>1, <4>2, <4>3 DEF QnosAts, Handling
    <3>4. /\ at[QNodeOs(n)] = <<at[QNodeOs(n)][1], at[QNodeOs(n)][2]>>
          /\ at[QNodeOs(n)][1] \in Waiting => at[QNodeOs(n)][2] = "host"
          /\ at[QNodeOs(n)][1] \notin Waiting => at[QNodeOs(n)][2] = ""
      BY <3>1, AtFacts
    <3>5. "off" \notin Waiting /\ "await" \in Waiting
      BY DEF Waiting
    <3>6. CASE at[QNodeOs(n)][1] = "off"
      BY <3>4, <3>5, <3>6, Zenon
    <3>7. CASE at[QNodeOs(n)][1] = "await"
      BY <3>4, <3>5, <3>7, Zenon
    <3> QED
      BY <3>2, <3>3, <3>6, <3>7
  <2>3. \/ at[Host(n)] = <<"off", "">> \/ at[Host(n)] = <<"ended", "">>
        \/ at[Host(n)] = <<"await", "result">> \/ at[Host(n)] = <<"await", "peer">>
    <3>1. at[Host(n)] \in HostAts
      BY <1>2, ReaderFacts DEF Types, AtsOf, Host
    <3>2. at[Host(n)][1] \in {"off", "await", "ended"}
      BY <1>1, <1>2, ReaderFacts DEF Asleep
    <3>4. /\ at[Host(n)] = <<at[Host(n)][1], at[Host(n)][2]>>
          /\ at[Host(n)][1] \in Waiting => at[Host(n)][2] = "result" \/ at[Host(n)][2] = "peer"
          /\ at[Host(n)][1] \notin Waiting => at[Host(n)][2] = ""
      BY <3>1, AtFacts
    <3>5. "off" \notin Waiting /\ "ended" \notin Waiting /\ "await" \in Waiting
      BY DEF Waiting
    <3>6. CASE at[Host(n)][1] = "off"
      BY <3>4, <3>5, <3>6, Zenon
    <3>7. CASE at[Host(n)][1] = "await"
      BY <3>4, <3>5, <3>7, Zenon
    <3>8. CASE at[Host(n)][1] = "ended"
      BY <3>4, <3>5, <3>8, Zenon
    <3> QED
      BY <3>2, <3>6, <3>7, <3>8
  <2>4. at[QNodeOs(n)] \notin Handling
    BY <1>2, <2>2, WorkFacts DEF Waiting
  <2>5. Work(n) = buffer[<<n, "host">>] /\ Answers(n) = buffer[<<n, "result">>]
        /\ Unread(n) = buffer[<<n, "peer">>]
    <3> DEFINE b == buffer[<<n, "host">>]
               r == buffer[<<n, "result">>]
               q == buffer[<<n, "peer">>]
    <3>1. Work(n) = b \o <<>> /\ Answers(n) = r \o <<>> /\ Unread(n) = q \o <<>>
      BY <1>2, <2>1, <2>4, WorkFacts DEF Answers, Unread
    <3>2. b \in Seq(Commands) /\ r \in Seq(Commands \cup {Nothing}) /\ q \in Seq(Nat \X Nat)
      BY <2>1
    <3> HIDE DEF b, r, q
    <3>3. b \o <<>> = b /\ r \o <<>> = r /\ q \o <<>> = q
      BY <3>2, ConcatEmptySeq
    <3> QED
      BY <3>1, <3>3, Zenon DEF b, r, q
  <2>6. buffer[<<n, "host">>] = <<>>
    <3>1. CASE at[QNodeOs(n)] = <<"off", "">>
      BY <1>2, <2>5, <3>1 DEF Served, Serve, Off
    <3> QED
      BY <2>1, <2>2, <3>1
  <2>7. ~Asks(n)
    <3>1. ASSUME Asks(n)
          PROVE  FALSE
      <4>1. at[Host(n)] = <<"await", "result">>
        <5>1. \A k : <<k, "">>[2] = "" /\ <<k, "peer">>[2] = "peer"
          OBVIOUS
        <5>2. "" # "result" /\ "peer" # "result"
          OBVIOUS
        <5> QED
          BY <2>3, <3>1, <5>1, <5>2, Zenon DEF Asks
      <4>2. Answers(n) = <<>> /\ Work(n) = <<>>
        BY <2>1, <2>5, <2>6, <4>1
      <4>3. Len(<<>>) = 1
        BY <1>2, <3>1, <4>2 DEF Served, Serve
      <4> QED
        BY <4>3
    <3> QED
      BY <3>1
  <2>8. buffer[<<n, "result">>] = <<>>
    BY <1>2, <2>5, <2>7 DEF Served, Serve
  <2>9. Balanced => buffer[<<n, "peer">>] = <<>>
    <3>1. CASE at[Host(n)] = <<"await", "peer">>
      BY <2>1, <3>1
    <3>2. CASE at[Host(n)] = <<"ended", "">> /\ Balanced
      <4>1. /\ HostOp(n).kind = "none" /\ pc[n] > 0 /\ Len(got[n]) = Done(n, "recv")
            /\ got[n] \o Unread(n) = [i \in 1 .. Done(Peer[n], "send") |-> <<round, i>>]
        BY <1>2, <3>2 DEF Told, Placed, Delivered
      <4>2. Done(n, "recv") = Cardinality(OpsOf(Peer[n], "send"))
        BY <1>2, <3>2, <4>1, AllDone DEF Balanced
      <4>3. /\ Done(Peer[n], "send") =< Done(n, "recv")
            /\ Done(Peer[n], "send") \in Nat /\ Done(n, "recv") \in Nat
        BY <1>2, <4>2, CodeFacts, SingleThreadAssumption
      <4> DEFINE k == Done(Peer[n], "send")
                 d == Done(n, "recv")
                 g == got[n]
                 u == Unread(n)
      <4>4. /\ g \in Seq(Nat \X Nat) /\ u \in Seq(Nat \X Nat) /\ k \in Nat /\ d \in Nat
            /\ Len(g) = d /\ k =< d /\ g \o u = [i \in 1 .. k |-> <<round, i>>]
        BY <1>2, <4>1, <4>3, QueueTypes DEF Types
      <4> HIDE DEF k, d, g, u
      <4>5. Len(g \o u) = Len(g) + Len(u) /\ Len(u) \in Nat
        BY <4>4
      <4>6. Len([i \in 1 .. k |-> <<round, i>>]) = k
        BY <4>4
      <4>7. Len(u) = 0
        BY <4>4, <4>5, <4>6
      <4>8. u = <<>>
        BY <4>4, <4>7
      <4> QED
        BY <2>5, <4>8 DEF u
    <3>3. at[Host(n)] # <<"off", "">> /\ at[Host(n)] # <<"await", "result">>
      <4>1. <<"await", "result">>[2] = "result"
        OBVIOUS
      <4> QED
        BY <1>2, <2>7, <4>1 DEF Told, Placed, Asks
    <3> QED
      BY <2>3, <3>1, <3>2, <3>3
  <2> QED
    BY <2>6, <2>7, <2>8, <2>9
<1>4. Balanced' <=> Balanced
  BY <1>1, BalancedSame
<1>5. Answered'
  <2>1. Answered
    BY <1>2, AnsweredNow
  <2>2. \A n \in Nodes : (at'[Host(n)])[2] # "result" /\ at[Host(n)][2] # "result"
    <3>1. \A n \in Nodes : at'[Host(n)] = <<"off", "">>
      BY <1>1, ReaderFacts
    <3>2. <<"off", "">>[2] = "" /\ "" # "result"
      OBVIOUS
    <3> QED
      BY <1>3, <3>1, <3>2, Zenon DEF Asks
  <2> QED
    BY <1>1, <2>1, <2>2 DEF Answered, OpsOf
<1>6. OwnRound'
  <2>1. OwnRound
    BY <1>2, OwnRoundNow
  <2> QED
    BY <1>1, <2>1 DEF OwnRound, OpsOf
<1> QED
  BY <1>1, <1>2, <1>3, <1>4, <1>5, <1>6 DEF Rounds

-----------------------------------------------------------------------------
(* The invariant.                                                            *)

LEMMA StutterRounds ==
    ASSUME IInv, UNCHANGED vars
    PROVE  Rounds'
<1>1. UNCHANGED <<program, main, round, turn, at, pc, opened, current, got, handled, circuits,
                  wire, port, buffer, on>>
  BY DEF vars, mainvars, hostvars, qnosvars, channels
<1>2. CASE main \in {"run", "raised"}
  <2>1. Along
    BY <1>1 DEF Along
  <2> QED
    BY <1>1, <1>2, <2>1, AlongRounds
<1>3. CASE main \in {"start", "end"}
  <2>1. Balanced' <=> Balanced
    BY <1>1, BalancedSame
  <2>2. Answered' /\ OwnRound'
    BY <1>1, <1>3 DEF IInv, Rounds, Answered, OwnRound, OpsOf
  <2> QED
    BY <1>1, <1>3, <2>1, <2>2 DEF IInv, Rounds
<1> QED
  BY <1>2, <1>3 DEF IInv, Instant, Types

LEMMA RoundsKept == IInv /\ [Next]_vars => Rounds'
<1> SUFFICES ASSUME IInv, [Next]_vars
             PROVE  Rounds'
  OBVIOUS
<1>1. CASE StartRound
  BY <1>1, StartRounds
<1>2. CASE EndRound
  BY <1>2, EndRounds
<1>3. ASSUME NEW l \in Listeners, Listen(l)
      PROVE  Rounds'
  BY <1>3, ListenRounds
<1>4. ASSUME NEW l \in Listeners, Signal(l)
      PROVE  Rounds'
  <2>1. Reader(l) \in Protocols
    BY ReaderFacts
  <2> QED
    BY <1>4, <2>1, ProtocolRounds
<1>5. ASSUME NEW p \in Protocols,
             Await(p) \/ PopEmpty(p) \/ PollAgain(p) \/ Timeout(p) \/ Sleep(p)
      PROVE  Rounds'
  <2>1. PICK l \in Listeners : TRUE
    BY ReaderFacts
  <2> QED
    BY <1>5, <2>1, ProtocolRounds
<1>6. ASSUME NEW n \in Nodes, HostNext(n) \/ QnosNext(n)
      PROVE  Rounds'
  BY <1>6, StepRounds
<1>7. CASE UNCHANGED vars
  BY <1>7, StutterRounds
<1> QED
  BY <1>1, <1>2, <1>3, <1>4, <1>5, <1>6, <1>7 DEF Next, Events

LEMMA InitIInv == Init => IInv
<1> SUFFICES ASSUME Init
             PROVE  IInv
  OBVIOUS
<1>1. /\ program \in Programs /\ main = "start" /\ round = 0 /\ turn = <<>>
      /\ at = [p \in Protocols |-> <<"off", "">>]
      /\ pc = [n \in Nodes |-> 0] /\ opened = [n \in Nodes |-> {}]
      /\ current = [n \in Nodes |-> Nothing] /\ got = [n \in Nodes |-> <<>>]
      /\ handled = [n \in Nodes |-> 0] /\ circuits = {} /\ fault = {}
  BY DEF Init
<1>2. /\ wire = [l \in Listeners |-> <<>>] /\ port = wire /\ buffer = wire
      /\ signals = [l \in Listeners |-> 0] /\ sentNow = signals /\ on = {}
  BY DEF Init
<1>3. Types
  <2>1. ChannelTypes
    BY <1>2 DEF ChannelTypes
  <2>2. \A p \in Protocols : <<"off", "">> \in HostAts /\ <<"off", "">> \in QnosAts
                             /\ <<"off", "">> \in AtsOf(p)
    BY DEF HostAts, QnosAts, AtsOf
  <2>3. turn \in Seq(Protocols) /\ \A n \in Nodes : got[n] \in Seq(Nat \X Nat)
    <3>1. <<>> \in Seq(Protocols) /\ <<>> \in Seq(Nat \X Nat)
      OBVIOUS
    <3>2. \A n \in Nodes : got[n] = <<>>
      BY <1>1
    <3> QED
      BY <1>1, <3>1, <3>2, Zenon
  <2>4. at \in [Protocols -> HostAts \cup QnosAts] /\ \A p \in Protocols : at[p] \in AtsOf(p)
    BY <1>1, <2>2
  <2>5. got \in [Nodes -> Seq(Nat \X Nat)]
    BY <1>1, <2>3
  <2> QED
    BY <1>1, <2>1, <2>3, <2>4, <2>5 DEF Types
<1>4. Scheduled
  <2>1. <<"off", "">>[1] = "off" /\ "off" \in Asleep
    BY DEF Asleep
  <2>2. \A p \in Protocols : at[p][1] \in Asleep
    BY <1>1, <2>1
  <2> QED
    BY <1>1, <1>2, <2>2 DEF Scheduled
<1>5. Uncrowded
  <2>1. Len(<<>>) = 0 /\ \A l \in Listeners : wire[l] = <<>> /\ signals[l] = 0 /\ sentNow[l] = 0
    BY <1>2
  <2>2. \A p \in Protocols : ~InTurn(p)
    <3>1. DOMAIN <<>> = {}
      OBVIOUS
    <3> QED
      BY <1>1, <3>1 DEF InTurn
  <2>3. \A l \in Listeners : at[Reader(l)] # <<"woken", l[2]>>
    <3>1. \A l \in Listeners : at[Reader(l)] = <<"off", "">>
      BY <1>1, ReaderFacts
    <3>2. \A k : <<"off", "">> # <<"woken", k>>
      OBVIOUS
    <3> QED
      BY <3>1, <3>2, Zenon
  <2>4. \A l \in Listeners : ~InTurn(Reader(l)) /\ ~(signals[l] > 0)
                             /\ Len(wire[l]) + signals[l] =< sentNow[l]
    <3>1. 0 + 0 =< 0 /\ ~(0 > 0)
      OBVIOUS
    <3> QED
      BY <2>1, <2>2, <3>1, ReaderFacts
  <2> QED
    BY <2>3, <2>4 DEF Uncrowded
<1>6. Faulty
  BY <1>1 DEF Faulty, CrowdedFaults
<1>7. Answered
  <2> SUFFICES ASSUME NEW n \in Nodes
               PROVE  ~(Done(n, "flush") + (Cardinality(opened[n]) - (IF Asks(n) THEN 1 ELSE 0)) > 0)
    BY Zenon DEF Answered, Asks, Done, Before
  <2>1. opened[n] = {} /\ pc[n] = 0 /\ Cardinality({}) = 0
    BY <1>1, FS_EmptySet
  <2>2. Before(n, "flush") = {}
    <3>1. \A i \in OpsOf(n, "flush") : i \in Nat /\ i > 0
      BY <1>3, CodeFacts DEF OpsOf
    <3>2. \A i \in OpsOf(n, "flush") : ~(i < 0)
      BY <3>1
    <3> QED
      BY <2>1, <3>2 DEF Before
  <2>3. Done(n, "flush") = 0 /\ Cardinality(opened[n]) = 0
    BY <2>1, <2>2 DEF Done
  <2> QED
    BY <2>3
<1>8. OwnRound
  <2>1. \A n \in Nodes : got[n] = <<>>
    BY <1>1
  <2>2. DOMAIN <<>> = {}
    OBVIOUS
  <2> QED
    BY <2>1, <2>2 DEF OwnRound
<1>9. Rounds
  BY <1>1, <1>2, <1>7, <1>8, ReaderFacts DEF Rounds
<1> QED
  BY <1>3, <1>4, <1>5, <1>6, <1>9 DEF IInv, Instant

(* Instants, the one question between a host and its QNodeOS, and what is    *)
(* underway between the hosts are as IInv says in every reachable state.     *)
THEOREM Invariance == Spec => []IInv
<1>1. IInv /\ [Next]_vars => IInv'
  BY InstantKept, RoundsKept DEF IInv
<1> QED
  BY InitIInv, <1>1, PTL DEF Spec

(* What a program runs, its protocols and its channels keep their types.     *)
THEOREM TypeCorrect == Spec => []Types
<1>1. IInv => Types
  BY DEF IInv, Instant
<1> QED
  BY Invariance, <1>1, PTL

(* Only in an instant in which two messages are sent to a protocol can it    *)
(* find a buffer empty after it was woken: buffer.pop(0) raises.             *)
THEOREM PopsFromFull == Spec => []CrowdedFaults
<1>1. IInv => CrowdedFaults
  BY DEF IInv, Instant, Faulty
<1> QED
  BY Invariance, <1>1, PTL

(* A program goes on after flush() only when its QNodeOS has handled all     *)
(* that it committed before: there is one answer, and it is to that message. *)
THEOREM FlushesAnswered == Spec => []Answered
<1>1. IInv => Answered
  <2>1. ASSUME IInv, main \in {"run", "raised"}
        PROVE  Answered
    BY <2>1, AnsweredNow DEF IInv, Instant, Rounds
  <2>2. ASSUME IInv, main \in {"start", "end"}
        PROVE  Answered
    BY <2>2 DEF IInv, Rounds
  <2> QED
    BY <2>1, <2>2 DEF IInv, Instant, Types
<1> QED
  BY Invariance, <1>1, PTL

(* A subroutine that creates or receives entanglement runs only while both   *)
(* ends of its socket have been set up in this round.                        *)
THEOREM SocketsSetUp == Spec => []SocketsReady
<1>1. IInv => SocketsReady
  <2>1. ASSUME IInv, main \in {"run", "raised"}
        PROVE  SocketsReady
    BY <2>1, SocketsNow DEF IInv, Instant, Rounds
  <2>2. ASSUME IInv, main \in {"start", "end"}
        PROVE  SocketsReady
    <3>1. \A n \in Nodes : at[QNodeOs(n)] = <<"off", "">>
      BY <2>2, ReaderFacts DEF IInv, Instant, Scheduled
    <3>2. <<"off", "">>[1] # "executing"
      OBVIOUS
    <3> QED
      BY <3>1, <3>2 DEF SocketsReady
  <2> QED
    BY <2>1, <2>2 DEF IInv, Instant, Types
<1> QED
  BY Invariance, <1>1, PTL

(* Programs that receive all that they are sent receive the messages of      *)
(* their own round, in order, although buffers are kept over rounds.         *)
THEOREM RoundsApart == Spec => []OwnRound
<1>1. IInv => OwnRound
  <2>1. ASSUME IInv, main \in {"run", "raised"}
        PROVE  OwnRound
    BY <2>1, OwnRoundNow DEF IInv, Instant, Rounds
  <2>2. ASSUME IInv, main \in {"start", "end"}
        PROVE  OwnRound
    BY <2>2 DEF IInv, Rounds
  <2> QED
    BY <2>1, <2>2 DEF IInv, Instant, Types
<1> QED
  BY Invariance, <1>1, PTL
=============================================================================
