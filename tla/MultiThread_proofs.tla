-------------------------- MODULE MultiThread_proofs ---------------------------
(***************************************************************************)
(* Proofs about MultiThread: for any programs, nodes and rounds, however   *)
(* the threads are interleaved, pairs reach the socket they were made for, *)
(* run_app gets each result with its name, and a thread that goes on does  *)
(* so because its own message has been handled and stops its application   *)
(* after its subroutines, unless equal messages are underway.              *)
(*                                                                         *)
(* Requests are right if the purpose ID of their socket was assigned when  *)
(* they are made; so the invariant says that a subroutine comes after what *)
(* opens its sockets, in its program, in the queue and among the tasks.    *)
(* Messages are followed from the thread that waits to the set of finished *)
(* ones: each on its way has its waiter, each finished one is of a waiter, *)
(* and no two waiters have equal ones.  The queue counts what is on its    *)
(* way, so a program that passes a join has left nothing before it.        *)
(***************************************************************************)
EXTENDS MultiThread, QueueLemmas

(* What the variables hold.                                                  *)

Kinds == {"init", "open", "subroutine", "stop"}
Args == {p.code[a][i].arg : p \in Programs, a \in Apps, i \in Nat}
AllSteps == {Code[s][i] : s \in DOMAIN Code, i \in Nat} \cup {[kind |-> "delay"]}
Nums == Apps \X Nat \X Nat
Messages == [num : Nums, app : Apps, kind : Kinds, arg : Args]
Contents == [app : Apps, kind : Kinds, arg : Args]
Tasks == [num : Nums, app : Apps, kind : Kinds, arg : Args, steps : Seq(AllSteps),
          begun : BOOLEAN, finished : BOOLEAN, waiting : BOOLEAN]
NodeStates ==
    [queue : Seq(Messages), fin : SUBSET Contents, unfinished : Int, other : Seq(Tasks),
     subs : Seq(Tasks), at : {"off", "loop", "task", "run", "stopped"}, task : Nat]
Waiting == [app : Apps, num : Nums, msg : Contents, block : BOOLEAN, seen : BOOLEAN]

Types ==
    /\ program \in Programs
    /\ round \in Nat
    /\ main \in {"begin", "run", "collect", "stop", "end"}
    /\ backend \in {"none", "starting", "running", "ended"}
    /\ pc \in [DOMAIN program.code -> Nat]
    /\ waiters \subseteq Waiting
    /\ node \in [program.nodes -> NodeStates]
    /\ done \subseteq Nums

-----------------------------------------------------------------------------
(* The main thread.                                                          *)

HasResult(a) == \E i \in DOMAIN results : results[i] = <<a, a>>
Future(a) == \E i \in DOMAIN scan.futures : scan.futures[i] = a

Collected ==
    /\ main = "begin" => round = 0
    /\ main = "collect" => round < program.rounds
    /\ main = "end" => backend = "ended"
    /\ main # "collect" => \A a \in DOMAIN pc : pc[a] = 0
    /\ results \in Seq({<<a, a>> : a \in DOMAIN pc})
    /\ main = "collect" =>
         /\ scan.futures \in Seq(DOMAIN pc) /\ scan.i \in Nat
         /\ scan = [futures |-> scan.futures, names |-> scan.futures, i |-> scan.i]
         /\ scan.futures # <<>> => scan.i \in DOMAIN scan.futures
         /\ \A a \in DOMAIN pc : Future(a) \/ (HasResult(a) /\ Ended(a))
    /\ main \in {"run", "stop", "end"} /\ round > 0 => \A a \in DOMAIN pc : HasResult(a)

-----------------------------------------------------------------------------
(* The purpose IDs.                                                          *)

Key(e) == <<e[1], e[2].peer, e[2].id>>
Opened(e) == Key(e) \in DOMAIN purposeIds

\* A circuit is set up from both ends; only then is the socket used.
SetUp(e) == HasCircuit(circuits, e[1], e[2])
Ready(e) == Opened(e) /\ SetUp(e)

Ids == {purposeIds[key] : key \in DOMAIN purposeIds}

Purposes ==
    /\ purposeIds = [k \in DOMAIN purposeIds |-> purposeIds[k]]
    /\ \A k \in DOMAIN purposeIds : \E e \in AllEnds(program.code) : k = Key(e)
    /\ \A e \in AllEnds(program.code) : Opened(e) =>
          Opened(OtherEnd(e)) /\ purposeIds[Key(OtherEnd(e))] = purposeIds[Key(e)]
    /\ \A e, f \in AllEnds(program.code) :
          Opened(e) /\ Opened(f) /\ purposeIds[Key(e)] = purposeIds[Key(f)] =>
              f \in {e, OtherEnd(e)}
    /\ IsFiniteSet(Ids) /\ Ids = 0 .. Cardinality(Ids) - 1

Requests == creates \cup pairs \cup recvs
EndOf(x) == <<x.node, x.sck>>

Requested ==
    /\ \A x \in Requests :
          /\ x.peer = x.sck.peer
          /\ EndOf(x) \in Ends(program.code)
          /\ main # "end" => Ready(EndOf(x)) /\ x.purpose = purposeIds[Key(EndOf(x))]
    /\ \A x, y \in Requests :
          x.purpose = y.purpose <=> EndOf(y) \in {EndOf(x), OtherEnd(EndOf(x))}

-----------------------------------------------------------------------------
(* Sockets are open when they are used.                                      *)

\* Which are named in the steps that are left of a task.
SocketsIn(steps) ==
    {steps[i].sck : i \in {j \in DOMAIN steps : steps[j].kind \in {"create", "recv"}}}

\* A task or message, of a sequence, to open sck.
OpensIn(s, sck) == \E i \in DOMAIN s : s[i].kind = "open" /\ s[i].arg = sck

OpenOrTask(n, sck) == Ready(<<n, sck>>) \/ OpensIn(node[n].other, sck)
OpenBefore(n, i, sck) ==
    \/ OpenOrTask(n, sck)
    \/ \E k \in DOMAIN node[n].queue :
           k < i /\ node[n].queue[k].kind = "open" /\ node[n].queue[k].arg = sck
Promised(n, sck) == OpenOrTask(n, sck) \/ OpensIn(node[n].queue, sck)

RunsAlone(n) ==
    node[n].at = "run" => node[n].other = <<>> /\ node[n].task \in DOMAIN node[n].subs

\* What n's messages and tasks name are sockets of the programs.
Known(n) ==
    /\ \A i \in DOMAIN node[n].queue :
          /\ node[n].queue[i].kind = "open" => <<n, node[n].queue[i].arg>> \in Ends(program.code)
          /\ node[n].queue[i].kind = "subroutine" =>
                /\ node[n].queue[i].arg \in DOMAIN Code
                /\ \A sck \in SocketsOf(node[n].queue[i].arg) :
                      <<n, sck>> \in Ends(program.code)
    /\ \A i \in DOMAIN node[n].other : node[n].other[i].kind = "open" =>
          <<n, node[n].other[i].arg>> \in Ends(program.code)
    /\ \A i \in DOMAIN node[n].subs : \A sck \in SocketsIn(node[n].subs[i].steps) :
          <<n, sck>> \in Ends(program.code)

\* The sockets of a subroutine are open, or are opened before it gets its turn.
InTurn(n) ==
    /\ \A i \in DOMAIN node[n].queue : node[n].queue[i].kind = "subroutine" =>
          \A sck \in SocketsOf(node[n].queue[i].arg) : OpenBefore(n, i, sck)
    /\ \A i \in DOMAIN node[n].other :
          node[n].other[i].kind = "open" =>
             LET e == <<n, node[n].other[i].arg>>
             IN  /\ node[n].other[i].begun => Opened(e)
                 /\ node[n].other[i].finished => Ready(e)
    /\ \A i \in DOMAIN node[n].subs : \A sck \in SocketsIn(node[n].subs[i].steps) :
          OpenOrTask(n, sck)

\* So are those of the part of a program that was executed.
Past ==
    \A a \in DOMAIN pc : \A j \in DOMAIN program.code[a] :
        j < pc[a] /\ program.code[a][j].kind = "open" =>
            Promised(NodeOf[a], program.code[a][j].arg)

Ordered ==
    /\ \A n \in DOMAIN node : RunsAlone(n) /\ Known(n)
    /\ main # "end" => Past /\ \A n \in DOMAIN node : InTurn(n)

-----------------------------------------------------------------------------
(* The messages whose handling is awaited.                                   *)

\* num is of a message that was committed.
Committed(num) ==
    /\ num[1] \in DOMAIN pc
    /\ num[3] \in DOMAIN program.code[num[1]]
    /\ \/ num[2] < round
       \/ num[2] = round /\ main = "collect" /\ num[3] < pc[num[1]]

\* The operation it was committed for.
OpOf(num) == program.code[num[1]][num[3]]

Due(w) ==
    /\ Committed(w.num)
    /\ w.app = w.num[1]
    /\ OpOf(w.num).kind # "join"
    /\ w.msg = [app |-> w.app, kind |-> OpOf(w.num).kind, arg |-> OpOf(w.num).arg]
    /\ w.block = OpOf(w.num).block
    /\ w.block => main = "collect" /\ w.num[2] = round /\ pc[w.app] = w.num[3] + 1

Waits == \A w \in waiters : Due(w)

\* Somebody waits for message or task m of node n.
Awaited(n, m) ==
    /\ m.num \notin done
    /\ \E w \in waiters : w.num = m.num /\ w.msg = Bytes(m) /\ NodeOf[w.app] = n

\* Where a node has messages and tasks, and what is there.
Lane(n, l) == IF l = 1 THEN node[n].queue ELSE IF l = 2 THEN node[n].other ELSE node[n].subs
Slots(n) == UNION {{<<l, i>> : i \in DOMAIN Lane(n, l)} : l \in 1 .. 3}
Item(n, p) == Lane(n, p[1])[p[2]]

Held(n) ==
    /\ \A p \in Slots(n) : Awaited(n, Item(n, p))
    /\ \A p, q \in Slots(n) : Item(n, p).num = Item(n, q).num => p = q

\* A finished message is one that a thread waits for.
FinOwned(n) ==
    \A b \in node[n].fin : \E w \in waiters :
        w.msg = b /\ w.num \in done /\ NodeOf[w.app] = n

Unique == \A v, w \in waiters : v.msg = w.msg => v = w

Told(w) ==
    /\ w.seen => w.num \in done
    /\ w.num \in done => main = "end" \/ w.msg \in node[NodeOf[w.app]].fin

Tracked ==
    /\ \A num \in done : Committed(num)
    /\ Unique
    /\ \A w \in waiters : Told(w)
    /\ \A n \in DOMAIN node : Held(n) /\ FinOwned(n)
    /\ \A a \in DOMAIN pc : <<"KeyError", a>> \notin fault

-----------------------------------------------------------------------------
(* Functions, sequences and records that change in one place.                *)

(* A function whose value for one argument changes.                          *)
LEMMA OneChanges ==
    ASSUME NEW D, NEW S, NEW f \in [D -> S], NEW n \in D, NEW v \in S,
           NEW g, g = [f EXCEPT ![n] = v]
    PROVE  g \in [D -> S] /\ g[n] = v /\ \A m \in D : m # n => g[m] = f[m]
OBVIOUS

(* A sequence without its i-th element.                                      *)
LEMMA Removed ==
    ASSUME NEW S, NEW s \in Seq(S), NEW i \in DOMAIN s
    PROVE  /\ RemoveAt(s, i) \in Seq(S)
           /\ Len(RemoveAt(s, i)) = Len(s) - 1
           /\ \A j \in 1 .. Len(s) - 1 : RemoveAt(s, i)[j] = s[IF j < i THEN j ELSE j + 1]
<1> DEFINE front == SubSeq(s, 1, i - 1)
           rest == SubSeq(s, i + 1, Len(s))
<1>1. PICK n \in Nat : n = Len(s)
  OBVIOUS
<1>2. i \in 1 .. n /\ DOMAIN s = 1 .. n
  BY <1>1
<1>3. /\ front \in Seq(S) /\ Len(front) = i - 1
      /\ \A j \in 1 .. i - 1 : front[j] = s[j]
  BY <1>1, <1>2
<1>4. /\ rest \in Seq(S) /\ Len(rest) = n - i
      /\ \A j \in 1 .. n - i : rest[j] = s[j + i]
  BY <1>1, <1>2
<1>5. RemoveAt(s, i) = front \o rest
  BY DEF RemoveAt
<1> HIDE DEF front, rest
<1>6. /\ front \o rest \in Seq(S) /\ Len(front \o rest) = n - 1
      /\ \A j \in 1 .. n - 1 : (front \o rest)[j] =
             IF j =< i - 1 THEN front[j] ELSE rest[j - (i - 1)]
  <2>1. /\ front \o rest \in Seq(S)
        /\ Len(front \o rest) = Len(front) + Len(rest)
        /\ \A j \in 1 .. Len(front) + Len(rest) : (front \o rest)[j] =
               IF j =< Len(front) THEN front[j] ELSE rest[j - Len(front)]
    BY <1>3, <1>4, ConcatProperties, Zenon
  <2>2. Len(front) + Len(rest) = n - 1
    BY <1>2, <1>3, <1>4
  <2> QED
    BY <1>3, <2>1, <2>2
<1>7. ASSUME NEW j \in 1 .. n - 1
      PROVE  (front \o rest)[j] = s[IF j < i THEN j ELSE j + 1]
  <2>1. CASE j < i
    BY <1>2, <1>3, <1>6, <2>1
  <2>2. CASE ~(j < i)
    <3>1. j - (i - 1) \in 1 .. n - i /\ j - (i - 1) + i = j + 1
      BY <1>2, <2>2
    <3>2. rest[j - (i - 1)] = s[j + 1]
      BY <1>4, <3>1
    <3> QED
      BY <1>2, <1>6, <2>2, <3>2
  <2> QED
    BY <2>1, <2>2
<1> QED
  BY <1>1, <1>5, <1>6, <1>7

\* n's state becomes one with these queue, finished messages, other tasks,
\* subroutine tasks and place in the loop.
Becoming(n, queue, fin, other, subs, at) ==
    /\ node' \in [program.nodes -> NodeStates]
    /\ \A m \in program.nodes : m # n => node'[m] = node[m]
    /\ node'[n].queue = queue
    /\ node'[n].fin = fin
    /\ node'[n].other = other
    /\ node'[n].subs = subs
    /\ node'[n].at = at

(* The fields of a node's state.                                             *)
LEMMA NodeFields ==
    ASSUME Types, NEW n \in DOMAIN node
    PROVE  /\ n \in program.nodes /\ DOMAIN node = program.nodes
           /\ node[n] \in NodeStates
           /\ node[n].queue \in Seq(Messages) /\ node[n].fin \subseteq Contents
           /\ node[n].unfinished \in Int
           /\ node[n].other \in Seq(Tasks) /\ node[n].subs \in Seq(Tasks)
           /\ node[n].at \in {"off", "loop", "task", "run", "stopped"}
           /\ node[n].task \in Nat
BY DEF Types, NodeStates

(* A node's state changes.                                                   *)
LEMMA NodeBecomes ==
    ASSUME Types, NEW n \in DOMAIN node, NEW v \in NodeStates,
           node' = [node EXCEPT ![n] = v]
    PROVE  Becoming(n, v.queue, v.fin, v.other, v.subs, v.at) /\ node'[n].task = v.task
<1>1. node \in [program.nodes -> NodeStates] /\ n \in program.nodes
  BY NodeFields DEF Types
<1> HIDE DEF NodeStates
<1>2. /\ node' \in [program.nodes -> NodeStates] /\ node'[n] = v
      /\ \A m \in program.nodes : m # n => node'[m] = node[m]
  BY <1>1, OneChanges
<1> QED
  BY <1>2 DEF Becoming

-----------------------------------------------------------------------------
(* What each step of a handler makes of its node.                            *)

Places == {"off", "loop", "task", "run", "stopped"}

(* The handler goes to another place in its loop.                            *)
LEMMA GoesOnAt ==
    ASSUME Types, NEW n \in DOMAIN node, NEW at \in Places, node' = Set(n, "at", at)
    PROVE  /\ Becoming(n, node[n].queue, node[n].fin, node[n].other, node[n].subs, at)
           /\ node'[n].task = node[n].task
<1> DEFINE v == [node[n] EXCEPT !.at = at]
<1>1. /\ v \in NodeStates /\ v.queue = node[n].queue /\ v.fin = node[n].fin
      /\ v.other = node[n].other /\ v.subs = node[n].subs /\ v.at = at
      /\ v.task = node[n].task
  BY NodeFields DEF NodeStates, Places
<1>2. node' = [node EXCEPT ![n] = v]
  BY DEF Set
<1> HIDE DEF v
<1> QED
  BY <1>1, <1>2, NodeBecomes

(* Finished messages are marked or removed.                                  *)
LEMMA FinChanges ==
    ASSUME Types, NEW n \in DOMAIN node, NEW fin \in SUBSET Contents,
           node' = Set(n, "fin", fin)
    PROVE  /\ Becoming(n, node[n].queue, fin, node[n].other, node[n].subs, node[n].at)
           /\ node'[n].task = node[n].task
<1> DEFINE v == [node[n] EXCEPT !.fin = fin]
<1>1. /\ v \in NodeStates /\ v.queue = node[n].queue /\ v.fin = fin
      /\ v.other = node[n].other /\ v.subs = node[n].subs /\ v.at = node[n].at
      /\ v.task = node[n].task
  BY NodeFields DEF NodeStates, Places
<1>2. node' = [node EXCEPT ![n] = v]
  BY DEF Set
<1> HIDE DEF v
<1> QED
  BY <1>1, <1>2, NodeBecomes

(* A message is marked as finished.                                          *)
LEMMA Marked ==
    ASSUME Types, NEW n \in DOMAIN node, NEW h \in NodeStates,
           NEW m, m \in Messages \cup Tasks, MarkFinished(n, h, m)
    PROVE  /\ Becoming(n, h.queue, h.fin \cup {Bytes(m)}, h.other, h.subs, h.at)
           /\ node'[n].task = h.task
           /\ done' = done \cup {m.num} /\ m.num \in Nums
<1>1. Bytes(m) \in Contents /\ m.num \in Nums
  BY DEF Bytes, Contents, Messages, Tasks
<1> DEFINE fin == h.fin \cup {Bytes(m)}
           k == h.unfinished - 1
           v == [h EXCEPT !.fin = fin, !.unfinished = k]
<1>2. fin \in SUBSET Contents /\ k \in Int
  BY <1>1 DEF NodeStates
<1>3. node' = [node EXCEPT ![n] = v] /\ done' = done \cup {m.num}
  BY DEF MarkFinished
<1> HIDE DEF fin, k
<1>4. /\ v \in NodeStates /\ v.queue = h.queue /\ v.fin = fin
      /\ v.other = h.other /\ v.subs = h.subs /\ v.at = h.at
      /\ v.task = h.task
  BY <1>2 DEF NodeStates
<1> HIDE DEF v
<1>5. Becoming(n, v.queue, v.fin, v.other, v.subs, v.at) /\ node'[n].task = v.task
  BY <1>3, <1>4, NodeBecomes
<1> QED
  BY <1>1, <1>3, <1>4, <1>5 DEF fin

(* HandleInit: the message is done at once.                                  *)
LEMMA HandleInitBecomes ==
    ASSUME Types, NEW n \in DOMAIN node, HandleInit(n)
    PROVE  /\ node[n].queue # <<>> /\ node[n].at = "loop"
           /\ Head(node[n].queue) \in Messages /\ Tail(node[n].queue) \in Seq(Messages)
           /\ Head(node[n].queue).kind = "init"
           /\ Becoming(n, Tail(node[n].queue),
                       node[n].fin \cup {Bytes(Head(node[n].queue))},
                       node[n].other, node[n].subs, "task")
           /\ done' = done \cup {Head(node[n].queue).num}
<1> DEFINE m == Head(node[n].queue)
           rest == Tail(node[n].queue)
           h == [node[n] EXCEPT !.queue = rest, !.at = "task"]
<1>1. node[n].queue # <<>> /\ node[n].at = "loop" /\ MarkFinished(n, h, m) /\ m.kind = "init"
  BY DEF HandleInit, Handles
<1>2. m \in Messages /\ rest \in Seq(Messages)
  BY <1>1, NodeFields
<1> HIDE DEF m, rest
<1>3. /\ h \in NodeStates /\ h.queue = rest /\ h.fin = node[n].fin
      /\ h.other = node[n].other /\ h.subs = node[n].subs /\ h.at = "task"
  BY <1>2, NodeFields DEF NodeStates
<1> HIDE DEF h
<1>4. /\ Becoming(n, h.queue, h.fin \cup {Bytes(m)}, h.other, h.subs, h.at)
      /\ done' = done \cup {m.num}
  BY <1>1, <1>2, <1>3, Marked
<1> QED
  BY <1>1, <1>2, <1>3, <1>4 DEF m, rest

(* The steps of a subroutine with delays.                                    *)
LEMMA StepsType ==
    ASSUME MultiThreadAssumption, NEW s \in DOMAIN Code
    PROVE  Steps(s) \in Seq(AllSteps) /\ SocketsIn(Steps(s)) \subseteq SocketsOf(s)
<1> DEFINE delay == [kind |-> "delay"]
<1>1. PICK k \in Nat : k = Len(Code[s]) /\ DOMAIN Code[s] = 1 .. k
  BY DEF MultiThreadAssumption
<1>2. \A i \in 1 .. k : Code[s][i] \in AllSteps
  BY DEF AllSteps
<1>3. delay \in AllSteps
  BY DEF AllSteps
<1>4. CASE ~program.delays
  <2>1. Steps(s) = Code[s]
    BY <1>4 DEF Steps
  <2>2. Code[s] \in Seq(AllSteps)
    BY <1>1, <1>2 DEF MultiThreadAssumption
  <2> QED
    BY <2>1, <2>2 DEF SocketsIn, SocketsOf
<1>5. CASE program.delays
  <2> DEFINE t == [i \in 1 .. 2 * k + 1 |->
                      IF i = 1 \/ i % 2 = 0 THEN delay ELSE Code[s][i \div 2]]
  <2>1. Steps(s) = t
    BY <1>1, <1>5 DEF Steps
  <2>2. ASSUME NEW i \in 1 .. 2 * k + 1
        PROVE  t[i] = delay \/ \E j \in 1 .. k : t[i] = Code[s][j]
    <3>1. CASE i = 1 \/ i % 2 = 0
      BY <3>1
    <3>2. CASE ~(i = 1 \/ i % 2 = 0)
      <4>1. i \div 2 \in 1 .. k
        BY <1>1, <3>2
      <4> QED
        BY <3>2, <4>1
    <3> QED
      BY <3>1, <3>2
  <2>3. t \in Seq(AllSteps)
    BY <1>1, <1>2, <1>3, <2>2
  <2>4. DOMAIN t = 1 .. 2 * k + 1
    OBVIOUS
  <2> HIDE DEF t
  <2>5. SocketsIn(t) \subseteq SocketsOf(s)
    BY <1>1, <2>2, <2>4 DEF SocketsIn, SocketsOf
  <2> QED
    BY <2>1, <2>3, <2>5
<1> QED
  BY <1>4, <1>5

(* HandleMessage: a task for the message.                                    *)
LEMMA HandleMessageBecomes ==
    ASSUME Types, Ordered, MultiThreadAssumption, NEW n \in DOMAIN node, HandleMessage(n)
    PROVE  /\ node[n].queue # <<>> /\ node[n].at = "loop"
           /\ Head(node[n].queue) \in Messages /\ Tail(node[n].queue) \in Seq(Messages)
           /\ Task(Head(node[n].queue)) \in Tasks
           /\ \/ /\ Head(node[n].queue).kind = "subroutine"
                 /\ Becoming(n, Tail(node[n].queue), node[n].fin, node[n].other,
                             Append(node[n].subs, Task(Head(node[n].queue))), "task")
              \/ /\ Head(node[n].queue).kind \in {"open", "stop"}
                 /\ Becoming(n, Tail(node[n].queue), node[n].fin,
                             Append(node[n].other, Task(Head(node[n].queue))),
                             node[n].subs, "task")
<1> DEFINE m == Head(node[n].queue)
           rest == Tail(node[n].queue)
           list == IF m.kind = "subroutine" THEN "subs" ELSE "other"
<1>1. /\ node[n].queue # <<>> /\ node[n].at = "loop" /\ m.kind # "init"
      /\ node' = [node EXCEPT ![n] = [node[n] EXCEPT !.queue = rest, !.at = "task",
                                                     ![list] = Append(@, Task(m))]]
  BY DEF HandleMessage, Handles
<1>2. m \in Messages /\ rest \in Seq(Messages) /\ 1 \in DOMAIN node[n].queue
      /\ m = node[n].queue[1]
  BY <1>1, NodeFields
<1>3. Task(m) \in Tasks
  <2>1. m.kind = "subroutine" => m.arg \in DOMAIN Code
    BY <1>2 DEF Ordered, Known
  <2>2. (IF m.kind = "subroutine" THEN Steps(m.arg) ELSE <<>>) \in Seq(AllSteps)
    BY <2>1, StepsType
  <2> QED
    BY <1>2, <2>2 DEF Task, Tasks, Messages
<1> HIDE DEF m, rest
<1>4. CASE m.kind = "subroutine"
  <2> DEFINE subs == Append(node[n].subs, Task(m))
             v == [node[n] EXCEPT !.queue = rest, !.at = "task", !.subs = subs]
  <2>1. node' = [node EXCEPT ![n] = v]
    BY <1>1, <1>4
  <2>2. subs \in Seq(Tasks)
    BY <1>3, NodeFields
  <2> HIDE DEF subs
  <2>3. /\ v \in NodeStates /\ v.queue = rest /\ v.fin = node[n].fin
        /\ v.other = node[n].other /\ v.subs = subs /\ v.at = "task"
    BY <1>2, <2>2, NodeFields DEF NodeStates
  <2> HIDE DEF v
  <2>4. Becoming(n, v.queue, v.fin, v.other, v.subs, v.at)
    BY <2>1, <2>3, NodeBecomes
  <2> QED
    BY <1>1, <1>2, <1>3, <1>4, <2>3, <2>4 DEF m, rest, subs
<1>5. CASE m.kind # "subroutine"
  <2> DEFINE other == Append(node[n].other, Task(m))
             v == [node[n] EXCEPT !.queue = rest, !.at = "task", !.other = other]
  <2>1. node' = [node EXCEPT ![n] = v]
    BY <1>1, <1>5
  <2>2. other \in Seq(Tasks)
    BY <1>3, NodeFields
  <2> HIDE DEF other
  <2>3. /\ v \in NodeStates /\ v.queue = rest /\ v.fin = node[n].fin
        /\ v.other = other /\ v.subs = node[n].subs /\ v.at = "task"
    BY <1>2, <2>2, NodeFields DEF NodeStates
  <2> HIDE DEF v
  <2>4. Becoming(n, v.queue, v.fin, v.other, v.subs, v.at)
    BY <2>1, <2>3, NodeBecomes
  <2>5. m.kind \in {"open", "stop"}
    BY <1>1, <1>2, <1>5 DEF Messages, Kinds, m
  <2> QED
    BY <1>1, <1>2, <1>3, <2>3, <2>4, <2>5 DEF m, rest, other
<1> QED
  BY <1>4, <1>5

(* FinishOther: the first other task is done.                                *)
LEMMA FinishOtherBecomes ==
    ASSUME Types, NEW n \in DOMAIN node, FinishOther(n)
    PROVE  /\ node[n].other # <<>> /\ node[n].at = "task"
           /\ Head(node[n].other) \in Tasks /\ Tail(node[n].other) \in Seq(Tasks)
           /\ Head(node[n].other).finished
           /\ Becoming(n, node[n].queue, node[n].fin \cup {Bytes(Head(node[n].other))},
                       Tail(node[n].other), node[n].subs, "task")
           /\ done' = done \cup {Head(node[n].other).num}
<1> DEFINE m == Head(node[n].other)
           rest == Tail(node[n].other)
           h == [node[n] EXCEPT !.other = rest]
<1>1. node[n].other # <<>> /\ node[n].at = "task" /\ MarkFinished(n, h, m) /\ m.finished
  BY DEF FinishOther, Schedules
<1>2. m \in Tasks /\ rest \in Seq(Tasks)
  BY <1>1, NodeFields
<1> HIDE DEF m, rest
<1>3. /\ h \in NodeStates /\ h.queue = node[n].queue /\ h.fin = node[n].fin
      /\ h.other = rest /\ h.subs = node[n].subs /\ h.at = "task"
  BY <1>1, <1>2, NodeFields DEF NodeStates
<1> HIDE DEF h
<1>4. /\ Becoming(n, h.queue, h.fin \cup {Bytes(m)}, h.other, h.subs, h.at)
      /\ done' = done \cup {m.num}
  BY <1>1, <1>2, <1>3, Marked
<1> QED
  BY <1>1, <1>2, <1>3, <1>4 DEF m, rest

(* FinishSubroutine: the i-th subroutine task is done.                       *)
LEMMA FinishSubroutineBecomes ==
    ASSUME Types, NEW n \in DOMAIN node, NEW i \in DOMAIN node[n].subs, FinishSubroutine(n, i)
    PROVE  /\ node[n].subs[i] \in Tasks /\ node[n].at = "task"
           /\ RemoveAt(node[n].subs, i) \in Seq(Tasks)
           /\ Becoming(n, node[n].queue, node[n].fin \cup {Bytes(node[n].subs[i])},
                       node[n].other, RemoveAt(node[n].subs, i), "task")
           /\ done' = done \cup {node[n].subs[i].num}
<1> DEFINE m == node[n].subs[i]
           rest == RemoveAt(node[n].subs, i)
           h == [node[n] EXCEPT !.subs = rest]
<1>1. node[n].at = "task" /\ MarkFinished(n, h, m)
  BY DEF FinishSubroutine, OnlySubroutines, Schedules
<1>2. m \in Tasks /\ rest \in Seq(Tasks)
  <2>1. node[n].subs \in Seq(Tasks)
    BY NodeFields
  <2>2. m \in Tasks
    BY <2>1
  <2>3. rest \in Seq(Tasks)
    BY <2>1, Removed
  <2> QED
    BY <2>2, <2>3
<1> HIDE DEF m, rest
<1>3. /\ h \in NodeStates /\ h.queue = node[n].queue /\ h.fin = node[n].fin
      /\ h.other = node[n].other /\ h.subs = rest /\ h.at = "task"
  BY <1>1, <1>2, NodeFields DEF NodeStates
<1> HIDE DEF h
<1>4. /\ Becoming(n, h.queue, h.fin \cup {Bytes(m)}, h.other, h.subs, h.at)
      /\ done' = done \cup {m.num}
  BY <1>1, <1>2, <1>3, Marked
<1> QED
  BY <1>1, <1>2, <1>3, <1>4 DEF m, rest

(* A task with another status or with fewer steps.                           *)
SameTask(t, u) == t.num = u.num /\ t.app = u.app /\ t.kind = u.kind /\ t.arg = u.arg

(* RunsOther: the first other task has begun and perhaps ended.              *)
LEMMA RunsOtherBecomes ==
    ASSUME Types, NEW n \in DOMAIN node, NEW finished \in BOOLEAN,
           node[n].other # <<>>, RunsOther(n, finished)
    PROVE  \E t \in Tasks :
              /\ SameTask(t, Head(node[n].other))
              /\ t.begun /\ t.finished = finished
              /\ Becoming(n, node[n].queue, node[n].fin, [node[n].other EXCEPT ![1] = t],
                          node[n].subs, "loop")
<1> DEFINE h == Head(node[n].other)
           t == [h EXCEPT !.begun = TRUE, !.finished = finished]
           other == [node[n].other EXCEPT ![1] = t]
           v == [node[n] EXCEPT !.other = other, !.at = "loop"]
<1>1. node' = [node EXCEPT ![n] = v]
  BY DEF RunsOther
<1>2. h \in Tasks
  BY NodeFields
<1> HIDE DEF h
<1>3. t \in Tasks /\ SameTask(t, h) /\ t.begun /\ t.finished = finished
  BY <1>2 DEF Tasks, SameTask
<1> HIDE DEF t
<1>4. other \in Seq(Tasks)
  BY <1>3, NodeFields
<1> HIDE DEF other
<1>5. /\ v \in NodeStates /\ v.queue = node[n].queue /\ v.fin = node[n].fin
      /\ v.other = other /\ v.subs = node[n].subs /\ v.at = "loop"
  BY <1>4, NodeFields DEF NodeStates
<1> HIDE DEF v
<1>6. Becoming(n, v.queue, v.fin, v.other, v.subs, v.at)
  BY <1>1, <1>5, NodeBecomes
<1> QED
  BY <1>3, <1>5, <1>6 DEF h, other

(* Becomes: the running task has gone on.                                    *)
LEMMA RunningBecomes ==
    ASSUME Types, NEW n \in DOMAIN node, node[n].task \in DOMAIN node[n].subs,
           NEW t \in Tasks, NEW at \in {"loop", "run"}, Becomes(n, t, at)
    PROVE  /\ Becoming(n, node[n].queue, node[n].fin, node[n].other,
                       [node[n].subs EXCEPT ![node[n].task] = t], at)
           /\ node'[n].task = node[n].task
<1> DEFINE subs == [node[n].subs EXCEPT ![node[n].task] = t]
           v == [node[n] EXCEPT !.subs = subs, !.at = at]
<1>1. node' = [node EXCEPT ![n] = v]
  BY DEF Becomes
<1>2. subs \in Seq(Tasks)
  BY NodeFields
<1> HIDE DEF subs
<1>3. /\ v \in NodeStates /\ v.queue = node[n].queue /\ v.fin = node[n].fin
      /\ v.other = node[n].other /\ v.subs = subs /\ v.at = at /\ v.task = node[n].task
  BY <1>2, NodeFields DEF NodeStates
<1> HIDE DEF v
<1>4. Becoming(n, v.queue, v.fin, v.other, v.subs, v.at) /\ node'[n].task = v.task
  BY <1>1, <1>3, NodeBecomes
<1> QED
  BY <1>3, <1>4 DEF subs

(* PickSubroutine: the i-th subroutine task is the running one.              *)
LEMMA PickBecomes ==
    ASSUME Types, NEW n \in DOMAIN node, NEW i \in DOMAIN node[n].subs, PickSubroutine(n, i)
    PROVE  /\ node[n].other = <<>>
           /\ Becoming(n, node[n].queue, node[n].fin, node[n].other, node[n].subs, "run")
           /\ node'[n].task = i
<1> DEFINE v == [node[n] EXCEPT !.at = "run", !.task = i]
<1>1. node' = [node EXCEPT ![n] = v] /\ node[n].other = <<>>
  BY DEF PickSubroutine, OnlySubroutines
<1>2. i \in Nat
  BY NodeFields
<1>3. /\ v \in NodeStates /\ v.queue = node[n].queue /\ v.fin = node[n].fin
      /\ v.other = node[n].other /\ v.subs = node[n].subs /\ v.at = "run" /\ v.task = i
  BY <1>2, NodeFields DEF NodeStates
<1> HIDE DEF v
<1> QED
  BY <1>1, <1>3, NodeBecomes

-----------------------------------------------------------------------------
(* The order of sockets and subroutines.                                     *)

(* Everything but n is as it was, and no socket is closed.                   *)
OnlyNode(n) ==
    /\ program' = program /\ pc' = pc /\ main' = main
    /\ node' \in [program.nodes -> NodeStates]
    /\ \A m \in program.nodes : m # n => node'[m] = node[m]
    /\ \A e : Opened(e) => Opened(e)'
    /\ \A e : Ready(e) => Ready(e)'

(* A node that is as it was.                                                 *)
LEMMA SameNode ==
    ASSUME NEW m, node'[m] = node[m], program' = program,
           \A e : Opened(e) => Opened(e)', \A e : Ready(e) => Ready(e)'
    PROVE  /\ RunsAlone(m) => RunsAlone(m)'
           /\ Known(m) => Known(m)'
           /\ InTurn(m) => InTurn(m)'
           /\ \A sck : Promised(m, sck) => Promised(m, sck)'
<1>1. \A sck : OpenOrTask(m, sck) => OpenOrTask(m, sck)'
  BY DEF OpenOrTask, OpensIn
<1>2. \A i, sck : OpenBefore(m, i, sck) => OpenBefore(m, i, sck)'
  BY <1>1 DEF OpenBefore
<1>3. InTurn(m) => InTurn(m)'
  BY <1>1, <1>2 DEF InTurn
<1>4. \A sck : Promised(m, sck) => Promised(m, sck)'
  BY <1>1 DEF Promised, OpensIn
<1> QED
  BY <1>3, <1>4 DEF RunsAlone, Known

(* What is to be shown of the node of a step.                                *)
LEMMA OrderedKept ==
    ASSUME Types, Ordered, MultiThreadAssumption, NEW n \in DOMAIN node, OnlyNode(n),
           RunsAlone(n)', Known(n)',
           main # "end" => InTurn(n)' /\ \A sck : Promised(n, sck) => Promised(n, sck)'
    PROVE  Ordered'
<1>1. /\ DOMAIN node = program.nodes /\ DOMAIN node' = program.nodes
      /\ DOMAIN pc = DOMAIN program.code
  BY DEF Types, OnlyNode
<1>2. \A m \in program.nodes : RunsAlone(m)' /\ Known(m)'
  BY <1>1, SameNode DEF OnlyNode, Ordered
<1>3. ASSUME main # "end"
      PROVE  Past' /\ \A m \in program.nodes : InTurn(m)'
  <2>1. \A m \in program.nodes : InTurn(m)'
    BY <1>1, <1>3, SameNode DEF OnlyNode, Ordered
  <2>2. \A m \in program.nodes : \A sck : Promised(m, sck) => Promised(m, sck)'
    BY <1>1, <1>3, SameNode DEF OnlyNode
  <2>3. \A a \in DOMAIN pc : NodeOf[a] \in program.nodes
    BY <1>1 DEF Types, MultiThreadAssumption
  <2>4. Past'
    BY <1>3, <2>2, <2>3 DEF Ordered, Past, OnlyNode
  <2> QED
    BY <2>1, <2>4
<1> QED
  BY <1>1, <1>2, <1>3 DEF Ordered, OnlyNode

(* A step that changes no queue and no list of tasks.                        *)
LEMMA OrderedSameLists ==
    ASSUME Types, Ordered, MultiThreadAssumption, NEW n \in DOMAIN node, OnlyNode(n),
           node'[n].queue = node[n].queue, node'[n].other = node[n].other,
           node'[n].subs = node[n].subs,
           RunsAlone(n)'
    PROVE  Ordered'
<1>1. Known(n)'
  BY DEF Known, Ordered, OnlyNode
<1>2. \A sck : OpenOrTask(n, sck) => OpenOrTask(n, sck)'
  BY DEF OnlyNode, OpenOrTask
<1>3. \A sck : Promised(n, sck) => Promised(n, sck)'
  BY <1>2 DEF Promised
<1>4. \A i, sck : OpenBefore(n, i, sck) => OpenBefore(n, i, sck)'
  BY <1>2 DEF OpenBefore
<1>5. main # "end" => InTurn(n)'
  BY <1>2, <1>4 DEF Ordered, InTurn, OnlyNode
<1> QED
  BY <1>1, <1>3, <1>5, OrderedKept

(* The head of n's queue is taken.                                           *)
LEMMA TakesHead ==
    ASSUME Types, NEW n \in DOMAIN node, node[n].queue # <<>>,
           node'[n].queue = Tail(node[n].queue),
           \A sck : OpenOrTask(n, sck) => OpenOrTask(n, sck)',
           NEW m, m = Head(node[n].queue), m.kind = "open" => OpenOrTask(n, m.arg)'
    PROVE  /\ \A i \in DOMAIN node'[n].queue :
                 i + 1 \in DOMAIN node[n].queue /\ node'[n].queue[i] = node[n].queue[i + 1]
           /\ \A i \in DOMAIN node'[n].queue : \A sck :
                 OpenBefore(n, i + 1, sck) => OpenBefore(n, i, sck)'
           /\ \A sck : Promised(n, sck) => Promised(n, sck)'
<1>1. PICK q \in Seq(Messages) : q = node[n].queue
  BY NodeFields
<1>2. PICK k \in Nat : k = Len(q) /\ DOMAIN q = 1 .. k /\ k > 0
  BY <1>1
<1>3. /\ DOMAIN Tail(q) = 1 .. k - 1
      /\ \A i \in 1 .. k - 1 : Tail(q)[i] = q[i + 1]
      /\ Head(q) = q[1]
  BY <1>1, <1>2
<1>4. \A i \in DOMAIN node'[n].queue :
          i + 1 \in DOMAIN node[n].queue /\ node'[n].queue[i] = node[n].queue[i + 1]
  BY <1>1, <1>2, <1>3
<1>5. ASSUME NEW sck, NEW i \in DOMAIN q, q[i].kind = "open", q[i].arg = sck
      PROVE  \/ OpenOrTask(n, sck)'
             \/ i - 1 \in 1 .. k - 1 /\ Tail(q)[i - 1] = q[i]
  <2>1. CASE i = 1
    <3>1. m = q[i]
      BY <1>1, <1>3, <2>1
    <3> QED
      BY <1>5, <3>1
  <2>2. CASE i # 1
    <3>1. i - 1 \in 1 .. k - 1 /\ (i - 1) + 1 = i
      BY <1>2, <2>2
    <3> QED
      BY <1>3, <3>1
  <2> QED
    BY <2>1, <2>2
<1>6. ASSUME NEW i \in DOMAIN node'[n].queue, NEW sck, OpenBefore(n, i + 1, sck)
      PROVE  OpenBefore(n, i, sck)'
  <2>1. CASE OpenOrTask(n, sck)
    BY <2>1 DEF OpenBefore
  <2>2. CASE \E j \in DOMAIN q : j < i + 1 /\ q[j].kind = "open" /\ q[j].arg = sck
    <3>1. PICK j \in DOMAIN q : j < i + 1 /\ q[j].kind = "open" /\ q[j].arg = sck
      BY <2>2
    <3>2. CASE OpenOrTask(n, sck)'
      BY <3>2 DEF OpenBefore
    <3>3. CASE j - 1 \in 1 .. k - 1 /\ Tail(q)[j - 1] = q[j]
      <4>1. /\ j - 1 \in DOMAIN node'[n].queue /\ j - 1 < i
            /\ node'[n].queue[j - 1] = q[j]
        BY <1>1, <1>2, <1>3, <3>1, <3>3
      <4> QED
        BY <3>1, <4>1 DEF OpenBefore
    <3> QED
      BY <1>5, <3>1, <3>2, <3>3
  <2> QED
    BY <1>1, <1>6, <2>1, <2>2 DEF OpenBefore
<1>7. ASSUME NEW sck, Promised(n, sck)
      PROVE  Promised(n, sck)'
  <2>1. CASE OpenOrTask(n, sck)
    BY <2>1 DEF Promised
  <2>2. CASE OpensIn(q, sck)
    <3>1. PICK j \in DOMAIN q : q[j].kind = "open" /\ q[j].arg = sck
      BY <2>2 DEF OpensIn
    <3>2. CASE j - 1 \in 1 .. k - 1 /\ Tail(q)[j - 1] = q[j]
      BY <1>1, <1>3, <3>1, <3>2 DEF Promised, OpensIn
    <3> QED
      BY <1>5, <3>1, <3>2 DEF Promised
  <2> QED
    BY <1>1, <1>7, <2>1, <2>2 DEF Promised
<1> QED
  BY <1>4, <1>6, <1>7

(* HandleInit: the message is not about a socket.                            *)
LEMMA HandleInitOrdered ==
    ASSUME Types, Ordered, MultiThreadAssumption, NEW n \in DOMAIN node,
           HandleInit(n), OnlyNode(n)
    PROVE  Ordered'
<1>1. /\ node[n].queue # <<>> /\ Head(node[n].queue).kind = "init"
      /\ node'[n].queue = Tail(node[n].queue) /\ node'[n].other = node[n].other
      /\ node'[n].subs = node[n].subs /\ node'[n].at = "task"
  BY HandleInitBecomes DEF Becoming
<1>2. \A sck : OpenOrTask(n, sck) => OpenOrTask(n, sck)'
  BY <1>1 DEF OnlyNode, OpenOrTask
<1>3. /\ \A i \in DOMAIN node'[n].queue :
            i + 1 \in DOMAIN node[n].queue /\ node'[n].queue[i] = node[n].queue[i + 1]
      /\ \A i \in DOMAIN node'[n].queue : \A sck :
            OpenBefore(n, i + 1, sck) => OpenBefore(n, i, sck)'
      /\ \A sck : Promised(n, sck) => Promised(n, sck)'
  <2>1. PICK m : m = Head(node[n].queue)
    OBVIOUS
  <2> QED
    BY <1>1, <1>2, <2>1, TakesHead
<1>4. RunsAlone(n)'
  BY <1>1 DEF RunsAlone
<1>5. Known(n)'
  BY <1>1, <1>3 DEF Known, Ordered, OnlyNode
<1>6. main # "end" => InTurn(n)'
  BY <1>1, <1>2, <1>3 DEF InTurn, Ordered, OnlyNode
<1> QED
  BY <1>3, <1>4, <1>5, <1>6, OrderedKept

(* HandleMessage: the sockets before a subroutine are those of other tasks.  *)
LEMMA HandleMessageOrdered ==
    ASSUME Types, Ordered, MultiThreadAssumption, NEW n \in DOMAIN node,
           HandleMessage(n), OnlyNode(n)
    PROVE  Ordered'
<1>0. PICK m : m = Head(node[n].queue)
  OBVIOUS
<1>1. /\ node[n].queue # <<>> /\ m \in Messages
      /\ node'[n].queue = Tail(node[n].queue) /\ node'[n].at = "task"
      /\ Task(m) \in Tasks
      /\ \/ /\ m.kind = "subroutine"
            /\ node'[n].other = node[n].other
            /\ node'[n].subs = Append(node[n].subs, Task(m))
         \/ /\ m.kind \in {"open", "stop"}
            /\ node'[n].other = Append(node[n].other, Task(m))
            /\ node'[n].subs = node[n].subs
  BY <1>0, HandleMessageBecomes DEF Becoming
<1>2. 1 \in DOMAIN node[n].queue /\ m = node[n].queue[1]
  BY <1>0, <1>1, NodeFields
<1>3. /\ \A sck : OpensIn(node[n].other, sck) => OpensIn(node'[n].other, sck)
      /\ m.kind = "open" => OpensIn(node'[n].other, m.arg)
  <2>1. PICK s \in Seq(Tasks) : s = node[n].other
    BY NodeFields
  <2>2. /\ \A sck : OpensIn(s, sck) => OpensIn(Append(s, Task(m)), sck)
        /\ m.kind = "open" => OpensIn(Append(s, Task(m)), m.arg)
    <3>1. /\ DOMAIN Append(s, Task(m)) = 1 .. Len(s) + 1 /\ DOMAIN s = 1 .. Len(s)
          /\ \A i \in DOMAIN s : i \in 1 .. Len(s) + 1 /\ Append(s, Task(m))[i] = s[i]
          /\ Len(s) + 1 \in 1 .. Len(s) + 1
          /\ Append(s, Task(m))[Len(s) + 1] = Task(m)
      BY <1>1, <2>1
    <3>2. Task(m).kind = m.kind /\ Task(m).arg = m.arg
      BY DEF Task
    <3> QED
      BY <3>1, <3>2 DEF OpensIn
  <2> QED
    BY <1>1, <2>1, <2>2
<1>4. /\ \A sck : OpenOrTask(n, sck) => OpenOrTask(n, sck)'
      /\ m.kind = "open" => OpenOrTask(n, m.arg)'
  BY <1>3 DEF OpenOrTask, OnlyNode
<1>5. /\ \A i \in DOMAIN node'[n].queue :
            i + 1 \in DOMAIN node[n].queue /\ node'[n].queue[i] = node[n].queue[i + 1]
      /\ \A i \in DOMAIN node'[n].queue : \A sck :
            OpenBefore(n, i + 1, sck) => OpenBefore(n, i, sck)'
      /\ \A sck : Promised(n, sck) => Promised(n, sck)'
  BY <1>0, <1>1, <1>4, TakesHead
<1>6. RunsAlone(n)'
  BY <1>1 DEF RunsAlone
<1>7. ASSUME NEW i \in DOMAIN node'[n].other
      PROVE  \/ i \in DOMAIN node[n].other /\ node'[n].other[i] = node[n].other[i]
             \/ node'[n].other[i] = Task(m) /\ m.kind \in {"open", "stop"}
  BY <1>1, <1>7, NodeFields
<1>8. ASSUME NEW i \in DOMAIN node'[n].subs
      PROVE  \/ i \in DOMAIN node[n].subs /\ node'[n].subs[i] = node[n].subs[i]
             \/ node'[n].subs[i] = Task(m) /\ m.kind = "subroutine"
  <2>1. PICK s \in Seq(Tasks) : s = node[n].subs
    BY NodeFields
  <2>2. ASSUME NEW j \in DOMAIN Append(s, Task(m))
        PROVE  \/ j \in DOMAIN s /\ Append(s, Task(m))[j] = s[j]
               \/ Append(s, Task(m))[j] = Task(m)
    BY <1>1, <2>1
  <2> QED
    BY <1>1, <1>8, <2>1, <2>2
<1>9. ASSUME m.kind = "subroutine", NEW sck \in SocketsIn(Task(m).steps)
      PROVE  /\ <<n, sck>> \in Ends(program.code)
             /\ main # "end" => OpenOrTask(n, sck)'
  <2>1. m.arg \in DOMAIN Code
    BY <1>2, <1>9 DEF Ordered, Known
  <2>2. sck \in SocketsOf(m.arg)
    BY <1>9, <2>1, StepsType DEF Task
  <2>3. <<n, sck>> \in Ends(program.code)
    BY <1>2, <1>9, <2>2 DEF Ordered, Known
  <2>4. ASSUME main # "end"  PROVE  OpenOrTask(n, sck)'
    <3>1. OpenBefore(n, 1, sck)
      BY <1>2, <1>9, <2>2, <2>4 DEF Ordered, InTurn
    <3>2. \A k \in DOMAIN node[n].queue : ~(k < 1)
      BY NodeFields
    <3> QED
      BY <1>4, <3>1, <3>2 DEF OpenBefore
  <2> QED
    BY <2>3, <2>4
<1>10. Known(n)'
  <2>1. /\ Known(n) /\ program' = program
        /\ m.kind = "open" => <<n, m.arg>> \in Ends(program.code)
    BY <1>2 DEF Ordered, Known, OnlyNode
  <2>2. Task(m).kind = m.kind /\ Task(m).arg = m.arg
    BY DEF Task
  <2> QED
    BY <1>5, <1>7, <1>8, <1>9, <2>1, <2>2 DEF Known
<1>11. ASSUME main # "end"  PROVE  InTurn(n)'
  <2>1. /\ InTurn(n)
        /\ \A e : Opened(e) => Opened(e)'
        /\ \A e : Ready(e) => Ready(e)'
    BY <1>11 DEF Ordered, OnlyNode
  <2>2. ~Task(m).begun /\ ~Task(m).finished
    BY DEF Task
  <2> QED
    BY <1>4, <1>5, <1>7, <1>8, <1>9, <1>11, <2>1, <2>2 DEF InTurn
<1> QED
  BY <1>5, <1>6, <1>10, <1>11, OrderedKept

(* A sequence without its head.                                              *)
LEMMA TailFacts ==
    ASSUME NEW S, NEW s \in Seq(S), s # <<>>
    PROVE  /\ DOMAIN s = 1 .. Len(s) /\ DOMAIN Tail(s) = 1 .. Len(s) - 1
           /\ \A i \in DOMAIN Tail(s) : i + 1 \in DOMAIN s /\ Tail(s)[i] = s[i + 1]
           /\ \A i \in DOMAIN s : i = 1 \/ (i - 1 \in DOMAIN Tail(s) /\ Tail(s)[i - 1] = s[i])
           /\ s[1] = Head(s) /\ 1 \in DOMAIN s
<1>1. PICK k \in Nat : k = Len(s) /\ DOMAIN s = 1 .. k /\ k > 0
  OBVIOUS
<1>2. /\ DOMAIN Tail(s) = 1 .. k - 1
      /\ \A i \in 1 .. k - 1 : Tail(s)[i] = s[i + 1]
      /\ Head(s) = s[1]
  BY <1>1
<1>3. ASSUME NEW i \in DOMAIN s, i # 1
      PROVE  i - 1 \in DOMAIN Tail(s) /\ Tail(s)[i - 1] = s[i]
  <2>1. i - 1 \in 1 .. k - 1 /\ (i - 1) + 1 = i
    BY <1>1, <1>3
  <2> QED
    BY <1>2, <2>1
<1> QED
  BY <1>1, <1>2, <1>3

(* FinishOther: a socket whose task is done is open.                         *)
LEMMA FinishOtherOrdered ==
    ASSUME Types, Ordered, MultiThreadAssumption, NEW n \in DOMAIN node,
           FinishOther(n), OnlyNode(n), main # "end"
    PROVE  Ordered'
<1>1. PICK s \in Seq(Tasks) : s = node[n].other
  BY NodeFields
<1>2. /\ s # <<>> /\ Head(s).finished
      /\ node'[n].queue = node[n].queue /\ node'[n].other = Tail(s)
      /\ node'[n].subs = node[n].subs /\ node'[n].at = "task"
  BY <1>1, FinishOtherBecomes DEF Becoming
<1>3. /\ \A i \in DOMAIN Tail(s) : i + 1 \in DOMAIN s /\ Tail(s)[i] = s[i + 1]
      /\ \A i \in DOMAIN s : i = 1 \/ (i - 1 \in DOMAIN Tail(s) /\ Tail(s)[i - 1] = s[i])
      /\ s[1] = Head(s) /\ 1 \in DOMAIN s
  BY <1>1, <1>2, TailFacts
<1>4. /\ InTurn(n) /\ Known(n) /\ program' = program
      /\ \A e : Opened(e) => Opened(e)'
      /\ \A e : Ready(e) => Ready(e)'
  BY DEF Ordered, OnlyNode
<1>5. s[1].kind = "open" => Ready(<<n, s[1].arg>>)
  BY <1>1, <1>2, <1>3, <1>4 DEF InTurn
<1>6. ASSUME NEW sck, OpenOrTask(n, sck)  PROVE  OpenOrTask(n, sck)'
  <2>1. CASE Ready(<<n, sck>>)
    BY <1>4, <2>1 DEF OpenOrTask
  <2>2. CASE OpensIn(s, sck)
    <3>1. PICK i \in DOMAIN s : s[i].kind = "open" /\ s[i].arg = sck
      BY <2>2 DEF OpensIn
    <3>2. CASE i = 1
      BY <1>4, <1>5, <3>1, <3>2 DEF OpenOrTask
    <3>3. CASE i - 1 \in DOMAIN Tail(s) /\ Tail(s)[i - 1] = s[i]
      <4>1. OpensIn(node'[n].other, sck)
        BY <1>2, <3>1, <3>3 DEF OpensIn
      <4> QED
        BY <4>1 DEF OpenOrTask, OpensIn
    <3> QED
      BY <1>3, <3>2, <3>3
  <2> QED
    BY <1>1, <1>6, <2>1, <2>2 DEF OpenOrTask
<1>7. \A i, sck : OpenBefore(n, i, sck) => OpenBefore(n, i, sck)'
  BY <1>2, <1>6 DEF OpenBefore
<1>8. \A sck : Promised(n, sck) => Promised(n, sck)'
  BY <1>2, <1>6 DEF Promised
<1>9. \A i \in DOMAIN node'[n].other :
          i + 1 \in DOMAIN node[n].other /\ node'[n].other[i] = node[n].other[i + 1]
  BY <1>1, <1>2, <1>3
<1>10. InTurn(n)'
  BY <1>2, <1>4, <1>6, <1>7, <1>9 DEF InTurn
<1>11. Known(n)'
  BY <1>2, <1>4, <1>9 DEF Known
<1>12. RunsAlone(n)'
  BY <1>2 DEF RunsAlone
<1> QED
  BY <1>8, <1>10, <1>11, <1>12, OrderedKept

(* An other task begins or goes on: a socket is open as soon as it begins,   *)
(* and its circuit set up when it finishes.                                  *)
LEMMA RunsOtherOrdered ==
    ASSUME Types, Ordered, MultiThreadAssumption, NEW n \in DOMAIN node,
           node[n].other # <<>>, NEW finished \in BOOLEAN, RunsOther(n, finished), OnlyNode(n),
           main # "end",
           NEW sck0, sck0 = Head(node[n].other).arg,
           Head(node[n].other).kind = "open" =>
               Opened(<<n, sck0>>)' /\ (finished => SetUp(<<n, sck0>>)')
    PROVE  Ordered'
<1>1. PICK s \in Seq(Tasks) : s = node[n].other
  BY NodeFields
<1>2. PICK t \in Tasks :
          /\ SameTask(t, Head(s)) /\ t.finished = finished
          /\ Becoming(n, node[n].queue, node[n].fin, [node[n].other EXCEPT ![1] = t],
                      node[n].subs, "loop")
  BY <1>1, RunsOtherBecomes
<1>3. /\ node'[n].queue = node[n].queue /\ node'[n].other = [s EXCEPT ![1] = t]
      /\ node'[n].subs = node[n].subs /\ node'[n].at = "loop"
  BY <1>1, <1>2 DEF Becoming
<1>4. /\ DOMAIN node'[n].other = DOMAIN s /\ 1 \in DOMAIN s /\ s[1] = Head(s)
      /\ node'[n].other[1] = t
      /\ \A i \in DOMAIN s : i # 1 => node'[n].other[i] = s[i]
  BY <1>1, <1>3
<1>5. /\ InTurn(n) /\ Known(n) /\ program' = program
      /\ \A e : Opened(e) => Opened(e)'
      /\ \A e : Ready(e) => Ready(e)'
  BY DEF Ordered, OnlyNode
<1>6. t.kind = s[1].kind /\ t.arg = s[1].arg
  BY <1>2, <1>4 DEF SameTask
<1>7. \A sck : OpenOrTask(n, sck) => OpenOrTask(n, sck)'
  BY <1>1, <1>4, <1>5, <1>6 DEF OpenOrTask, OpensIn
<1>8. \A i, sck : OpenBefore(n, i, sck) => OpenBefore(n, i, sck)'
  BY <1>3, <1>7 DEF OpenBefore
<1>9. \A sck : Promised(n, sck) => Promised(n, sck)'
  BY <1>3, <1>7 DEF Promised
<1>10. t.kind = "open" => Opened(<<n, t.arg>>)' /\ (t.finished => Ready(<<n, t.arg>>)')
  BY <1>1, <1>2, <1>4, <1>6 DEF Ready
<1>11. ASSUME NEW i \in DOMAIN node'[n].other, node'[n].other[i].kind = "open",
              NEW sck, sck = node'[n].other[i].arg
       PROVE  /\ node'[n].other[i].begun => Opened(<<n, sck>>)'
              /\ node'[n].other[i].finished => Ready(<<n, sck>>)'
  <2>1. CASE i = 1
    <3>1. t.arg = sck /\ t.kind = "open" /\ node'[n].other[i] = t
      BY <1>4, <1>11, <2>1
    <3> QED
      BY <1>10, <3>1
  <2>2. CASE i # 1
    <3>1. i \in DOMAIN s /\ s[i].kind = "open" /\ s[i].arg = sck /\ node'[n].other[i] = s[i]
      BY <1>4, <1>11, <2>2
    <3>2. /\ s[i].begun => Opened(<<n, sck>>)
          /\ s[i].finished => Ready(<<n, sck>>)
      BY <1>1, <1>5, <3>1 DEF InTurn
    <3> QED
      BY <1>5, <3>1, <3>2
  <2> QED
    BY <2>1, <2>2
<1>12. InTurn(n)'
  BY <1>3, <1>5, <1>7, <1>8, <1>11 DEF InTurn
<1>13. Known(n)'
  <2>1. ASSUME NEW i \in DOMAIN node'[n].other, node'[n].other[i].kind = "open"
        PROVE  <<n, node'[n].other[i].arg>> \in Ends(program.code)
    <3>1. /\ i \in DOMAIN s /\ s[i].kind = "open"
          /\ node'[n].other[i].arg = s[i].arg
      BY <1>4, <1>6, <2>1
    <3> QED
      BY <1>1, <1>5, <3>1 DEF Known
  <2> QED
    BY <1>3, <1>5, <2>1 DEF Known
<1>14. RunsAlone(n)'
  BY <1>3 DEF RunsAlone
<1> QED
  BY <1>9, <1>12, <1>13, <1>14, OrderedKept

(* Other subroutine tasks, with no more sockets.                             *)
LEMMA SubsOrdered ==
    ASSUME Types, Ordered, MultiThreadAssumption, NEW n \in DOMAIN node, OnlyNode(n),
           node'[n].queue = node[n].queue, node'[n].other = node[n].other,
           \A i \in DOMAIN node'[n].subs : \E j \in DOMAIN node[n].subs :
               SocketsIn(node'[n].subs[i].steps) \subseteq SocketsIn(node[n].subs[j].steps),
           RunsAlone(n)'
    PROVE  Ordered'
<1>1. Known(n)'
  BY DEF Known, Ordered, OnlyNode
<1>2. \A sck : OpenOrTask(n, sck) => OpenOrTask(n, sck)'
  BY DEF OnlyNode, OpenOrTask
<1>3. \A sck : Promised(n, sck) => Promised(n, sck)'
  BY <1>2 DEF Promised
<1>4. \A i, sck : OpenBefore(n, i, sck) => OpenBefore(n, i, sck)'
  BY <1>2 DEF OpenBefore
<1>5. main # "end" => InTurn(n)'
  BY <1>2, <1>4 DEF Ordered, InTurn, OnlyNode
<1> QED
  BY <1>1, <1>3, <1>5, OrderedKept

(* FinishSubroutine takes a task away.                                       *)
LEMMA FinishSubroutineOrdered ==
    ASSUME Types, Ordered, MultiThreadAssumption, NEW n \in DOMAIN node,
           NEW i \in DOMAIN node[n].subs, FinishSubroutine(n, i), OnlyNode(n)
    PROVE  Ordered'
<1>1. PICK s \in Seq(Tasks) : s = node[n].subs
  BY NodeFields
<1>2. /\ node'[n].queue = node[n].queue /\ node'[n].other = node[n].other
      /\ node'[n].subs = RemoveAt(s, i) /\ node'[n].at = "task"
  BY <1>1, FinishSubroutineBecomes DEF Becoming
<1>3. \A j \in DOMAIN node'[n].subs : \E k \in DOMAIN node[n].subs :
          node'[n].subs[j] = node[n].subs[k]
  <2>1. /\ RemoveAt(s, i) \in Seq(Tasks) /\ Len(RemoveAt(s, i)) = Len(s) - 1
        /\ \A j \in 1 .. Len(s) - 1 : RemoveAt(s, i)[j] = s[IF j < i THEN j ELSE j + 1]
    BY <1>1, Removed
  <2>2. DOMAIN RemoveAt(s, i) = 1 .. Len(s) - 1 /\ DOMAIN s = 1 .. Len(s)
    BY <1>1, <2>1
  <2>3. \A j \in 1 .. Len(s) - 1 : (IF j < i THEN j ELSE j + 1) \in 1 .. Len(s)
    BY <1>1
  <2> QED
    BY <1>1, <1>2, <2>1, <2>2, <2>3
<1>4. RunsAlone(n)'
  BY <1>2 DEF RunsAlone
<1> QED
  BY <1>2, <1>3, <1>4, SubsOrdered

(* The running task goes on: it has the same steps or the rest of them.      *)
LEMMA RunningOrdered ==
    ASSUME Types, Ordered, MultiThreadAssumption, NEW n \in DOMAIN node, node[n].at = "run",
           NEW t \in Tasks, NEW at \in {"loop", "run"}, Becomes(n, t, at), OnlyNode(n),
           SocketsIn(t.steps) \subseteq SocketsIn(Running(n).steps)
    PROVE  Ordered'
<1>1. node[n].task \in DOMAIN node[n].subs /\ node[n].other = <<>>
  BY DEF Ordered, RunsAlone
<1>2. /\ node'[n].queue = node[n].queue /\ node'[n].other = node[n].other
      /\ node'[n].subs = [node[n].subs EXCEPT ![node[n].task] = t]
      /\ node'[n].task = node[n].task
  BY <1>1, RunningBecomes DEF Becoming
<1>3. /\ DOMAIN node'[n].subs = DOMAIN node[n].subs
      /\ \A i \in DOMAIN node[n].subs :
             node'[n].subs[i] = IF i = node[n].task THEN t ELSE node[n].subs[i]
  BY <1>2, NodeFields
<1>4. RunsAlone(n)'
  BY <1>1, <1>2, <1>3 DEF RunsAlone
<1> QED
  BY <1>2, <1>3, <1>4, SubsOrdered DEF Running

(* The code of a program.                                                    *)
LEMMA CodeFacts ==
    ASSUME Types, MultiThreadAssumption, NEW a \in DOMAIN pc
    PROVE  /\ a \in Apps /\ a \in DOMAIN program.code /\ NodeOf[a] \in program.nodes
           /\ program.code[a] \in Seq(ToSet(program.code[a]))
           /\ DOMAIN program.code[a] = 1 .. Len(program.code[a])
           /\ Len(program.code[a]) \in Nat
           /\ ProperCode(program.code[a])
<1>1. PICK p \in Programs : p = program /\ a \in DOMAIN p.code
  BY DEF Types
<1>2. /\ DOMAIN p.code \subseteq Apps
      /\ NodeOf[a] \in p.nodes /\ ProperCode(p.code[a])
  BY <1>1 DEF MultiThreadAssumption
<1>3. a \in Apps /\ NodeOf[a] \in p.nodes /\ p.code[a] \in Seq(ToSet(p.code[a]))
  BY <1>1, <1>2 DEF ProperCode
<1>4. DOMAIN p.code[a] = 1 .. Len(p.code[a]) /\ Len(p.code[a]) \in Nat
  BY <1>3
<1> QED
  BY <1>1, <1>2, <1>3, <1>4

(* An operation of a program.                                                *)
LEMMA OperationFacts ==
    ASSUME Types, MultiThreadAssumption, NEW a \in DOMAIN pc, NEW i \in DOMAIN program.code[a]
    PROVE  /\ a \in Apps /\ a \in DOMAIN program.code /\ i \in Nat
           /\ NodeOf[a] \in program.nodes /\ NodeOf[a] \in DOMAIN node
           /\ DOMAIN program.code[a] = 1 .. Len(program.code[a])
           /\ Len(program.code[a]) \in Nat
           /\ IsOp(program.code[a][i])
           /\ program.code[a][i].arg \in Args
           /\ program.code[a][i].kind = "open" =>
                  <<NodeOf[a], program.code[a][i].arg>> \in Ends(program.code)
           /\ program.code[a][i].kind = "subroutine" =>
                  \A sck \in SocketsOf(program.code[a][i].arg) : \E j \in DOMAIN program.code[a] :
                      j < i /\ program.code[a][j].kind = "open" /\ program.code[a][j].arg = sck
<1>1. /\ a \in DOMAIN program.code /\ DOMAIN node = program.nodes
      /\ a \in Apps /\ NodeOf[a] \in program.nodes
      /\ DOMAIN program.code[a] = 1 .. Len(program.code[a])
      /\ Len(program.code[a]) \in Nat /\ i \in Nat
      /\ ProperCode(program.code[a])
  BY CodeFacts DEF Types
<1>2. /\ IsOp(program.code[a][i])
      /\ program.code[a][i].kind = "subroutine" =>
            \A sck \in SocketsOf(program.code[a][i].arg) : \E j \in DOMAIN program.code[a] :
                j < i /\ program.code[a][j].kind = "open" /\ program.code[a][j].arg = sck
  BY <1>1 DEF ProperCode
<1>3. program.code[a][i].arg \in Args
  BY <1>1 DEF Args, Types
<1>4. program.code[a][i].kind = "open" =>
          <<NodeOf[a], program.code[a][i].arg>> \in Ends(program.code)
  BY <1>1 DEF Ends
<1> QED
  BY <1>1, <1>2, <1>3, <1>4

(* Commit: the message, its waiter and what becomes of the node.             *)
LEMMA CommitBecomes ==
    ASSUME Types, MultiThreadAssumption, NEW a \in DOMAIN pc, Commit(a)
    PROVE  \E m \in Messages :
              /\ pc[a] \in DOMAIN program.code[a] /\ program.code[a][pc[a]].kind # "join"
              /\ m = [num |-> <<a, round, pc[a]>>, app |-> a,
                      kind |-> program.code[a][pc[a]].kind, arg |-> program.code[a][pc[a]].arg]
              /\ Becoming(NodeOf[a], Append(node[NodeOf[a]].queue, m), node[NodeOf[a]].fin,
                          node[NodeOf[a]].other, node[NodeOf[a]].subs, node[NodeOf[a]].at)
              /\ node'[NodeOf[a]].task = node[NodeOf[a]].task
              /\ pc' = [pc EXCEPT ![a] = pc[a] + 1]
              /\ waiters' = waiters \cup {[app |-> a, num |-> m.num, msg |-> Bytes(m),
                                           block |-> program.code[a][pc[a]].block,
                                           seen |-> FALSE]}
              /\ waiters' \subseteq Waiting
<1>1. PICK i \in Nat : i = pc[a]
  BY DEF Types
<1>2. i \in 1 .. Len(program.code[a]) /\ i \in DOMAIN program.code[a]
  <2>1. i \in 1 .. Len(program.code[a])
    BY <1>1 DEF Commit, Runs
  <2>2. DOMAIN program.code[a] = 1 .. Len(program.code[a])
    BY CodeFacts
  <2> QED
    BY <2>1, <2>2
<1>3. PICK op : op = program.code[a][i] /\ op.arg \in Args /\ IsOp(op)
  BY <1>2, OperationFacts
<1>4. a \in Apps /\ NodeOf[a] \in DOMAIN node
  BY <1>2, OperationFacts
<1>5. op.kind # "join"
  BY <1>1, <1>3 DEF Commit
<1>6. op.kind \in Kinds /\ op.block \in BOOLEAN
  BY <1>3, <1>5 DEF IsOp, Kinds
<1>7. PICK m \in Messages :
          m = [num |-> <<a, round, i>>, app |-> a, kind |-> op.kind, arg |-> op.arg]
  BY <1>3, <1>4, <1>6 DEF Messages, Nums, Types
<1>8. PICK n \in DOMAIN node : n = NodeOf[a]
  BY <1>4
<1> DEFINE queue == Append(node[n].queue, m)
           k == node[n].unfinished + 1
           v == [node[n] EXCEPT !.queue = queue, !.unfinished = k]
           w == [app |-> a, num |-> m.num, msg |-> Bytes(m), block |-> op.block, seen |-> FALSE]
<1>9. /\ node' = [node EXCEPT ![n] = v]
      /\ pc' = [pc EXCEPT ![a] = i + 1]
      /\ waiters' = waiters \cup {w}
  BY <1>1, <1>3, <1>7, <1>8 DEF Commit
<1>10. queue \in Seq(Messages) /\ k \in Int
  BY <1>7, NodeFields
<1>11. w \in Waiting
  BY <1>4, <1>6, <1>7 DEF Waiting, Messages, Bytes, Contents
<1> HIDE DEF queue, k, w
<1>12. /\ v \in NodeStates /\ v.queue = queue /\ v.fin = node[n].fin
       /\ v.other = node[n].other /\ v.subs = node[n].subs /\ v.at = node[n].at
       /\ v.task = node[n].task
  BY <1>10, NodeFields DEF NodeStates
<1> HIDE DEF v
<1>13. Becoming(n, queue, node[n].fin, node[n].other, node[n].subs, node[n].at)
       /\ node'[n].task = node[n].task
  <2>1. Becoming(n, v.queue, v.fin, v.other, v.subs, v.at) /\ node'[n].task = v.task
    BY <1>9, <1>12, NodeBecomes
  <2> QED
    BY <1>12, <2>1
<1>14. waiters' \subseteq Waiting
  BY <1>9, <1>11 DEF Types
<1> QED
  BY <1>1, <1>2, <1>3, <1>5, <1>7, <1>8, <1>9, <1>13, <1>14 DEF queue, w

(* Commit: a subroutine comes after the sockets it uses.                     *)
LEMMA CommitOrdered ==
    ASSUME Types, Ordered, MultiThreadAssumption, NEW a \in DOMAIN pc, Commit(a)
    PROVE  Ordered'
<1>1. PICK m \in Messages :
          /\ pc[a] \in DOMAIN program.code[a] /\ program.code[a][pc[a]].kind # "join"
          /\ m = [num |-> <<a, round, pc[a]>>, app |-> a,
                  kind |-> program.code[a][pc[a]].kind, arg |-> program.code[a][pc[a]].arg]
          /\ Becoming(NodeOf[a], Append(node[NodeOf[a]].queue, m), node[NodeOf[a]].fin,
                      node[NodeOf[a]].other, node[NodeOf[a]].subs, node[NodeOf[a]].at)
          /\ node'[NodeOf[a]].task = node[NodeOf[a]].task
          /\ pc' = [pc EXCEPT ![a] = pc[a] + 1]
  BY CommitBecomes
<1>2. PICK i \in Nat : i = pc[a] /\ i \in DOMAIN program.code[a]
  BY <1>1 DEF Types
<1>3. m.kind = program.code[a][i].kind /\ m.arg = program.code[a][i].arg
  BY <1>1, <1>2
<1>4. PICK n \in DOMAIN node : n = NodeOf[a]
  BY <1>2, OperationFacts
<1>5. PICK q \in Seq(Messages) : q = node[n].queue
  BY NodeFields
<1>6. /\ node' \in [program.nodes -> NodeStates]
      /\ \A x \in program.nodes : x # n => node'[x] = node[x]
      /\ node'[n].queue = Append(q, m) /\ node'[n].other = node[n].other
      /\ node'[n].subs = node[n].subs /\ node'[n].at = node[n].at
      /\ node'[n].task = node[n].task
      /\ pc' = [pc EXCEPT ![a] = i + 1]
  BY <1>1, <1>2, <1>4, <1>5 DEF Becoming
<1>7. /\ program' = program /\ main' = main /\ purposeIds' = purposeIds
      /\ \A e : Opened(e) => Opened(e)'
      /\ \A e : Ready(e) => Ready(e)'
  BY DEF Commit, mainvars, network, Opened, Key, Ready, SetUp, HasCircuit, Local, Remote
<1>8. /\ DOMAIN q = 1 .. Len(q) /\ DOMAIN Append(q, m) = 1 .. Len(q) + 1 /\ Len(q) \in Nat
      /\ \A j \in DOMAIN q : j \in DOMAIN Append(q, m) /\ Append(q, m)[j] = q[j]
      /\ Append(q, m)[Len(q) + 1] = m /\ Len(q) + 1 \in DOMAIN Append(q, m)
      /\ \A j \in DOMAIN Append(q, m) : j \in DOMAIN q \/ j = Len(q) + 1
  BY <1>5
<1>9. \A sck : OpenOrTask(n, sck) => OpenOrTask(n, sck)'
  BY <1>6, <1>7 DEF OpenOrTask
<1>10. \A sck : Promised(n, sck) => Promised(n, sck)'
  BY <1>5, <1>6, <1>8, <1>9 DEF Promised, OpensIn
<1>11. \A j \in DOMAIN q : \A sck : OpenBefore(n, j, sck) => OpenBefore(n, j, sck)'
  BY <1>5, <1>6, <1>8, <1>9 DEF OpenBefore
<1>12. m.kind = "open" => \A sck : sck = m.arg => Promised(n, sck)'
  BY <1>6, <1>8 DEF Promised, OpensIn
<1>13. /\ m.kind = "open" => <<n, m.arg>> \in Ends(program.code)
       /\ m.kind = "subroutine" => m.arg \in DOMAIN Code
  <2>1. /\ IsOp(program.code[a][i])
        /\ program.code[a][i].kind = "open" =>
              <<NodeOf[a], program.code[a][i].arg>> \in Ends(program.code)
    BY <1>2, OperationFacts
  <2> QED
    BY <1>3, <1>4, <2>1 DEF IsOp
<1>14. ASSUME m.kind = "subroutine", NEW sck \in SocketsOf(m.arg)
       PROVE  /\ <<n, sck>> \in Ends(program.code)
              /\ main # "end" => Promised(n, sck)
  <2>1. PICK j \in DOMAIN program.code[a] :
            j < i /\ program.code[a][j].kind = "open" /\ program.code[a][j].arg = sck
    <3>1. program.code[a][i].kind = "subroutine" =>
              \A x \in SocketsOf(program.code[a][i].arg) : \E j \in DOMAIN program.code[a] :
                  j < i /\ program.code[a][j].kind = "open" /\ program.code[a][j].arg = x
      BY <1>2, OperationFacts
    <3> QED
      BY <1>3, <1>14, <3>1
  <2>2. <<n, sck>> \in Ends(program.code)
    BY <1>4, <2>1, OperationFacts
  <2>3. main # "end" => Promised(n, sck)
    BY <1>2, <1>4, <2>1 DEF Ordered, Past
  <2> QED
    BY <2>2, <2>3
<1>15. ASSUME NEW sck, Promised(n, sck)  PROVE  OpenBefore(n, Len(q) + 1, sck)'
  <2>1. CASE OpenOrTask(n, sck)
    BY <1>9, <2>1 DEF OpenBefore
  <2>2. CASE OpensIn(q, sck)
    <3>1. PICK j \in DOMAIN q : q[j].kind = "open" /\ q[j].arg = sck
      BY <2>2 DEF OpensIn
    <3>2. /\ j \in DOMAIN node'[n].queue /\ node'[n].queue[j] = q[j] /\ j < Len(q) + 1
      BY <1>6, <1>8
    <3> QED
      BY <3>1, <3>2 DEF OpenBefore
  <2> QED
    BY <1>5, <1>15, <2>1, <2>2 DEF Promised
<1>16. RunsAlone(n)' /\ Known(n)'
  <2>1. RunsAlone(n) /\ Known(n)
    BY DEF Ordered
  <2>2. RunsAlone(n)'
    BY <1>6, <2>1 DEF RunsAlone
  <2>3. \A j \in DOMAIN node'[n].queue : j \in DOMAIN q \/ node'[n].queue[j] = m
    BY <1>6, <1>8
  <2>4. Known(n)'
    BY <1>5, <1>6, <1>7, <1>8, <1>13, <1>14, <2>1, <2>3, ZenonT(40) DEF Known
  <2> QED
    BY <2>2, <2>4
<1>17. ASSUME main # "end"  PROVE  InTurn(n)'
  <2>1. InTurn(n)
    BY <1>17 DEF Ordered
  <2>2. ASSUME NEW j \in DOMAIN node'[n].queue, node'[n].queue[j].kind = "subroutine",
               NEW sck \in SocketsOf(node'[n].queue[j].arg)
        PROVE  OpenBefore(n, j, sck)'
    <3>1. CASE j \in DOMAIN q
      BY <1>5, <1>6, <1>8, <1>11, <2>1, <2>2, <3>1 DEF InTurn
    <3>2. CASE j = Len(q) + 1
      <4>1. m.kind = "subroutine" /\ sck \in SocketsOf(m.arg)
        BY <1>6, <1>8, <2>2, <3>2
      <4> QED
        BY <1>14, <1>15, <1>17, <3>2, <4>1
    <3> QED
      BY <1>6, <1>8, <3>1, <3>2
  <2> QED
    BY <1>6, <1>7, <1>9, <2>1, <2>2 DEF InTurn
<1>18. ASSUME main # "end"  PROVE  Past'
  <2>1. Past
    BY <1>18 DEF Ordered
  <2>2. \A x \in DOMAIN pc : NodeOf[x] \in program.nodes
    BY DEF Types, MultiThreadAssumption
  <2>3. ASSUME NEW x \in DOMAIN pc, NEW j \in DOMAIN program.code[x],
               program.code[x][j].kind = "open", j < pc'[x],
               NEW sck, sck = program.code[x][j].arg
        PROVE  Promised(NodeOf[x], sck)'
    <3>1. CASE j < pc[x]
      <4>1. Promised(NodeOf[x], sck)
        BY <2>1, <2>3, <3>1 DEF Past
      <4>2. CASE NodeOf[x] = n
        BY <1>10, <4>1, <4>2
      <4>3. CASE NodeOf[x] # n
        BY <1>6, <1>7, <2>2, <4>1, <4>3, SameNode
      <4> QED
        BY <4>2, <4>3
    <3>2. CASE ~(j < pc[x])
      <4>1. x = a /\ j = i
        <5>1. pc \in [DOMAIN pc -> Nat] /\ j \in Nat
          BY <2>3, OperationFacts DEF Types
        <5> QED
          BY <1>2, <1>6, <2>3, <3>2, <5>1
      <4> QED
        BY <1>3, <1>4, <1>12, <2>3, <4>1
    <3> QED
      BY <3>1, <3>2
  <2>4. DOMAIN pc' = DOMAIN pc
    BY <1>6 DEF Types
  <2> QED
    BY <1>7, <2>3, <2>4 DEF Past
<1>19. DOMAIN node = program.nodes /\ DOMAIN node' = program.nodes
  BY <1>6 DEF Types
<1>20. ASSUME NEW x \in program.nodes, x # n
       PROVE  RunsAlone(x)' /\ Known(x)' /\ (main # "end" => InTurn(x)')
  <2>1. /\ RunsAlone(x) => RunsAlone(x)'
        /\ Known(x) => Known(x)'
        /\ InTurn(x) => InTurn(x)'
    BY <1>6, <1>7, <1>20, SameNode
  <2> QED
    BY <1>19, <2>1 DEF Ordered
<1> QED
  BY <1>7, <1>16, <1>17, <1>18, <1>19, <1>20 DEF Ordered

(* The handler goes to another place in its loop, or starts or stops.        *)
LEMMA PlaceOrdered ==
    ASSUME Types, Ordered, MultiThreadAssumption, NEW n \in DOMAIN node, OnlyNode(n),
           NEW at \in {"loop", "task", "stopped"}, node' = Set(n, "at", at)
    PROVE  Ordered'
<1>1. Becoming(n, node[n].queue, node[n].fin, node[n].other, node[n].subs, at)
  BY GoesOnAt DEF Places
<1>2. RunsAlone(n)'
  BY <1>1 DEF RunsAlone, Becoming
<1> QED
  BY <1>1, <1>2, OrderedSameLists DEF Becoming

(* PickSubroutine: a subroutine runs only when there is no other task.       *)
LEMMA PickOrdered ==
    ASSUME Types, Ordered, MultiThreadAssumption, NEW n \in DOMAIN node, OnlyNode(n),
           NEW i \in DOMAIN node[n].subs, PickSubroutine(n, i)
    PROVE  Ordered'
<1>1. /\ Becoming(n, node[n].queue, node[n].fin, node[n].other, node[n].subs, "run")
      /\ node[n].other = <<>> /\ node'[n].task = i
  BY PickBecomes
<1>2. RunsAlone(n)'
  BY <1>1 DEF RunsAlone, Becoming
<1> QED
  BY <1>1, <1>2, OrderedSameLists DEF Becoming

(* RemoveDone: a finished message is removed.                                *)
LEMMA FinOrdered ==
    ASSUME Types, Ordered, MultiThreadAssumption, NEW n \in DOMAIN node, OnlyNode(n),
           NEW fin \in SUBSET Contents, node' = Set(n, "fin", fin)
    PROVE  Ordered'
<1>1. /\ Becoming(n, node[n].queue, fin, node[n].other, node[n].subs, node[n].at)
      /\ node'[n].task = node[n].task
  BY FinChanges
<1>2. RunsAlone(n)'
  BY <1>1 DEF RunsAlone, Becoming, Ordered
<1> QED
  BY <1>1, <1>2, OrderedSameLists DEF Becoming

(* The other threads start or end a program, or leave it as it is.           *)
LEMMA OrderedElsewhere ==
    ASSUME Types, Ordered, MultiThreadAssumption,
           program' = program, node' = node, main' # "end" => main # "end",
           \A e : Opened(e) => Opened(e)', \A e : Ready(e) => Ready(e)',
           DOMAIN pc' = DOMAIN pc, \A a \in DOMAIN pc : pc'[a] = pc[a] \/ pc'[a] \in {0, 1}
    PROVE  Ordered'
<1>1. \A n \in DOMAIN node : /\ RunsAlone(n)' /\ Known(n)'
                             /\ main # "end" => InTurn(n)'
                             /\ \A sck : Promised(n, sck) => Promised(n, sck)'
  BY SameNode DEF Ordered
<1>2. ASSUME main # "end", NEW a \in DOMAIN pc, NEW j \in DOMAIN program.code[a],
             j < pc'[a], program.code[a][j].kind = "open",
             NEW sck, sck = program.code[a][j].arg
      PROVE  Promised(NodeOf[a], sck)'
  <2>1. j \in Nat /\ j > 0 /\ NodeOf[a] \in DOMAIN node
    BY <1>2, CodeFacts, NodeFields DEF Types
  <2>2. pc'[a] = pc[a]
    BY <1>2, <2>1
  <2>3. Promised(NodeOf[a], sck)
    BY <1>2, <2>2 DEF Ordered, Past
  <2> QED
    BY <1>1, <2>1, <2>3
<1>3. main # "end" => Past'
  BY <1>2 DEF Past
<1> QED
  BY <1>1, <1>3 DEF Ordered

(* JoinBackend: the queues are empty after it.                               *)
LEMMA JoinBackendBecomes ==
    ASSUME Types, JoinBackend
    PROVE  /\ node' \in [program.nodes -> NodeStates]
           /\ \A n \in program.nodes :
                /\ node'[n].queue = <<>> /\ node'[n].fin = {}
                /\ node'[n].other = node[n].other /\ node'[n].subs = node[n].subs
                /\ node'[n].at = node[n].at /\ node'[n].task = node[n].task
<1>1. DOMAIN node = program.nodes
  BY DEF Types
<1>2. node' = [n \in program.nodes |-> [node[n] EXCEPT !.queue = <<>>, !.fin = {}]]
  BY <1>1 DEF JoinBackend
<1>3. ASSUME NEW n \in program.nodes, NEW v, v = [node[n] EXCEPT !.queue = <<>>, !.fin = {}]
      PROVE  /\ v \in NodeStates /\ v.queue = <<>> /\ v.fin = {}
             /\ v.other = node[n].other /\ v.subs = node[n].subs
             /\ v.at = node[n].at /\ v.task = node[n].task
  <2>1. PICK r \in NodeStates : r = node[n]
    BY <1>1, NodeFields
  <2>2. v = [r EXCEPT !.queue = <<>>, !.fin = {}]
    BY <1>3, <2>1
  <2>3. <<>> \in Seq(Messages) /\ {} \in SUBSET Contents
    OBVIOUS
  <2>4. /\ v \in NodeStates /\ v.queue = <<>> /\ v.fin = {}
        /\ v.other = r.other /\ v.subs = r.subs
        /\ v.at = r.at /\ v.task = r.task
    BY <2>2, <2>3 DEF NodeStates
  <2> QED
    BY <2>1, <2>4
<1> QED
  BY <1>2, <1>3

(* JoinBackend: nothing is in order any more, and nothing has to be.         *)
LEMMA JoinBackendOrdered ==
    ASSUME Types, Ordered, JoinBackend
    PROVE  Ordered'
<1>1. DOMAIN node = program.nodes /\ DOMAIN node' = program.nodes
  BY JoinBackendBecomes DEF Types
<1>2. main' = "end" /\ program' = program
  BY DEF JoinBackend
<1>3. \A n \in program.nodes : RunsAlone(n)'
  BY <1>1, JoinBackendBecomes DEF Ordered, RunsAlone
<1>4. ASSUME NEW n \in program.nodes  PROVE  Known(n)'
  <2>1. Known(n) /\ DOMAIN node'[n].queue = {}
    BY <1>1, JoinBackendBecomes DEF Ordered
  <2> QED
    BY <1>1, <1>2, <2>1, JoinBackendBecomes DEF Known
<1> QED
  BY <1>1, <1>2, <1>3, <1>4 DEF Ordered

-----------------------------------------------------------------------------
(* Purpose IDs and what is asked for with them.                              *)

(* The ends of the programs' sockets: each has another one, and its own key. *)
LEMMA EndFacts ==
    ASSUME MultiThreadAssumption, NEW p \in Programs, NEW e \in AllEnds(p.code)
    PROVE  /\ OtherEnd(e) \in AllEnds(p.code) /\ OtherEnd(OtherEnd(e)) = e
           /\ e[1] # e[2].peer
           /\ e = <<e[1], [id |-> e[2].id, peer |-> e[2].peer, peerId |-> e[2].peerId]>>
           /\ \A f \in AllEnds(p.code) : Key(e) = Key(f) => e = f
<1>1. ProperSockets(p.nodes, p.code)
  BY DEF MultiThreadAssumption
<1>2. ASSUME NEW f \in Ends(p.code)
      PROVE  /\ OtherEnd(OtherEnd(f)) = f /\ f[1] # f[2].peer
             /\ f = <<f[1], [id |-> f[2].id, peer |-> f[2].peer, peerId |-> f[2].peerId]>>
             /\ OtherEnd(f)[1] # OtherEnd(f)[2].peer
             /\ OtherEnd(f) = <<OtherEnd(f)[1], [id |-> OtherEnd(f)[2].id,
                    peer |-> OtherEnd(f)[2].peer, peerId |-> OtherEnd(f)[2].peerId]>>
  <2>1. PICK n, sck : f = <<n, sck>>
    BY <1>2 DEF Ends
  <2>2. sck \in [id : Nat, peer : p.nodes \ {n}, peerId : Nat]
    BY <1>1, <1>2, <2>1 DEF ProperSockets
  <2>3. sck = [id |-> sck.id, peer |-> sck.peer, peerId |-> sck.peerId] /\ n # sck.peer
    BY <2>2
  <2>4. OtherEnd(f) = <<sck.peer, [id |-> sck.peerId, peer |-> n, peerId |-> sck.id]>>
    BY <2>1 DEF OtherEnd
  <2>5. OtherEnd(OtherEnd(f)) = f
    BY <2>1, <2>3, <2>4 DEF OtherEnd
  <2> QED
    BY <2>1, <2>3, <2>4, <2>5
<1>3. ASSUME NEW f \in AllEnds(p.code), Key(e) = Key(f)
      PROVE  e = f
  <2>1. e[1] = f[1] /\ e[2].peer = f[2].peer /\ e[2].id = f[2].id
    BY <1>3 DEF Key
  <2> QED
    BY <1>1, <2>1 DEF ProperSockets
<1>4. CASE e \in Ends(p.code)
  <2>1. OtherEnd(e) \in AllEnds(p.code)
    BY <1>4 DEF AllEnds
  <2> QED
    BY <1>2, <1>3, <1>4, <2>1
<1>5. CASE e \in {OtherEnd(f) : f \in Ends(p.code)}
  <2>1. PICK f \in Ends(p.code) : e = OtherEnd(f)
    BY <1>5
  <2>2. f \in AllEnds(p.code) /\ OtherEnd(e) = f
    BY <1>2, <2>1 DEF AllEnds
  <2> QED
    BY <1>2, <1>3, <2>1, <2>2
<1> QED
  BY <1>4, <1>5 DEF AllEnds

(* _assign_purpose_id changes nothing if the socket is known, and else gives *)
(* both ends the next ID.                                                    *)
LEMMA AssignedFacts ==
    ASSUME Types, Purposes, MultiThreadAssumption, NEW n, NEW sck,
           NEW e \in Ends(program.code), e = <<n, sck>>
    PROVE  \/ Opened(e) /\ Opened(OtherEnd(e)) /\ Assigned(n, sck) = purposeIds
           \/ /\ ~Opened(e) /\ ~Opened(OtherEnd(e))
              /\ DOMAIN Assigned(n, sck) = DOMAIN purposeIds \cup {Key(e), Key(OtherEnd(e))}
              /\ \A k \in DOMAIN purposeIds : Assigned(n, sck)[k] = purposeIds[k]
              /\ Assigned(n, sck)[Key(e)] = Cardinality(Ids)
              /\ Assigned(n, sck)[Key(OtherEnd(e))] = Cardinality(Ids)
              /\ Assigned(n, sck) = [k \in DOMAIN Assigned(n, sck) |-> Assigned(n, sck)[k]]
<1>1. /\ program \in Programs /\ e \in AllEnds(program.code)
      /\ OtherEnd(e) \in AllEnds(program.code) /\ OtherEnd(OtherEnd(e)) = e
  BY EndFacts DEF Types, AllEnds
<1>2. Opened(e) <=> Opened(OtherEnd(e))
  BY <1>1 DEF Purposes
<1> DEFINE k1 == <<n, sck.peer, sck.id>>
           k2 == <<sck.peer, n, sck.peerId>>
           keys == <<k1, k2>>
           known == {i \in 1 .. 2 : keys[i] \in DOMAIN purposeIds}
           next == Cardinality({purposeIds[k] : k \in DOMAIN purposeIds})
           pick == CHOOSE i \in known : \A j \in known : j =< i
           pid == IF known = {} THEN next ELSE purposeIds[keys[pick]]
<1>3. k1 = Key(e) /\ k2 = Key(OtherEnd(e))
  BY DEF Key, OtherEnd
<1>5. Assigned(n, sck) = [k \in {k1, k2} \cup DOMAIN purposeIds |->
                             IF k \in {k1, k2} THEN pid ELSE purposeIds[k]]
  BY DEF Assigned
<1>6. next = Cardinality(Ids)
  BY DEF Ids
<1>7. CASE Opened(e)
  <2>1. k1 \in DOMAIN purposeIds /\ k2 \in DOMAIN purposeIds
    BY <1>2, <1>3, <1>7 DEF Opened
  <2>2. known = {1, 2}
    BY <2>1
  <2>3. purposeIds[k1] = purposeIds[k2]
    BY <1>1, <1>3, <1>7 DEF Purposes
  <2>4. pick \in {1, 2}
    <3>1. \E i \in {1, 2} : \A j \in {1, 2} : j =< i
      OBVIOUS
    <3> QED
      BY <2>2, <3>1
  <2>5. pid = purposeIds[k1]
    <3>1. keys[1] = k1 /\ keys[2] = k2
      OBVIOUS
    <3>2. known # {}
      BY <2>2
    <3> HIDE DEF k1, k2, keys, known, next, pick
    <3>3. pid = purposeIds[keys[pick]]
      BY <3>2
    <3>4. pick = 1 \/ pick = 2
      BY <2>4
    <3> QED
      BY <2>3, <3>1, <3>3, <3>4, Zenon
  <2> HIDE DEF k1, k2, pid
  <2>6. Assigned(n, sck) = [k \in DOMAIN purposeIds |-> purposeIds[k]]
    BY <1>5, <2>1, <2>3, <2>5
  <2> QED
    BY <1>2, <1>7, <2>6 DEF Purposes
<1>8. CASE ~Opened(e)
  <2>1. k1 \notin DOMAIN purposeIds /\ k2 \notin DOMAIN purposeIds
    BY <1>2, <1>3, <1>8 DEF Opened
  <2>2. pid = next
    BY <2>1
  <2> HIDE DEF k1, k2, pid, next
  <2> QED
    BY <1>2, <1>3, <1>5, <1>6, <1>8, <2>1, <2>2
<1> QED
  BY <1>7, <1>8

(* Purpose IDs are never given twice.                                        *)
LEMMA AssignedPurposes ==
    ASSUME Types, Purposes, MultiThreadAssumption, NEW n, NEW sck,
           NEW e \in Ends(program.code), e = <<n, sck>>,
           purposeIds' = Assigned(n, sck), program' = program
    PROVE  /\ Purposes'
           /\ Opened(e)'
           /\ \A x : Opened(x) => Opened(x)' /\ purposeIds'[Key(x)] = purposeIds[Key(x)]
<1>1. /\ program \in Programs /\ e \in AllEnds(program.code)
      /\ OtherEnd(e) \in AllEnds(program.code) /\ OtherEnd(OtherEnd(e)) = e
  BY EndFacts DEF Types, AllEnds
<1>2. CASE Opened(e) /\ Opened(OtherEnd(e)) /\ purposeIds' = purposeIds
  BY <1>2 DEF Purposes, Opened, Ids
<1>3. CASE /\ ~Opened(e) /\ ~Opened(OtherEnd(e))
           /\ DOMAIN purposeIds' = DOMAIN purposeIds \cup {Key(e), Key(OtherEnd(e))}
           /\ \A k \in DOMAIN purposeIds : purposeIds'[k] = purposeIds[k]
           /\ purposeIds'[Key(e)] = Cardinality(Ids)
           /\ purposeIds'[Key(OtherEnd(e))] = Cardinality(Ids)
           /\ purposeIds' = [k \in DOMAIN purposeIds' |-> purposeIds'[k]]
  <2> DEFINE new == Cardinality(Ids)
  <2>1. IsFiniteSet(Ids) /\ Ids = 0 .. new - 1 /\ new \in Nat
    <3>1. IsFiniteSet(Ids) /\ Ids = 0 .. new - 1
      BY DEF Purposes
    <3> QED
      BY <3>1, FS_CardinalityType
  <2>2. new \notin Ids
    BY <2>1
  <2>3. Ids' = Ids \cup {new}
    <3>1. ASSUME NEW v \in Ids'  PROVE  v \in Ids \cup {new}
      BY <1>3, <3>1 DEF Ids
    <3>2. ASSUME NEW v \in Ids \cup {new}  PROVE  v \in Ids'
      BY <1>3, <3>2 DEF Ids
    <3> QED
      BY <3>1, <3>2
  <2>4. IsFiniteSet(Ids') /\ Cardinality(Ids') = new + 1
    BY <2>1, <2>2, <2>3, FS_AddElement
  <2>5. Ids' = 0 .. Cardinality(Ids') - 1
    BY <2>1, <2>3, <2>4
  <2>6. ASSUME NEW x \in AllEnds(program.code)
        PROVE  Opened(x)' <=> Opened(x) \/ x \in {e, OtherEnd(e)}
    <3>1. Key(x) \in {Key(e), Key(OtherEnd(e))} <=> x \in {e, OtherEnd(e)}
      BY <1>1, EndFacts
    <3> QED
      BY <1>3, <3>1 DEF Opened
  <2>7. ASSUME NEW x, Opened(x)
        PROVE  Opened(x)' /\ purposeIds'[Key(x)] = purposeIds[Key(x)] /\ purposeIds[Key(x)] \in Ids
    BY <1>3, <2>7 DEF Opened, Ids
  <2>8. \A x \in AllEnds(program.code) : OtherEnd(x) \in AllEnds(program.code)
    BY <1>1, EndFacts
  <2>9. ASSUME NEW x \in AllEnds(program.code), Opened(x)'
        PROVE  Opened(OtherEnd(x))' /\ purposeIds'[Key(OtherEnd(x))] = purposeIds'[Key(x)]
    <3>1. CASE x \in {e, OtherEnd(e)}
      BY <1>1, <1>3, <2>6, <2>8, <3>1
    <3>2. CASE Opened(x)
      <4>1. Opened(OtherEnd(x)) /\ purposeIds[Key(OtherEnd(x))] = purposeIds[Key(x)]
        BY <3>2 DEF Purposes
      <4> QED
        BY <2>7, <3>2, <4>1
    <3> QED
      BY <2>6, <2>9, <3>1, <3>2
  <2>10. ASSUME NEW x \in AllEnds(program.code), NEW y \in AllEnds(program.code),
                Opened(x)', Opened(y)', purposeIds'[Key(x)] = purposeIds'[Key(y)]
         PROVE  y \in {x, OtherEnd(x)}
    <3>1. CASE Opened(x) /\ Opened(y)
      <4>1. purposeIds[Key(x)] = purposeIds[Key(y)]
        BY <2>7, <2>10, <3>1
      <4> QED
        BY <3>1, <4>1 DEF Purposes
    <3>2. CASE x \in {e, OtherEnd(e)} /\ y \in {e, OtherEnd(e)}
      BY <1>1, <3>2
    <3>3. CASE Opened(x) /\ y \in {e, OtherEnd(e)}
      BY <1>3, <2>2, <2>7, <2>10, <3>3
    <3>4. CASE x \in {e, OtherEnd(e)} /\ Opened(y)
      BY <1>3, <2>2, <2>7, <2>10, <3>4
    <3> QED
      BY <2>6, <2>10, <3>1, <3>2, <3>3, <3>4
  <2>11. \A k \in DOMAIN purposeIds' : \E x \in AllEnds(program.code) : k = Key(x)
    BY <1>1, <1>3 DEF Purposes
  <2>12. Opened(e)'
    BY <1>1, <2>6
  <2>13. Purposes'
    BY <1>3, <2>4, <2>5, <2>9, <2>10, <2>11 DEF Purposes
  <2> QED
    BY <2>7, <2>12, <2>13
<1> QED
  BY <1>2, <1>3, AssignedFacts

(* Without sockets there are no IDs.                                         *)
LEMMA NoPurposes ==
    ASSUME NEW p \in Programs, program' = p, purposeIds' = <<>>
    PROVE  Purposes'
<1>1. DOMAIN purposeIds' = {} /\ purposeIds' = [k \in DOMAIN purposeIds' |-> purposeIds'[k]]
  OBVIOUS
<1>2. Ids' = {}
  BY <1>1 DEF Ids
<1>3. IsFiniteSet({}) /\ Cardinality({}) = 0
  BY FS_EmptySet
<1> QED
  BY <1>1, <1>2, <1>3 DEF Purposes, Opened

\* A request with the ID of its open socket.
Fits(x) ==
    /\ x.peer = x.sck.peer
    /\ EndOf(x) \in Ends(program.code)
    /\ Ready(EndOf(x))
    /\ x.purpose = purposeIds[Key(EndOf(x))]

(* Of two such requests the IDs are equal if and only if it is one socket.   *)
LEMMA RequestedFit ==
    ASSUME Types', Purposes', MultiThreadAssumption, \A x \in Requests' : Fits(x)'
    PROVE  Requested'
<1>1. ASSUME NEW x \in Requests', NEW y \in Requests'
      PROVE  x.purpose = y.purpose <=> EndOf(y) \in {EndOf(x), OtherEnd(EndOf(x))}
  <2>1. /\ EndOf(x) \in AllEnds(program'.code) /\ EndOf(y) \in AllEnds(program'.code)
        /\ Opened(EndOf(x))' /\ Opened(EndOf(y))'
        /\ x.purpose = purposeIds'[Key(EndOf(x))] /\ y.purpose = purposeIds'[Key(EndOf(y))]
    BY <1>1 DEF Fits, AllEnds, Ready
  <2>2. x.purpose = y.purpose => EndOf(y) \in {EndOf(x), OtherEnd(EndOf(x))}
    BY <2>1 DEF Purposes
  <2>3. purposeIds'[Key(OtherEnd(EndOf(x)))] = purposeIds'[Key(EndOf(x))]
    BY <2>1 DEF Purposes
  <2> QED
    BY <2>1, <2>2, <2>3
<1> QED
  BY <1>1 DEF Requested, Fits

(* Pairs reach their socket.                                                 *)
LEMMA RequestsMatch ==
    ASSUME Types, Requested, MultiThreadAssumption
    PROVE  PairsReachTheirSocket
<1>1. SUFFICES ASSUME NEW p \in pairs, NEW r \in recvs
               PROVE  For(p, r) <=> /\ p.peer = r.node /\ Remote(p.sck) = Local(r.node, r.sck)
                                    /\ Remote(r.sck) = Local(p.node, p.sck)
  BY DEF PairsReachTheirSocket
<1>2. /\ p.peer = p.sck.peer /\ r.peer = r.sck.peer
      /\ <<p.node, p.sck>> \in AllEnds(program.code) /\ <<r.node, r.sck>> \in AllEnds(program.code)
      /\ p.purpose = r.purpose <=> EndOf(r) \in {EndOf(p), OtherEnd(EndOf(p))}
  BY DEF Requested, Requests, EndOf, AllEnds
<1>3. /\ p.node # p.sck.peer
      /\ r.sck = [id |-> r.sck.id, peer |-> r.sck.peer, peerId |-> r.sck.peerId]
  <2>1. program \in Programs
    BY DEF Types
  <2>2. PICK e \in AllEnds(program.code) : e = <<p.node, p.sck>>
    BY <1>2
  <2>3. PICK f \in AllEnds(program.code) : f = <<r.node, r.sck>>
    BY <1>2
  <2>4. e[1] # e[2].peer
    BY <2>1, EndFacts
  <2>5. f = <<f[1], [id |-> f[2].id, peer |-> f[2].peer, peerId |-> f[2].peerId]>>
    BY <2>1, EndFacts
  <2> QED
    BY <2>2, <2>3, <2>4, <2>5
<1>4. OtherEnd(EndOf(p)) =
          <<p.sck.peer, [id |-> p.sck.peerId, peer |-> p.node, peerId |-> p.sck.id]>>
  BY DEF OtherEnd, EndOf
<1>5. ASSUME For(p, r)
      PROVE  /\ p.peer = r.node /\ Remote(p.sck) = Local(r.node, r.sck)
             /\ Remote(r.sck) = Local(p.node, p.sck)
  <2>1. p.peer = r.node /\ p.purpose = r.purpose
    BY <1>5 DEF For
  <2>2. <<r.node, r.sck>> = OtherEnd(EndOf(p))
    BY <1>2, <1>3, <2>1 DEF EndOf
  <2>3. /\ r.node = p.sck.peer
        /\ r.sck = [id |-> p.sck.peerId, peer |-> p.node, peerId |-> p.sck.id]
    BY <1>4, <2>2
  <2> QED
    BY <2>1, <2>3 DEF Remote, Local
<1>6. ASSUME /\ p.peer = r.node /\ Remote(p.sck) = Local(r.node, r.sck)
             /\ Remote(r.sck) = Local(p.node, p.sck)
      PROVE  For(p, r)
  <2>1. /\ r.sck.id = p.sck.peerId /\ r.node = p.sck.peer
        /\ r.sck.peerId = p.sck.id /\ r.sck.peer = p.node
    BY <1>6 DEF Remote, Local
  <2>2. EndOf(r) = OtherEnd(EndOf(p))
    BY <1>3, <1>4, <2>1 DEF EndOf
  <2> QED
    BY <1>2, <1>6, <2>1, <2>2 DEF For
<1> QED
  BY <1>5, <1>6

-----------------------------------------------------------------------------
(* The steps of the handlers.                                                *)

Sound == Types /\ Purposes /\ Requested /\ Ordered

(* The IDs and circuits are as they were.                                    *)
LEMMA SamePurposes ==
    ASSUME Purposes, program' = program, purposeIds' = purposeIds, circuits' = circuits
    PROVE  /\ Purposes'
           /\ \A x : Opened(x)' <=> Opened(x)
           /\ \A x : Ready(x)' <=> Ready(x)
<1>1. \A x : Opened(x)' <=> Opened(x)
  BY DEF Opened, Key
<1>2. \A x : SetUp(x)' <=> SetUp(x)
  BY DEF SetUp, HasCircuit, Local, Remote
<1>3. Purposes'
  BY DEF Purposes, Opened, Ids
<1> QED
  BY <1>1, <1>2, <1>3 DEF Ready

(* What a handler leaves alone, and what it may ask the link layer for.      *)
LEMMA HandlerFrame ==
    ASSUME Sound, MultiThreadAssumption, NEW n \in DOMAIN node, main # "end",
           UNCHANGED <<program, mainvars, backend, apps, circuits, purposeIds>>,
           node' \in [program.nodes -> NodeStates],
           \A m \in program.nodes : m # n => node'[m] = node[m],
           done' \subseteq Nums,
           \A x \in Requests' : x \in Requests \/ Fits(x)
    PROVE  OnlyNode(n) /\ Types' /\ Purposes' /\ Requested'
<1>1. UNCHANGED <<program, main, round, results, scan, backend, pc, waiters, circuits,
                  purposeIds>>
  BY DEF mainvars, apps
<1>2. Types'
  BY <1>1 DEF Types, Sound
<1>3. /\ Purposes'
      /\ \A e : Opened(e)' <=> Opened(e)
      /\ \A e : Ready(e)' <=> Ready(e)
  BY <1>1, SamePurposes DEF Sound
<1>4. OnlyNode(n)
  BY <1>1, <1>3 DEF OnlyNode
<1>5. ASSUME NEW x \in Requests'  PROVE  Fits(x)'
  <2>1. Fits(x)
    BY <1>5 DEF Sound, Requested, Fits
  <2> QED
    BY <1>1, <1>3, <2>1 DEF Fits
<1> QED
  BY <1>2, <1>3, <1>4, <1>5, RequestedFit

(* A step that does not ask the link layer for anything.                     *)
LEMMA NoNewRequests ==
    ASSUME UNCHANGED network
    PROVE  UNCHANGED <<circuits, purposeIds>> /\ \A x \in Requests' : x \in Requests
BY DEF network, Requests

(* NoMessage, NoTasks.                                                       *)
LEMMA PlaceSound ==
    ASSUME Sound, MultiThreadAssumption, NEW n \in DOMAIN node, main # "end",
           NoMessage(n) \/ NoTasks(n)
    PROVE  Sound'
<1>1. PICK at \in {"loop", "task"} : node' = Set(n, "at", at)
  BY DEF NoMessage, NoTasks
<1>2. UNCHANGED <<program, mainvars, backend, apps, network, done>>
  BY DEF NoMessage, NoTasks
<1>3. node' \in [program.nodes -> NodeStates] /\ \A m \in program.nodes : m # n => node'[m] = node[m]
  BY <1>1, GoesOnAt DEF Becoming, Places, Sound
<1>4. OnlyNode(n) /\ Types' /\ Purposes' /\ Requested'
  BY <1>2, <1>3, NoNewRequests, HandlerFrame DEF Sound, Types
<1>5. Ordered'
  BY <1>1, <1>4, PlaceOrdered DEF Sound
<1> QED
  BY <1>4, <1>5 DEF Sound

(* PickSubroutine.                                                           *)
LEMMA PickSound ==
    ASSUME Sound, MultiThreadAssumption, NEW n \in DOMAIN node, main # "end",
           NEW i \in DOMAIN node[n].subs, PickSubroutine(n, i)
    PROVE  Sound'
<1>1. UNCHANGED <<program, mainvars, backend, apps, network, done>>
  BY DEF PickSubroutine
<1>2. node' \in [program.nodes -> NodeStates] /\ \A m \in program.nodes : m # n => node'[m] = node[m]
  BY PickBecomes DEF Becoming, Sound
<1>3. OnlyNode(n) /\ Types' /\ Purposes' /\ Requested'
  BY <1>1, <1>2, NoNewRequests, HandlerFrame DEF Sound, Types
<1>4. Ordered'
  BY <1>3, PickOrdered DEF Sound
<1> QED
  BY <1>3, <1>4 DEF Sound

(* HandleInit.                                                               *)
LEMMA HandleInitSound ==
    ASSUME Sound, MultiThreadAssumption, NEW n \in DOMAIN node, main # "end", HandleInit(n)
    PROVE  Sound'
<1>1. UNCHANGED <<program, mainvars, backend, apps, network>>
  BY DEF HandleInit
<1>2. /\ node' \in [program.nodes -> NodeStates]
      /\ \A m \in program.nodes : m # n => node'[m] = node[m]
      /\ done' = done \cup {Head(node[n].queue).num} /\ Head(node[n].queue) \in Messages
  BY HandleInitBecomes DEF Becoming, Sound
<1>3. done' \subseteq Nums
  BY <1>2 DEF Messages, Sound, Types
<1>4. OnlyNode(n) /\ Types' /\ Purposes' /\ Requested'
  BY <1>1, <1>2, <1>3, NoNewRequests, HandlerFrame
<1>5. Ordered'
  BY <1>4, HandleInitOrdered DEF Sound
<1> QED
  BY <1>4, <1>5 DEF Sound

(* HandleMessage.                                                            *)
LEMMA HandleMessageSound ==
    ASSUME Sound, MultiThreadAssumption, NEW n \in DOMAIN node, main # "end", HandleMessage(n)
    PROVE  Sound'
<1>1. UNCHANGED <<program, mainvars, backend, apps, network, done>>
  BY DEF HandleMessage
<1>2. /\ node' \in [program.nodes -> NodeStates]
      /\ \A m \in program.nodes : m # n => node'[m] = node[m]
  BY HandleMessageBecomes DEF Becoming, Sound
<1>3. OnlyNode(n) /\ Types' /\ Purposes' /\ Requested'
  BY <1>1, <1>2, NoNewRequests, HandlerFrame DEF Sound, Types
<1>4. Ordered'
  BY <1>3, HandleMessageOrdered DEF Sound
<1> QED
  BY <1>3, <1>4 DEF Sound

(* FinishOther.                                                              *)
LEMMA FinishOtherSound ==
    ASSUME Sound, MultiThreadAssumption, NEW n \in DOMAIN node, main # "end", FinishOther(n)
    PROVE  Sound'
<1>1. UNCHANGED <<program, mainvars, backend, apps, network>>
  BY DEF FinishOther
<1>2. /\ node' \in [program.nodes -> NodeStates]
      /\ \A m \in program.nodes : m # n => node'[m] = node[m]
      /\ done' = done \cup {Head(node[n].other).num} /\ Head(node[n].other) \in Tasks
  BY FinishOtherBecomes DEF Becoming, Sound
<1>3. done' \subseteq Nums
  BY <1>2 DEF Tasks, Sound, Types
<1>4. OnlyNode(n) /\ Types' /\ Purposes' /\ Requested'
  BY <1>1, <1>2, <1>3, NoNewRequests, HandlerFrame
<1>5. Ordered'
  BY <1>4, FinishOtherOrdered DEF Sound
<1> QED
  BY <1>4, <1>5 DEF Sound

(* FinishSubroutine.                                                         *)
LEMMA FinishSubroutineSound ==
    ASSUME Sound, MultiThreadAssumption, NEW n \in DOMAIN node, main # "end",
           NEW i \in DOMAIN node[n].subs, FinishSubroutine(n, i)
    PROVE  Sound'
<1>1. UNCHANGED <<program, mainvars, backend, apps, network>>
  BY DEF FinishSubroutine
<1>2. /\ node' \in [program.nodes -> NodeStates]
      /\ \A m \in program.nodes : m # n => node'[m] = node[m]
      /\ done' = done \cup {node[n].subs[i].num} /\ node[n].subs[i] \in Tasks
  BY FinishSubroutineBecomes DEF Becoming, Sound
<1>3. done' \subseteq Nums
  BY <1>2 DEF Tasks, Sound, Types
<1>4. OnlyNode(n) /\ Types' /\ Purposes' /\ Requested'
  BY <1>1, <1>2, <1>3, NoNewRequests, HandlerFrame
<1>5. Ordered'
  BY <1>4, FinishSubroutineOrdered DEF Sound
<1> QED
  BY <1>4, <1>5 DEF Sound

(* Timeout changes no node.                                                  *)
LEMMA TimeoutSound ==
    ASSUME Sound, MultiThreadAssumption, NEW n \in DOMAIN node, main # "end", Timeout(n)
    PROVE  Sound'
<1>1. UNCHANGED <<program, mainvars, backend, apps, node, network, done>>
  BY DEF Timeout
<1>2. /\ node' \in [program.nodes -> NodeStates] /\ \A m \in program.nodes : m # n => node'[m] = node[m]
      /\ done' \subseteq Nums
  BY <1>1 DEF Sound, Types
<1>3. OnlyNode(n) /\ Types' /\ Purposes' /\ Requested'
  BY <1>1, <1>2, NoNewRequests, HandlerFrame
<1>4. Ordered'
  BY <1>1, <1>3, OrderedElsewhere DEF Sound, OnlyNode
<1> QED
  BY <1>3, <1>4 DEF Sound

(* RunsOther, with the socket of the task open after it.                     *)
LEMMA RunsOtherSound ==
    ASSUME Sound, MultiThreadAssumption, NEW n \in DOMAIN node, main # "end",
           node[n].other # <<>>, NEW finished \in BOOLEAN, RunsOther(n, finished),
           UNCHANGED <<program, mainvars, backend, apps, network, done>>,
           NEW sck, sck = Head(node[n].other).arg,
           Head(node[n].other).kind = "open" =>
               Opened(<<n, sck>>) /\ (finished => SetUp(<<n, sck>>))
    PROVE  Sound'
<1>1. PICK t \in Tasks : Becoming(n, node[n].queue, node[n].fin, [node[n].other EXCEPT ![1] = t],
                                  node[n].subs, "loop")
  BY RunsOtherBecomes DEF Sound
<1>2. OnlyNode(n) /\ Types' /\ Purposes' /\ Requested'
  BY <1>1, NoNewRequests, HandlerFrame DEF Becoming, Sound, Types
<1>3. Head(node[n].other).kind = "open" =>
          Opened(<<n, sck>>)' /\ (finished => SetUp(<<n, sck>>)')
  BY <1>2 DEF OnlyNode, Ready
<1>4. Ordered'
  BY <1>2, <1>3, RunsOtherOrdered DEF Sound
<1> QED
  BY <1>2, <1>4 DEF Sound

(* StopApplication and PollSocket.                                           *)
LEMMA OtherSound ==
    ASSUME Sound, MultiThreadAssumption, NEW n \in DOMAIN node, main # "end",
           StopApplication(n) \/ PollSocket(n)
    PROVE  Sound'
<1>1. PICK sck : sck = Head(node[n].other).arg
  OBVIOUS
<1>2. CASE StopApplication(n)
  BY <1>1, <1>2, RunsOtherSound DEF StopApplication, OtherTask
<1>3. CASE PollSocket(n)
  <2>1. /\ node[n].other # <<>> /\ Head(node[n].other).kind = "open"
        /\ Head(node[n].other).begun
        /\ RunsOther(n, HasCircuit(circuits, n, sck))
        /\ UNCHANGED <<program, mainvars, backend, apps, network, done>>
    BY <1>1, <1>3 DEF PollSocket, OtherTask
  <2>2. HasCircuit(circuits, n, sck) \in BOOLEAN
    BY DEF HasCircuit
  <2>3. 1 \in DOMAIN node[n].other /\ node[n].other[1] = Head(node[n].other)
    BY <2>1, NodeFields DEF Sound
  <2>4. Opened(<<n, sck>>)
    BY <1>1, <2>1, <2>3 DEF Sound, Ordered, InTurn
  <2>5. HasCircuit(circuits, n, sck) => SetUp(<<n, sck>>)
    BY DEF SetUp
  <2> QED
    BY <1>1, <2>1, <2>2, <2>4, <2>5, RunsOtherSound
<1> QED
  BY <1>2, <1>3

(* SetupSocket: the socket gets its ID.                                      *)
LEMMA SetupSocketSound ==
    ASSUME Sound, MultiThreadAssumption, NEW n \in DOMAIN node, main # "end", SetupSocket(n)
    PROVE  Sound'
<1>1. PICK sck : sck = Head(node[n].other).arg
  OBVIOUS
<1>2. /\ node[n].other # <<>> /\ Head(node[n].other).kind = "open"
      /\ purposeIds' = Assigned(n, sck)
      /\ circuits' = circuits \cup {<<Local(n, sck), Remote(sck)>>}
      /\ RunsOther(n, HasCircuit(circuits', n, sck))
      /\ UNCHANGED <<program, mainvars, backend, apps, creates, pairs, recvs, arrays, done>>
  BY <1>1 DEF SetupSocket, OtherTask
<1>3. UNCHANGED <<program, main, round, results, scan, backend, pc, waiters, creates, pairs,
                  recvs, done>>
  BY <1>2 DEF mainvars, apps
<1>4. PICK finished \in BOOLEAN : RunsOther(n, finished) /\ (finished => SetUp(<<n, sck>>)')
  <2>1. HasCircuit(circuits', n, sck) \in BOOLEAN
    BY DEF HasCircuit
  <2>2. HasCircuit(circuits', n, sck) => SetUp(<<n, sck>>)'
    BY DEF SetUp, HasCircuit, Local, Remote
  <2> QED
    BY <1>2, <2>1, <2>2
<1>5. PICK t \in Tasks : Becoming(n, node[n].queue, node[n].fin, [node[n].other EXCEPT ![1] = t],
                                  node[n].subs, "loop")
  BY <1>2, <1>4, RunsOtherBecomes DEF Sound
<1>6. 1 \in DOMAIN node[n].other /\ node[n].other[1] = Head(node[n].other)
  BY <1>2, NodeFields DEF Sound
<1>7. PICK e \in Ends(program.code) : e = <<n, sck>>
  BY <1>1, <1>2, <1>6 DEF Sound, Ordered, Known
<1>8. /\ Purposes' /\ Opened(<<n, sck>>)'
      /\ \A x : Opened(x) => Opened(x)' /\ purposeIds'[Key(x)] = purposeIds[Key(x)]
  BY <1>2, <1>3, <1>7, AssignedPurposes DEF Sound
<1>9. OnlyNode(n) /\ \A y : Ready(y) => Ready(y)'
  <2>1. \A y : SetUp(y) => SetUp(y)'
    BY <1>2 DEF SetUp, HasCircuit, Local, Remote
  <2>2. \A y : Ready(y) => Ready(y)'
    BY <1>8, <2>1 DEF Ready
  <2> QED
    BY <1>3, <1>5, <1>8, <2>2 DEF OnlyNode, Becoming
<1>10. Types'
  BY <1>3, <1>5 DEF Types, Sound, Becoming
<1>11. ASSUME NEW x \in Requests'  PROVE  Fits(x)'
  <2>1. Fits(x)
    BY <1>3, <1>11 DEF Sound, Requested, Requests, Fits
  <2> QED
    BY <1>3, <1>8, <1>9, <2>1 DEF Fits, Ready
<1>12. Requested'
  BY <1>8, <1>10, <1>11, RequestedFit
<1>13. Ordered'
  BY <1>1, <1>2, <1>4, <1>8, <1>9, RunsOtherOrdered DEF Sound
<1> QED
  BY <1>8, <1>10, <1>12, <1>13 DEF Sound

(* The running task, and the sockets it names.                               *)
LEMMA RunningFacts ==
    ASSUME Sound, NEW n \in DOMAIN node, node[n].at = "run"
    PROVE  /\ Running(n) \in Tasks
           /\ node[n].task \in DOMAIN node[n].subs
           /\ main # "end" => \A sck \in SocketsIn(Running(n).steps) :
                  <<n, sck>> \in Ends(program.code) /\ Ready(<<n, sck>>)
<1>1. node[n].task \in DOMAIN node[n].subs /\ node[n].other = <<>>
  BY DEF Sound, Ordered, RunsAlone
<1>2. Running(n) \in Tasks
  BY <1>1, NodeFields DEF Running, Sound
<1>3. ASSUME main # "end", NEW sck \in SocketsIn(Running(n).steps)
      PROVE  <<n, sck>> \in Ends(program.code) /\ Ready(<<n, sck>>)
  <2>1. <<n, sck>> \in Ends(program.code) /\ OpenOrTask(n, sck)
    BY <1>1, <1>3 DEF Sound, Ordered, Known, InTurn, Running
  <2>2. ~OpensIn(node[n].other, sck)
    BY <1>1 DEF OpensIn
  <2> QED
    BY <2>1, <2>2 DEF OpenOrTask
<1> QED
  BY <1>1, <1>2, <1>3

(* The steps after the first.                                                *)
LEMMA TailSockets ==
    ASSUME NEW S, NEW steps \in Seq(S), steps # <<>>
    PROVE  /\ Tail(steps) \in Seq(S)
           /\ SocketsIn(Tail(steps)) \subseteq SocketsIn(steps)
           /\ Head(steps).kind \in {"create", "recv"} => Head(steps).sck \in SocketsIn(steps)
<1>1. /\ \A i \in DOMAIN Tail(steps) : i + 1 \in DOMAIN steps /\ Tail(steps)[i] = steps[i + 1]
      /\ steps[1] = Head(steps) /\ 1 \in DOMAIN steps
  BY TailFacts
<1>2. Tail(steps) \in Seq(S)
  OBVIOUS
<1> QED
  BY <1>1, <1>2 DEF SocketsIn

(* A step of the running task.                                               *)
LEMMA RunningSound ==
    ASSUME Sound, MultiThreadAssumption, NEW n \in DOMAIN node, main # "end", node[n].at = "run",
           NEW t \in Tasks, NEW at \in {"loop", "run"}, Becomes(n, t, at),
           SocketsIn(t.steps) \subseteq SocketsIn(Running(n).steps),
           UNCHANGED <<program, mainvars, backend, apps, circuits, purposeIds, done>>,
           \A x \in Requests' : x \in Requests \/ Fits(x)
    PROVE  Sound'
<1>1. /\ node' \in [program.nodes -> NodeStates]
      /\ \A m \in program.nodes : m # n => node'[m] = node[m]
  BY RunningFacts, RunningBecomes DEF Becoming, Sound
<1>2. done' \subseteq Nums
  BY DEF Sound, Types
<1>3. OnlyNode(n) /\ Types' /\ Purposes' /\ Requested'
  BY <1>1, <1>2, HandlerFrame
<1>4. Ordered'
  BY <1>3, RunningOrdered DEF Sound
<1> QED
  BY <1>3, <1>4 DEF Sound

\* Of a running task: it has gone on to its next step, or has ended.
Execs(n) ==
    \/ ExecDelay(n) \/ ExecGate(n) \/ ExecStore(n) \/ ExecCreate(n) \/ ExecRecv(n)
    \/ ExecWait(n) \/ EndSubroutine(n)

(* What a running task may become.                                           *)
LEMMA TaskChanges ==
    ASSUME NEW u \in Tasks
    PROVE  /\ \A w \in BOOLEAN : /\ [u EXCEPT !.waiting = w] \in Tasks
                                 /\ SameTask([u EXCEPT !.waiting = w], u)
                                 /\ [u EXCEPT !.waiting = w].steps = u.steps
           /\ /\ [u EXCEPT !.finished = TRUE, !.waiting = FALSE] \in Tasks
              /\ SameTask([u EXCEPT !.finished = TRUE, !.waiting = FALSE], u)
              /\ [u EXCEPT !.finished = TRUE, !.waiting = FALSE].steps = u.steps
           /\ u.steps # <<>> =>
                /\ [u EXCEPT !.steps = Tail(@)] \in Tasks
                /\ SameTask([u EXCEPT !.steps = Tail(@)], u)
                /\ [u EXCEPT !.steps = Tail(@)].steps = Tail(u.steps)
                /\ \A w \in BOOLEAN :
                     /\ [u EXCEPT !.steps = Tail(@), !.waiting = w] \in Tasks
                     /\ SameTask([u EXCEPT !.steps = Tail(@), !.waiting = w], u)
                     /\ [u EXCEPT !.steps = Tail(@), !.waiting = w].steps = Tail(u.steps)
<1>1. /\ u.steps \in Seq(AllSteps) /\ u.waiting \in BOOLEAN /\ u.finished \in BOOLEAN
      /\ u.steps # <<>> => Tail(u.steps) \in Seq(AllSteps)
  BY DEF Tasks
<1>2. ASSUME NEW w \in BOOLEAN, NEW v, v = [u EXCEPT !.waiting = w]
      PROVE  v \in Tasks /\ SameTask(v, u) /\ v.steps = u.steps
  BY <1>2 DEF Tasks, SameTask
<1>3. ASSUME NEW v, v = [u EXCEPT !.finished = TRUE, !.waiting = FALSE]
      PROVE  v \in Tasks /\ SameTask(v, u) /\ v.steps = u.steps
  BY <1>3 DEF Tasks, SameTask
<1>4. ASSUME u.steps # <<>>, NEW v, v = [u EXCEPT !.steps = Tail(@)]
      PROVE  v \in Tasks /\ SameTask(v, u) /\ v.steps = Tail(u.steps)
  <2>1. PICK rest \in Seq(AllSteps) : rest = Tail(u.steps)
    BY <1>1, <1>4
  <2>2. v = [u EXCEPT !.steps = rest]
    BY <1>4, <2>1
  <2>3. v \in Tasks /\ SameTask(v, u) /\ v.steps = rest
    BY <2>2 DEF Tasks, SameTask
  <2> QED
    BY <2>1, <2>3
<1>5. ASSUME u.steps # <<>>, NEW w \in BOOLEAN,
             NEW v, v = [u EXCEPT !.steps = Tail(@), !.waiting = w]
      PROVE  v \in Tasks /\ SameTask(v, u) /\ v.steps = Tail(u.steps)
  <2>1. PICK rest \in Seq(AllSteps) : rest = Tail(u.steps)
    BY <1>1, <1>5
  <2>2. v = [u EXCEPT !.steps = rest, !.waiting = w]
    BY <1>5, <2>1
  <2>3. v \in Tasks /\ SameTask(v, u) /\ v.steps = rest
    BY <2>2 DEF Tasks, SameTask
  <2> QED
    BY <2>1, <2>3
<1> QED
  BY <1>2, <1>3, <1>4, <1>5, Zenon

(* An EPR instruction asks for its own socket.                               *)
LEMMA AsksForOwn ==
    ASSUME Sound, NEW n \in DOMAIN node, main # "end", node[n].at = "run",
           Running(n).steps # <<>>, Head(Running(n).steps).kind \in {"create", "recv"}
    PROVE  Fits(EprRequest(n))
<1>1. PICK sck : sck = Head(Running(n).steps).sck
  OBVIOUS
<1>2. sck \in SocketsIn(Running(n).steps)
  BY <1>1, RunningFacts, TailSockets DEF Tasks
<1>3. <<n, sck>> \in Ends(program.code) /\ Ready(<<n, sck>>)
  BY <1>2, RunningFacts
<1>4. /\ EprRequest(n).peer = sck.peer /\ EprRequest(n).sck = sck /\ EprRequest(n).node = n
      /\ EprRequest(n).purpose = purposeIds[<<n, sck.peer, sck.id>>]
  BY <1>1 DEF EprRequest
<1>5. EndOf(EprRequest(n)) = <<n, sck>> /\ Key(<<n, sck>>) = <<n, sck.peer, sck.id>>
  BY <1>4 DEF EndOf, Key
<1> QED
  BY <1>3, <1>4, <1>5 DEF Fits

(* What the running task's steps have in common.                             *)
LEMMA ExecStep ==
    ASSUME Sound, MultiThreadAssumption, NEW n \in DOMAIN node, main # "end", Execs(n)
    PROVE  /\ node[n].at = "run"
           /\ \E t \in Tasks : \E at \in {"loop", "run"} :
                 /\ Becomes(n, t, at) /\ SameTask(t, Running(n))
                 /\ SocketsIn(t.steps) \subseteq SocketsIn(Running(n).steps)
           /\ UNCHANGED <<program, mainvars, backend, apps, circuits, purposeIds, done, fault>>
           /\ \A x \in Requests' : x \in Requests \/ Fits(x)
<1>1. node[n].at = "run"
  BY DEF Execs, ExecDelay, ExecGate, ExecStore, ExecCreate, ExecRecv, ExecWait, EndSubroutine,
         Executes
<1>2. UNCHANGED <<program, mainvars, backend, apps, circuits, purposeIds, done, fault>>
  BY DEF Execs, ExecDelay, ExecGate, ExecStore, ExecCreate, ExecRecv, ExecWait, EndSubroutine,
         network
<1>3. PICK u \in Tasks : u = Running(n)
  BY <1>1, RunningFacts
<1>4. u.steps \in Seq(AllSteps)
  BY DEF Tasks
<1>5. ASSUME u.steps # <<>>  PROVE  SocketsIn(Tail(u.steps)) \subseteq SocketsIn(u.steps)
  BY <1>4, <1>5, TailSockets
<1> DEFINE GoesOn == \E t \in Tasks : \E at \in {"loop", "run"} :
                        /\ Becomes(n, t, at) /\ SameTask(t, u)
                        /\ SocketsIn(t.steps) \subseteq SocketsIn(u.steps)
<1>6. GoesOn
  <2>1. ASSUME u.steps # <<>>, NEW w \in BOOLEAN,
               Becomes(n, [u EXCEPT !.steps = Tail(@), !.waiting = w], "loop")
        PROVE  GoesOn
    BY <1>5, <2>1, TaskChanges
  <2>2. ASSUME u.steps # <<>>, Becomes(n, [u EXCEPT !.steps = Tail(@)], "run")
        PROVE  GoesOn
    BY <1>5, <2>2, TaskChanges
  <2>3. CASE ExecDelay(n)
    BY <1>3, <2>1, <2>3, Zenon DEF ExecDelay, Executes
  <2>4. CASE ExecGate(n)
    BY <1>3, <2>1, <2>4, Zenon DEF ExecGate, Executes
  <2>5. CASE ExecStore(n) \/ ExecCreate(n) \/ ExecRecv(n)
    BY <1>3, <2>2, <2>5, Zenon DEF ExecStore, ExecCreate, ExecRecv, Executes, Instruction
  <2>6. CASE ExecWait(n)
    <3>1. CASE Instruction(n)
      BY <1>3, <2>2, <2>6, <3>1, Zenon DEF ExecWait, Executes, Instruction
    <3>2. CASE Becomes(n, [u EXCEPT !.waiting = TRUE], "loop")
      BY <3>2, TaskChanges
    <3> QED
      BY <1>3, <2>6, <3>1, <3>2, Zenon DEF ExecWait
  <2>7. CASE EndSubroutine(n)
    <3>1. Becomes(n, [u EXCEPT !.finished = TRUE, !.waiting = FALSE], "loop")
      BY <1>3, <2>7, Zenon DEF EndSubroutine
    <3> QED
      BY <3>1, TaskChanges
  <2> QED
    BY <2>3, <2>4, <2>5, <2>6, <2>7 DEF Execs
<1>7. ASSUME NEW x \in Requests'  PROVE  x \in Requests \/ Fits(x)
  <2>1. CASE ExecCreate(n) \/ ExecRecv(n)
    <3>1. Running(n).steps # <<>> /\ Head(Running(n).steps).kind \in {"create", "recv"}
      BY <2>1 DEF ExecCreate, ExecRecv, Executes
    <3>2. Fits(EprRequest(n))
      BY <1>1, <3>1, AsksForOwn
    <3>3. x \in Requests \/ x = EprRequest(n)
      BY <1>7, <2>1 DEF ExecCreate, ExecRecv, Requests
    <3> QED
      BY <3>2, <3>3
  <2>2. CASE ~(ExecCreate(n) \/ ExecRecv(n))
    BY <1>7, <2>2 DEF Execs, ExecDelay, ExecGate, ExecStore, ExecWait, EndSubroutine, network,
                      Requests
  <2> QED
    BY <2>1, <2>2
<1> QED
  BY <1>1, <1>2, <1>3, <1>6, <1>7

(* The steps of the running task.                                            *)
LEMMA ExecSound ==
    ASSUME Sound, MultiThreadAssumption, NEW n \in DOMAIN node, main # "end", Execs(n)
    PROVE  Sound'
<1>1. /\ node[n].at = "run"
      /\ UNCHANGED <<program, mainvars, backend, apps, circuits, purposeIds, done, fault>>
      /\ \A x \in Requests' : x \in Requests \/ Fits(x)
  BY ExecStep
<1>2. PICK t \in Tasks : \E at \in {"loop", "run"} :
          Becomes(n, t, at) /\ SocketsIn(t.steps) \subseteq SocketsIn(Running(n).steps)
  BY ExecStep
<1>3. PICK at \in {"loop", "run"} :
          Becomes(n, t, at) /\ SocketsIn(t.steps) \subseteq SocketsIn(Running(n).steps)
  BY <1>2
<1> QED
  BY <1>1, <1>3, RunningSound

-----------------------------------------------------------------------------
(* The steps of the other threads and of the link layer.                     *)

(* A step that changes no node and no ID, and asks for nothing.              *)
LEMMA ElsewhereSound ==
    ASSUME Sound, MultiThreadAssumption,
           program' = program, node' = node, UNCHANGED <<circuits, purposeIds>>, done' = done,
           main' \in {"begin", "run", "collect", "stop", "end"}, main' # "end" => main # "end",
           round' \in Nat, backend' \in {"none", "starting", "running", "ended"},
           pc' \in [DOMAIN pc -> Nat], \A a \in DOMAIN pc : pc'[a] = pc[a] \/ pc'[a] \in {0, 1},
           waiters' \subseteq Waiting,
           \A x \in Requests' : x \in Requests
    PROVE  Sound'
<1>1. Types'
  BY DEF Types, Sound
<1>2. /\ Purposes'
      /\ \A x : Opened(x)' <=> Opened(x)
      /\ \A x : Ready(x)' <=> Ready(x)
  BY SamePurposes DEF Sound
<1>3. Ordered'
  BY <1>2, OrderedElsewhere DEF Sound
<1>4. CASE main' = "end"
  <2>1. Requested'
    BY <1>4 DEF Requested, Sound
  <2> QED
    BY <1>1, <1>2, <1>3, <2>1 DEF Sound
<1>5. CASE main' # "end"
  <2>1. ASSUME NEW x \in Requests'  PROVE  Fits(x)'
    <3>1. Fits(x)
      BY <1>5, <2>1 DEF Sound, Requested, Fits
    <3> QED
      BY <1>2, <3>1 DEF Fits
  <2>2. Requested'
    BY <1>1, <1>2, <2>1, RequestedFit
  <2> QED
    BY <1>1, <1>2, <1>3, <2>2 DEF Sound
<1> QED
  BY <1>4, <1>5

(* The link layer hands over what was asked for.                             *)
LEMMA LinkLayerSound ==
    ASSUME Sound, MultiThreadAssumption, LinkLayer
    PROVE  Sound'
<1>1. UNCHANGED <<program, mainvars, backend, apps, node, circuits, purposeIds, done>>
  BY DEF LinkLayer, DeliverPair, HandleEprResponse
<1>2. \A x \in Requests' : x \in Requests
  <2>1. CASE \E c \in creates : DeliverPair(c)
    BY <2>1 DEF DeliverPair, Requests
  <2>2. CASE \E p \in pairs, r \in recvs : HandleEprResponse(p, r)
    BY <2>2 DEF HandleEprResponse, Requests
  <2> QED
    BY <2>1, <2>2 DEF LinkLayer
<1>3. UNCHANGED <<program, main, round, backend, pc, waiters, node, circuits, purposeIds, done>>
  BY <1>1 DEF mainvars, apps
<1>4. /\ main \in {"begin", "run", "collect", "stop", "end"} /\ round \in Nat
      /\ backend \in {"none", "starting", "running", "ended"}
      /\ pc \in [DOMAIN pc -> Nat] /\ waiters \subseteq Waiting
  BY DEF Sound, Types
<1> QED
  BY <1>2, <1>3, <1>4, ElsewhereSound

(* The main thread before and after its rounds, and within them.             *)
LEMMA MainSound ==
    ASSUME Sound, MultiThreadAssumption,
           StartBackend \/ RunApp \/ AsCompleted \/ EndRound \/ RunSimulation \/ EndSimulation
    PROVE  Sound'
<1>1. UNCHANGED <<program, node, waiters, done>> /\ UNCHANGED <<circuits, purposeIds, creates, pairs, recvs>>
  BY DEF StartBackend, RunApp, AsCompleted, EndRound, RunSimulation, EndSimulation, apps, network
<1>2. /\ main' \in {"begin", "run", "collect", "stop", "end"}
      /\ main' # "end" => main # "end"
      /\ backend' \in {"none", "starting", "running", "ended"}
      /\ round' \in Nat
  BY DEF StartBackend, RunApp, AsCompleted, EndRound, RunSimulation, EndSimulation, mainvars,
         Sound, Types
<1>3. /\ pc' \in [DOMAIN pc -> Nat]
      /\ \A a \in DOMAIN pc : pc'[a] = pc[a] \/ pc'[a] \in {0, 1}
  <2>1. pc \in [DOMAIN pc -> Nat]
    BY DEF Sound, Types
  <2>2. CASE RunApp
    BY <2>2 DEF RunApp
  <2>3. CASE EndRound
    BY <2>3 DEF EndRound
  <2>4. CASE StartBackend \/ AsCompleted \/ RunSimulation \/ EndSimulation
    BY <2>1, <2>4 DEF StartBackend, AsCompleted, RunSimulation, EndSimulation, apps
  <2> QED
    BY <2>2, <2>3, <2>4
<1>4. \A x \in Requests' : x \in Requests
  BY <1>1 DEF Requests
<1>5. waiters' \subseteq Waiting
  BY <1>1 DEF Sound, Types
<1> QED
  BY <1>1, <1>2, <1>3, <1>4, <1>5, ElsewhereSound

(* StartHandler, StopHandler.                                                *)
LEMMA HandlerThreadSound ==
    ASSUME Sound, MultiThreadAssumption, NEW n \in DOMAIN node, main # "end",
           StartHandler(n) \/ StopHandler(n)
    PROVE  Sound'
<1>1. PICK at \in {"loop", "stopped"} : node' = Set(n, "at", at)
  BY DEF StartHandler, StopHandler
<1>2. UNCHANGED <<program, mainvars, backend, apps, network, done>>
  BY DEF StartHandler, StopHandler
<1>3. node' \in [program.nodes -> NodeStates] /\ \A m \in program.nodes : m # n => node'[m] = node[m]
  BY <1>1, GoesOnAt DEF Becoming, Places, Sound
<1>4. OnlyNode(n) /\ Types' /\ Purposes' /\ Requested'
  BY <1>2, <1>3, NoNewRequests, HandlerFrame DEF Sound, Types
<1>5. Ordered'
  BY <1>1, <1>4, PlaceOrdered DEF Sound
<1> QED
  BY <1>4, <1>5 DEF Sound

(* JoinBackend resets the IDs, but nobody asks with one any more.            *)
LEMMA JoinBackendSound ==
    ASSUME Sound, JoinBackend
    PROVE  Sound'
<1>1. /\ main' = "end" /\ purposeIds' = <<>>
      /\ UNCHANGED <<program, round, backend, pc, waiters, creates, pairs, recvs, done>>
  BY DEF JoinBackend, apps
<1>2. Types'
  BY <1>1, JoinBackendBecomes DEF Types, Sound
<1>3. Purposes'
  BY <1>1, NoPurposes DEF Types, Sound
<1>4. Requested'
  BY <1>1 DEF Requested, Requests, Sound
<1>5. Ordered'
  BY JoinBackendOrdered DEF Sound
<1> QED
  BY <1>2, <1>3, <1>4, <1>5 DEF Sound

(* Commit.                                                                   *)
LEMMA CommitSound ==
    ASSUME Sound, MultiThreadAssumption, NEW a \in DOMAIN pc, main # "end", Commit(a)
    PROVE  Sound'
<1>1. UNCHANGED <<program, main, round, backend, circuits, purposeIds, creates, pairs, recvs,
                  done>>
  BY DEF Commit, mainvars, network
<1>2. node' \in [program.nodes -> NodeStates] /\ waiters' \subseteq Waiting
      /\ pc' = [pc EXCEPT ![a] = pc[a] + 1]
  BY CommitBecomes DEF Sound, Becoming
<1>3. pc' \in [DOMAIN program.code -> Nat]
  BY <1>2 DEF Sound, Types
<1>4. Types'
  BY <1>1, <1>2, <1>3 DEF Sound, Types
<1>5. /\ Purposes'
      /\ \A x : Opened(x)' <=> Opened(x)
      /\ \A x : Ready(x)' <=> Ready(x)
  BY <1>1, SamePurposes DEF Sound
<1>6. ASSUME NEW x \in Requests'  PROVE  Fits(x)'
  <2>1. Fits(x)
    BY <1>1, <1>6 DEF Sound, Requested, Requests, Fits
  <2> QED
    BY <1>1, <1>5, <2>1 DEF Fits
<1>7. Requested'
  BY <1>4, <1>5, <1>6, RequestedFit
<1>8. Ordered'
  BY CommitOrdered DEF Sound
<1> QED
  BY <1>4, <1>5, <1>7, <1>8 DEF Sound

(* JoinAll opens no socket.                                                  *)
LEMMA JoinAllSound ==
    ASSUME Sound, MultiThreadAssumption, NEW a \in DOMAIN pc, main # "end", JoinAll(a)
    PROVE  Sound'
<1>1. UNCHANGED <<program, main, round, backend, waiters, node, circuits, purposeIds, creates,
                  pairs, recvs, done>>
  BY DEF JoinAll, mainvars, network
<1>2. /\ pc' = [pc EXCEPT ![a] = pc[a] + 1]
      /\ program.code[a][pc[a]].kind = "join"
  BY DEF JoinAll
<1>3. pc \in [DOMAIN program.code -> Nat]
  BY DEF Sound, Types
<1>4. /\ pc' \in [DOMAIN program.code -> Nat] /\ DOMAIN pc' = DOMAIN pc
      /\ \A x \in DOMAIN pc : pc'[x] = pc[x] \/ (x = a /\ pc'[x] = pc[x] + 1)
  BY <1>2, <1>3
<1>5. Types'
  BY <1>1, <1>4 DEF Sound, Types
<1>6. /\ Purposes'
      /\ \A x : Opened(x)' <=> Opened(x)
      /\ \A x : Ready(x)' <=> Ready(x)
  BY <1>1, SamePurposes DEF Sound
<1>7. ASSUME NEW x \in Requests'  PROVE  Fits(x)'
  <2>1. Fits(x)
    BY <1>1, <1>7 DEF Sound, Requested, Requests, Fits
  <2> QED
    BY <1>1, <1>6, <2>1 DEF Fits
<1>8. Requested'
  BY <1>5, <1>6, <1>7, RequestedFit
<1>9. \A n \in DOMAIN node : /\ RunsAlone(n)' /\ Known(n)' /\ InTurn(n)'
                             /\ \A sck : Promised(n, sck) => Promised(n, sck)'
  BY <1>1, <1>6, SameNode DEF Sound, Ordered
<1>10. ASSUME NEW x \in DOMAIN pc, NEW j \in DOMAIN program.code[x],
              j < pc'[x], program.code[x][j].kind = "open",
              NEW sck, sck = program.code[x][j].arg
       PROVE  Promised(NodeOf[x], sck)'
  <2>1. j \in Nat /\ NodeOf[x] \in DOMAIN node /\ pc[x] \in Nat
    BY <1>3, <1>10, CodeFacts DEF Sound, Types
  <2>2. j < pc[x]
    BY <1>2, <1>4, <1>10, <2>1
  <2>3. Promised(NodeOf[x], sck)
    BY <1>10, <2>2 DEF Sound, Ordered, Past
  <2> QED
    BY <1>9, <2>1, <2>3
<1>11. Past'
  BY <1>1, <1>4, <1>10 DEF Past
<1>12. Ordered'
  BY <1>1, <1>9, <1>11 DEF Ordered
<1> QED
  BY <1>5, <1>6, <1>8, <1>12 DEF Sound

(* SeeDone, RemoveDone.                                                      *)
LEMMA WaiterSound ==
    ASSUME Sound, MultiThreadAssumption, NEW w \in waiters, w.app \in DOMAIN pc, Waiter(w)
    PROVE  Sound'
<1>1. /\ main \in {"begin", "run", "collect", "stop", "end"} /\ round \in Nat
      /\ backend \in {"none", "starting", "running", "ended"}
      /\ pc \in [DOMAIN pc -> Nat] /\ waiters \subseteq Waiting /\ w \in Waiting
  BY DEF Sound, Types
<1>2. UNCHANGED <<program, main, round, backend, pc, circuits, purposeIds, creates, pairs,
                  recvs, done>>
  BY DEF Waiter, SeeDone, RemoveDone, mainvars, network
<1>3. \A x \in Requests' : x \in Requests
  BY <1>2 DEF Requests
<1>4. CASE SeeDone(w)
  <2>1. [w EXCEPT !.seen = TRUE] \in Waiting
    BY <1>1 DEF Waiting
  <2>2. waiters' \subseteq Waiting /\ node' = node
    BY <1>1, <1>4, <2>1 DEF SeeDone
  <2> QED
    BY <1>1, <1>2, <1>3, <2>2, ElsewhereSound
<1>5. CASE RemoveDone(w)
  <2>1. PICK n \in DOMAIN node : n = NodeOf[w.app]
    BY CodeFacts DEF Sound, Types
  <2>2. PICK fin \in SUBSET Contents : fin = node[n].fin \ {w.msg}
    BY NodeFields DEF Sound
  <2>3. node' = Set(n, "fin", fin) /\ waiters' \subseteq Waiting
    BY <1>1, <1>5, <2>1, <2>2 DEF RemoveDone
  <2>4. /\ node' \in [program.nodes -> NodeStates]
        /\ \A m \in program.nodes : m # n => node'[m] = node[m]
    BY <2>3, FinChanges DEF Becoming, Sound
  <2>5. Types'
    BY <1>1, <1>2, <2>3, <2>4 DEF Types, Sound
  <2>6. /\ Purposes'
        /\ \A x : Opened(x)' <=> Opened(x)
        /\ \A x : Ready(x)' <=> Ready(x)
    BY <1>2, SamePurposes DEF Sound
  <2>7. Requested'
    BY <1>2, <2>6 DEF Requested, Requests, Sound
  <2>8. OnlyNode(n)
    BY <1>2, <2>4, <2>6 DEF OnlyNode
  <2>9. Ordered'
    BY <2>3, <2>8, FinOrdered DEF Sound
  <2> QED
    BY <2>5, <2>6, <2>7, <2>9 DEF Sound
<1> QED
  BY <1>4, <1>5 DEF Waiter

-----------------------------------------------------------------------------
(* The main thread collects a result of every program.                       *)

(* Steps of other threads end no program and make none wait.                 *)
LEMMA CollectedElsewhere ==
    ASSUME Collected, UNCHANGED <<program, main, round, results, scan, pc>>,
           main = "end" => backend' = "ended",
           \A a \in DOMAIN pc : Joining(a)' => Joining(a)
    PROVE  Collected'
<1>1. \A a \in DOMAIN pc : /\ Ended(a) => Ended(a)'
                           /\ Future(a) => Future(a)'
                           /\ HasResult(a) => HasResult(a)'
  BY DEF Ended, Future, HasResult
<1>2. /\ main' = "begin" => round' = 0
      /\ main' = "collect" => round' < program'.rounds
      /\ main' = "end" => backend' = "ended"
      /\ main' # "collect" => \A a \in DOMAIN pc' : pc'[a] = 0
      /\ results' \in Seq({<<a, a>> : a \in DOMAIN pc'})
  BY DEF Collected
<1>3. main' = "collect" =>
         /\ scan'.futures \in Seq(DOMAIN pc') /\ scan'.i \in Nat
         /\ scan' = [futures |-> scan'.futures, names |-> scan'.futures, i |-> scan'.i]
         /\ scan'.futures # <<>> => scan'.i \in DOMAIN scan'.futures
  BY DEF Collected
<1>4. main' = "collect" => \A a \in DOMAIN pc' : Future(a)' \/ (HasResult(a) /\ Ended(a))'
  BY <1>1 DEF Collected
<1>5. main' \in {"run", "stop", "end"} /\ round' > 0 => \A a \in DOMAIN pc' : HasResult(a)'
  BY <1>1 DEF Collected
<1> QED
  BY <1>2, <1>3, <1>4, <1>5 DEF Collected

(* A program that goes on has not ended.                                     *)
LEMMA CollectedGoesOn ==
    ASSUME Types, Collected, UNCHANGED <<program, main, round, results, scan, backend>>,
           NEW a \in DOMAIN pc, ~Ended(a), main = "collect",
           pc' = [pc EXCEPT ![a] = pc[a] + 1],
           \A x \in DOMAIN pc : x # a => (Joining(x)' => Joining(x))
    PROVE  Collected'
<1>1. /\ DOMAIN pc' = DOMAIN pc
      /\ \A x \in DOMAIN pc : x # a => pc'[x] = pc[x]
  BY DEF Types
<1>2. \A x \in DOMAIN pc : /\ Ended(x) => Ended(x)'
                           /\ Future(x) => Future(x)'
                           /\ HasResult(x) => HasResult(x)'
  BY <1>1 DEF Ended, Future, HasResult
<1>3. /\ round' < program'.rounds
      /\ results' \in Seq({<<x, x>> : x \in DOMAIN pc'})
      /\ scan'.futures \in Seq(DOMAIN pc') /\ scan'.i \in Nat
      /\ scan' = [futures |-> scan'.futures, names |-> scan'.futures, i |-> scan'.i]
      /\ scan'.futures # <<>> => scan'.i \in DOMAIN scan'.futures
  BY <1>1 DEF Collected
<1>4. \A x \in DOMAIN pc' : Future(x)' \/ (HasResult(x) /\ Ended(x))'
  BY <1>1, <1>2 DEF Collected
<1> QED
  BY <1>3, <1>4 DEF Collected

(* RunApp starts them all.                                                   *)
LEMMA RunAppCollected ==
    ASSUME Types, Collected, MultiThreadAssumption, RunApp
    PROVE  Collected'
<1>1. PICK names : names = SetToSeq(DOMAIN pc)
  OBVIOUS
<1>2. IsFiniteSet(DOMAIN pc)
  BY DEF Types, MultiThreadAssumption
<1>3. names \in Seq(DOMAIN pc) /\ \A a \in DOMAIN pc : \E i \in DOMAIN names : names[i] = a
  BY <1>1, <1>2, SetToSeqFacts
<1>4. /\ main' = "collect" /\ round' = round /\ program' = program /\ round < program.rounds
      /\ pc' = [a \in DOMAIN pc |-> 1] /\ results' = <<>>
      /\ scan' = [futures |-> names, names |-> names, i |-> 1]
  BY <1>1 DEF RunApp
<1>5. DOMAIN pc' = DOMAIN pc
  BY <1>4
<1>6. /\ scan'.futures = names /\ scan'.names = names /\ scan'.i = 1
      /\ names # <<>> => 1 \in DOMAIN names
  BY <1>3, <1>4
<1>7. \A a \in DOMAIN pc' : Future(a)'
  BY <1>3, <1>5, <1>6 DEF Future
<1>8. results' \in Seq({<<a, a>> : a \in DOMAIN pc'})
  BY <1>4
<1> QED
  BY <1>3, <1>4, <1>5, <1>6, <1>7, <1>8 DEF Collected

(* EndRound: all results are there.                                          *)
LEMMA EndRoundCollected ==
    ASSUME Types, Collected, EndRound
    PROVE  Collected'
<1>1. /\ main = "collect" /\ scan.futures = <<>> /\ main' \in {"run", "stop"}
      /\ UNCHANGED <<program, results>> /\ pc' = [a \in DOMAIN pc |-> 0]
      /\ main' = "run" \/ main' = "stop"
  BY DEF EndRound
<1>2. DOMAIN pc' = DOMAIN pc /\ \A a \in DOMAIN pc : pc'[a] = 0
  BY <1>1
<1>3. \A a \in DOMAIN pc : HasResult(a)'
  BY <1>1 DEF Collected, Future, HasResult
<1>4. results' \in Seq({<<a, a>> : a \in DOMAIN pc'})
  BY <1>1, <1>2 DEF Collected
<1> QED
  BY <1>1, <1>2, <1>3, <1>4 DEF Collected

(* A sequence of names without its i-th keeps the others.                    *)
LEMMA OthersStay ==
    ASSUME NEW S, NEW s \in Seq(S), NEW i \in DOMAIN s, NEW j \in DOMAIN s, j # i
    PROVE  \E k \in DOMAIN RemoveAt(s, i) : RemoveAt(s, i)[k] = s[j]
<1> DEFINE r == RemoveAt(s, i)
<1>1. r \in Seq(S) /\ Len(r) = Len(s) - 1
      /\ \A k \in 1 .. Len(s) - 1 : r[k] = s[IF k < i THEN k ELSE k + 1]
  BY Removed
<1> HIDE DEF r
<1>2. Len(s) \in Nat /\ i \in 1 .. Len(s) /\ j \in 1 .. Len(s)
  OBVIOUS
<1>3. DOMAIN r = 1 .. Len(s) - 1
  BY <1>1, <1>2
<1>4. ASSUME j < i
      PROVE  \E k \in DOMAIN r : r[k] = s[j]
  BY <1>1, <1>2, <1>3, <1>4
<1>5. ASSUME ~(j < i)
      PROVE  \E k \in DOMAIN r : r[k] = s[j]
  <2>1. j - 1 \in 1 .. Len(s) - 1 /\ ~(j - 1 < i) /\ j - 1 + 1 = j
    BY <1>2, <1>5
  <2> QED
    BY <1>1, <1>3, <2>1
<1>6. \E k \in DOMAIN r : r[k] = s[j]
  BY <1>4, <1>5
<1> QED
  BY <1>6 DEF r

(* AsCompleted takes a future and the name at the same place.                *)
LEMMA AsCompletedCollected ==
    ASSUME Types, Collected, AsCompleted
    PROVE  Collected'
<1>1. /\ main = "collect" /\ scan.futures # <<>>
      /\ UNCHANGED <<program, main, round, backend, pc, waiters>>
  BY DEF AsCompleted, apps
<1>2. PICK s, i : /\ s = scan.futures /\ i = scan.i
  OBVIOUS
<1>3. /\ s \in Seq(DOMAIN pc) /\ i \in DOMAIN s /\ s # <<>>
      /\ scan = [futures |-> s, names |-> s, i |-> i]
  BY <1>1, <1>2 DEF Collected
<1>4. \A a \in DOMAIN pc : Ended(a)' <=> Ended(a)
  BY <1>1 DEF Ended, Joining
<1>5. /\ round < program.rounds /\ results \in Seq({<<a, a>> : a \in DOMAIN pc})
      /\ \A a \in DOMAIN pc : Future(a) \/ (HasResult(a) /\ Ended(a))
  BY <1>1 DEF Collected
<1>6. ASSUME NEW r \in Seq(DOMAIN pc), NEW k \in Nat, r # <<>> => k \in DOMAIN r,
             scan' = [futures |-> r, names |-> r, i |-> k],
             results' \in Seq({<<a, a>> : a \in DOMAIN pc}),
             \A a \in DOMAIN pc : Future(a)' \/ (HasResult(a)' /\ Ended(a))
      PROVE  Collected'
  <2>1. scan'.futures = r /\ scan'.i = k
    BY <1>6
  <2>2. /\ scan'.futures \in Seq(DOMAIN pc') /\ scan'.i \in Nat
        /\ scan' = [futures |-> scan'.futures, names |-> scan'.futures, i |-> scan'.i]
        /\ scan'.futures # <<>> => scan'.i \in DOMAIN scan'.futures
    BY <1>1, <1>6, <2>1
  <2>3. \A a \in DOMAIN pc' : Future(a)' \/ (HasResult(a) /\ Ended(a))'
    BY <1>1, <1>4, <1>6
  <2>4. main' = "collect" /\ round' < program'.rounds
        /\ results' \in Seq({<<a, a>> : a \in DOMAIN pc'})
    BY <1>1, <1>5, <1>6
  <2> QED
    BY <2>2, <2>3, <2>4 DEF Collected
<1>7. Len(s) \in Nat \ {0} /\ DOMAIN s = 1 .. Len(s) /\ i \in 1 .. Len(s) /\ s[i] \in DOMAIN pc
  BY <1>3
<1>8. CASE Ended(s[i])
  <2> DEFINE r == RemoveAt(s, i)
             k == IF i + 1 > Len(s) - 1 THEN 1 ELSE i + 1
  <2>1. /\ scan' = [scan EXCEPT !.futures = RemoveAt(@, i), !.names = RemoveAt(@, i), !.i = k]
        /\ results' = Append(results, <<s[i], s[i]>>)
    <3>1. scan.futures = s /\ scan.names = s /\ scan.i = i
      BY <1>3
    <3> QED
      BY <1>7, <1>8, <3>1 DEF AsCompleted, NextIndex
  <2>2. r \in Seq(DOMAIN pc) /\ Len(r) = Len(s) - 1
    BY <1>3, Removed
  <2>3. scan' = [futures |-> r, names |-> r, i |-> k]
    BY <1>3, <2>1
  <2> HIDE DEF r
  <2>4. k \in Nat /\ (r # <<>> => k \in DOMAIN r)
    BY <1>7, <2>2
  <2>5. /\ results' \in Seq({<<a, a>> : a \in DOMAIN pc})
        /\ \A j \in DOMAIN results : j \in DOMAIN results' /\ results'[j] = results[j]
        /\ \E j \in DOMAIN results' : results'[j] = <<s[i], s[i]>>
    <3>1. PICK R : R = {<<a, a>> : a \in DOMAIN pc}
      OBVIOUS
    <3>2. results \in Seq(R) /\ <<s[i], s[i]>> \in R
      BY <1>5, <1>7, <3>1
    <3>3. /\ results' \in Seq(R)
          /\ \A j \in DOMAIN results : j \in DOMAIN results' /\ results'[j] = results[j]
          /\ Len(results) + 1 \in DOMAIN results'
          /\ results'[Len(results) + 1] = <<s[i], s[i]>>
      BY <2>1, <3>2
    <3> QED
      BY <3>1, <3>3
  <2>6. ASSUME NEW a \in DOMAIN pc
        PROVE  Future(a)' \/ (HasResult(a)' /\ Ended(a))
    <3>0. \A j \in DOMAIN s : j # i => \E l \in DOMAIN r : r[l] = s[j]
      BY <1>3, OthersStay DEF r
    <3>1. CASE a = s[i]
      BY <1>8, <2>5, <3>1 DEF HasResult
    <3>2. CASE a # s[i] /\ Future(a)
      <4>1. PICK j \in DOMAIN s : s[j] = a
        BY <1>2, <3>2 DEF Future
      <4>2. \E l \in DOMAIN r : r[l] = a
        BY <3>0, <3>2, <4>1
      <4>3. scan'.futures = r
        BY <2>3
      <4> QED
        BY <4>2, <4>3 DEF Future
    <3>3. CASE ~Future(a)
      <4>1. HasResult(a) /\ Ended(a)
        BY <1>5, <3>3
      <4> QED
        BY <2>5, <4>1 DEF HasResult
    <3> QED
      BY <3>1, <3>2, <3>3
  <2> HIDE DEF k
  <2> QED
    BY <1>6, <2>2, <2>3, <2>4, <2>5, <2>6
<1>9. CASE ~Ended(s[i])
  <2> DEFINE k == IF i + 1 > Len(s) THEN 1 ELSE i + 1
  <2>1. /\ scan' = [futures |-> s, names |-> s, i |-> k] /\ results' = results
    <3>1. scan.futures = s /\ scan.names = s /\ scan.i = i
      BY <1>3
    <3>2. Len(s) - 0 = Len(s)
      BY <1>7
    <3>3. /\ scan' = [scan EXCEPT !.futures = s, !.names = s, !.i = k] /\ results' = results
      BY <1>9, <3>1, <3>2 DEF AsCompleted, NextIndex
    <3> QED
      BY <1>3, <3>3
  <2>3. k \in Nat /\ k \in DOMAIN s
    BY <1>7
  <2>4. \A a \in DOMAIN pc : Future(a)' \/ (HasResult(a)' /\ Ended(a))
    <3>1. scan'.futures = scan.futures
      BY <1>2, <2>1
    <3> QED
      BY <1>5, <2>1, <3>1 DEF Future, HasResult
  <2> HIDE DEF k
  <2> QED
    BY <1>3, <1>5, <1>6, <2>1, <2>3, <2>4
<1> QED
  BY <1>8, <1>9

(* Steps that leave the programs and the main thread alone.                  *)
LEMMA ElsewhereCollected ==
    ASSUME Collected,
           \/ \E n \in DOMAIN node : Handler(n) \/ StartHandler(n) \/ StopHandler(n)
           \/ LinkLayer \/ RunSimulation \/ EndSimulation
    PROVE  Collected'
<1>1. UNCHANGED <<program, mainvars, pc, waiters>> /\ (backend = "ended" => backend' = "ended")
  <2>1. CASE \E n \in DOMAIN node : Handler(n)
    <3>1. UNCHANGED <<program, mainvars, backend, apps>>
      BY <2>1 DEF Handler, NoMessage, HandleInit, HandleMessage, FinishOther, StopApplication,
            SetupSocket, PollSocket, Timeout, NoTasks, FinishSubroutine, PickSubroutine, ExecDelay,
            ExecGate, ExecStore, ExecCreate, ExecRecv, ExecWait, EndSubroutine
    <3> QED
      BY <3>1 DEF apps
  <2>2. CASE \E n \in DOMAIN node : StartHandler(n) \/ StopHandler(n)
    BY <2>2 DEF StartHandler, StopHandler, apps
  <2>3. CASE LinkLayer
    BY <2>3 DEF LinkLayer, DeliverPair, HandleEprResponse, apps
  <2>4. CASE RunSimulation \/ EndSimulation
    BY <2>4 DEF RunSimulation, EndSimulation, apps
  <2> QED
    BY <2>1, <2>2, <2>3, <2>4
<1>2. UNCHANGED <<program, main, round, results, scan, pc>>
      /\ \A a \in DOMAIN pc : Joining(a)' => Joining(a)
  BY <1>1 DEF mainvars, Joining
<1>3. main = "end" => backend' = "ended"
  BY <1>1 DEF Collected
<1> QED
  BY <1>2, <1>3, CollectedElsewhere

(* Waiters that go stop no program.                                          *)
LEMMA WaiterCollected ==
    ASSUME Types, Collected, NEW w \in waiters, Waiter(w)
    PROVE  Collected'
<1>1. UNCHANGED <<program, main, round, results, scan, pc, backend>>
  BY DEF Waiter, SeeDone, RemoveDone, mainvars
<1>2. \A a \in DOMAIN pc : Joining(a)' => Joining(a)
  <2>1. w \in Waiting
    BY DEF Types
  <2>2. CASE SeeDone(w)
    <3>1. PICK u : u = [w EXCEPT !.seen = TRUE]
      OBVIOUS
    <3>2. waiters' \subseteq waiters \cup {u} /\ u.app = w.app /\ u.block = w.block
      BY <2>1, <2>2, <3>1 DEF SeeDone, Waiting
    <3> QED
      BY <3>2 DEF Joining
  <2>3. CASE RemoveDone(w)
    BY <2>3 DEF RemoveDone, Joining
  <2> QED
    BY <2>2, <2>3 DEF Waiter
<1>3. main = "end" => backend' = "ended"
  BY <1>1 DEF Collected
<1> QED
  BY <1>1, <1>2, <1>3, CollectedElsewhere

(* The backend is started and joined.                                        *)
LEMMA BackendCollected ==
    ASSUME Collected, StartBackend \/ JoinBackend
    PROVE  Collected'
<1>1. UNCHANGED <<program, round, results, pc>>
  BY DEF StartBackend, JoinBackend, apps
<1>2. \/ main = "begin" /\ main' = "run"
      \/ main = "stop" /\ main' = "end" /\ backend' = "ended"
  BY DEF StartBackend, JoinBackend
<1>3. \A a \in DOMAIN pc : HasResult(a)' <=> HasResult(a)
  BY <1>1 DEF HasResult
<1>4. /\ main' # "begin" /\ main' # "collect" /\ (main' = "end" => backend' = "ended")
      /\ \A a \in DOMAIN pc' : pc'[a] = 0
      /\ results' \in Seq({<<a, a>> : a \in DOMAIN pc'})
  BY <1>1, <1>2 DEF Collected
<1>5. round' > 0 => \A a \in DOMAIN pc' : HasResult(a)'
  BY <1>1, <1>2, <1>3 DEF Collected
<1> QED
  BY <1>4, <1>5 DEF Collected

(* A program that goes on is being collected.                                *)
LEMMA RunsFacts ==
    ASSUME Types, Collected, MultiThreadAssumption, NEW a \in DOMAIN pc, Runs(a)
    PROVE  /\ main = "collect" /\ ~Ended(a) /\ ~Joining(a) /\ pc[a] \in Nat
           /\ pc[a] \in DOMAIN program.code[a]
<1>1. pc[a] \in 1 .. Len(program.code[a]) /\ ~Joining(a)
  BY DEF Runs
<1>2. pc[a] \in Nat /\ pc[a] # 0 /\ ~(pc[a] > Len(program.code[a]))
      /\ pc[a] \in DOMAIN program.code[a]
  BY <1>1, CodeFacts
<1>3. main = "collect"
  BY <1>2 DEF Collected
<1> QED
  BY <1>1, <1>2, <1>3 DEF Ended

(* Commit, JoinAll.                                                          *)
LEMMA AppThreadCollected ==
    ASSUME Types, Collected, MultiThreadAssumption, NEW a \in DOMAIN pc, AppThread(a)
    PROVE  Collected'
<1>1. Runs(a) /\ UNCHANGED <<program, main, round, results, scan, backend>>
  BY DEF AppThread, Commit, JoinAll, mainvars
<1>2. main = "collect" /\ ~Ended(a)
  BY <1>1, RunsFacts
<1>3. pc' = [pc EXCEPT ![a] = pc[a] + 1]
  <2>1. CASE Commit(a)
    BY <2>1, CommitBecomes
  <2>2. CASE JoinAll(a)
    BY <2>2 DEF JoinAll
  <2> QED
    BY <2>1, <2>2 DEF AppThread
<1>4. \A x \in DOMAIN pc : x # a => (Joining(x)' => Joining(x))
  <2>1. CASE Commit(a)
    <3>1. \E m \in Messages : waiters' = waiters \cup
              {[app |-> a, num |-> m.num, msg |-> Bytes(m),
                block |-> program.code[a][pc[a]].block, seen |-> FALSE]}
      BY <2>1, CommitBecomes
    <3>2. \A v \in waiters' : v \in waiters \/ v.app = a
      BY <3>1
    <3> QED
      BY <3>2 DEF Joining
  <2>2. CASE JoinAll(a)
    BY <2>2 DEF JoinAll, Joining
  <2> QED
    BY <2>1, <2>2 DEF AppThread
<1> QED
  BY <1>1, <1>2, <1>3, <1>4, CollectedGoesOn

(* Every step.                                                               *)
LEMMA NextCollected ==
    ASSUME Types, Collected, MultiThreadAssumption, Next
    PROVE  Collected'
<1>1. CASE MainThread
  BY <1>1, BackendCollected, RunAppCollected, AsCompletedCollected, EndRoundCollected,
     ElsewhereCollected DEF MainThread
<1>2. CASE BackendThread
  BY <1>2, ElsewhereCollected DEF BackendThread
<1>3. CASE LinkLayer
  BY <1>3, ElsewhereCollected
<1>4. CASE \E a \in DOMAIN pc : AppThread(a)
  BY <1>4, AppThreadCollected
<1>5. CASE \E w \in waiters : Waiter(w)
  BY <1>5, WaiterCollected
<1>6. CASE \E n \in DOMAIN node : Handler(n)
  BY <1>6, ElsewhereCollected
<1> QED
  BY <1>1, <1>2, <1>3, <1>4, <1>5, <1>6 DEF Next

-----------------------------------------------------------------------------
(* Waiters wait for what was committed.                                      *)

(* The steps that move the programs or the main thread.                      *)
LEMMA Moves ==
    ASSUME Next
    PROVE  /\ program' = program
           /\ \/ RunApp \/ EndRound \/ StartBackend \/ JoinBackend
              \/ \E a \in DOMAIN pc : AppThread(a)
              \/ UNCHANGED <<program, main, round, pc>>
<1>1. CASE MainThread
  BY <1>1 DEF MainThread, RunApp, EndRound, StartBackend, JoinBackend, AsCompleted, StopHandler,
              mainvars, apps
<1>2. CASE BackendThread
  BY <1>2 DEF BackendThread, RunSimulation, EndSimulation, StartHandler, mainvars, apps
<1>3. CASE LinkLayer
  BY <1>3 DEF LinkLayer, DeliverPair, HandleEprResponse, mainvars, apps
<1>4. CASE \E a \in DOMAIN pc : AppThread(a)
  BY <1>4 DEF AppThread, Commit, JoinAll
<1>5. CASE \E w \in waiters : Waiter(w)
  BY <1>5 DEF Waiter, SeeDone, RemoveDone, mainvars
<1>6. CASE \E n \in DOMAIN node : Handler(n)
  BY <1>6 DEF Handler, NoMessage, HandleInit, HandleMessage, FinishOther, StopApplication,
            SetupSocket, PollSocket, Timeout, NoTasks, FinishSubroutine, PickSubroutine, ExecDelay,
            ExecGate, ExecStore, ExecCreate, ExecRecv, ExecWait, EndSubroutine, mainvars, apps
<1> QED
  BY <1>1, <1>2, <1>3, <1>4, <1>5, <1>6 DEF Next

(* What a program's thread does with its position.                           *)
LEMMA AppThreadMoves ==
    ASSUME Types, Collected, MultiThreadAssumption, NEW a \in DOMAIN pc, AppThread(a)
    PROVE  /\ main = "collect" /\ ~Joining(a) /\ pc[a] \in DOMAIN program.code[a] /\ pc[a] \in Nat
           /\ UNCHANGED <<program, main, round>>
           /\ pc' = [pc EXCEPT ![a] = pc[a] + 1]
           /\ DOMAIN pc' = DOMAIN pc
           /\ pc'[a] = pc[a] + 1 /\ \A x \in DOMAIN pc : x # a => pc'[x] = pc[x]
<1>1. Runs(a) /\ UNCHANGED <<program, main, round>>
  BY DEF AppThread, Commit, JoinAll, mainvars
<1>2. main = "collect" /\ ~Joining(a) /\ pc[a] \in DOMAIN program.code[a] /\ pc[a] \in Nat
  BY <1>1, RunsFacts
<1>3. pc' = [pc EXCEPT ![a] = pc[a] + 1]
  <2>1. CASE Commit(a)
    BY <2>1, CommitBecomes
  <2>2. CASE JoinAll(a)
    BY <2>2 DEF JoinAll
  <2> QED
    BY <2>1, <2>2 DEF AppThread
<1>4. pc \in [DOMAIN program.code -> Nat]
  BY DEF Types
<1>5. DOMAIN pc' = DOMAIN pc /\ pc'[a] = pc[a] + 1 /\ \A x \in DOMAIN pc : x # a => pc'[x] = pc[x]
  BY <1>3, <1>4
<1> QED
  BY <1>1, <1>2, <1>3, <1>5

(* What was committed stays so.                                              *)
LEMMA StaysCommitted ==
    ASSUME Types, Collected, MultiThreadAssumption, Next, NEW num \in Nums, Committed(num)
    PROVE  Committed(num)' /\ OpOf(num)' = OpOf(num)
<1>1. PICK a, r, i : a = num[1] /\ r = num[2] /\ i = num[3] /\ r \in Nat /\ i \in Nat
  BY DEF Nums
<1>2. /\ a \in DOMAIN pc /\ i \in DOMAIN program.code[a]
      /\ \/ r < round
         \/ r = round /\ main = "collect" /\ i < pc[a]
  BY <1>1 DEF Committed
<1>3. program' = program /\ OpOf(num)' = OpOf(num)
  BY Moves DEF OpOf
<1>4. round \in Nat /\ pc \in [DOMAIN program.code -> Nat]
  BY DEF Types
<1>5. ASSUME a \in DOMAIN pc', r < round' \/ (r = round' /\ main' = "collect" /\ i < pc'[a])
      PROVE  Committed(num)'
  BY <1>1, <1>2, <1>3, <1>5 DEF Committed
<1>6. CASE RunApp
  BY <1>2, <1>3, <1>4, <1>5, <1>6 DEF RunApp
<1>7. CASE EndRound
  BY <1>1, <1>2, <1>3, <1>4, <1>5, <1>7 DEF EndRound
<1>8. CASE StartBackend \/ JoinBackend
  BY <1>2, <1>3, <1>4, <1>5, <1>8 DEF StartBackend, JoinBackend, apps
<1>9. CASE \E x \in DOMAIN pc : AppThread(x)
  <2>1. PICK x \in DOMAIN pc : AppThread(x)
    BY <1>9
  <2>2. /\ UNCHANGED <<main, round>> /\ DOMAIN pc' = DOMAIN pc
        /\ pc'[x] = pc[x] + 1 /\ \A y \in DOMAIN pc : y # x => pc'[y] = pc[y]
    BY <2>1, AppThreadMoves
  <2>3. pc[x] \in Nat /\ pc[a] \in Nat /\ (pc'[a] = pc[a] \/ pc'[a] = pc[a] + 1)
    BY <1>2, <1>4, <2>2
  <2>4. i < pc[a] => i < pc'[a]
    BY <1>1, <2>3
  <2> QED
    BY <1>2, <1>3, <1>5, <2>2, <2>4
<1>10. CASE UNCHANGED <<program, main, round, pc>>
  BY <1>2, <1>3, <1>5, <1>10
<1> QED
  BY <1>3, <1>6, <1>7, <1>8, <1>9, <1>10, Moves

(* So do the waiters.                                                        *)
LEMMA StaysDue ==
    ASSUME Types, Collected, Waits, MultiThreadAssumption, Next, NEW w \in waiters
    PROVE  Due(w)'
<1>1. w \in Waiting /\ w.num \in Nums /\ w.block \in BOOLEAN
  BY DEF Types, Waiting
<1>2. Due(w) /\ w.app \in DOMAIN pc
  BY DEF Waits, Due, Committed
<1>3. Committed(w.num)' /\ OpOf(w.num)' = OpOf(w.num)
  BY <1>1, <1>2, StaysCommitted DEF Due
<1>4. ASSUME w.block => main' = "collect" /\ round' = round /\ pc'[w.app] = pc[w.app]
      PROVE  Due(w)'
  BY <1>2, <1>3, <1>4 DEF Due
<1>5. CASE RunApp \/ StartBackend \/ JoinBackend
  <2>1. main # "collect"
    BY <1>5 DEF RunApp, StartBackend, JoinBackend
  <2> QED
    BY <1>2, <1>4, <2>1 DEF Due
<1>6. CASE EndRound
  <2>1. Ended(w.app)
    BY <1>2, <1>6 DEF EndRound, Collected, Future
  <2>2. ~w.block
    BY <2>1 DEF Ended, Joining
  <2> QED
    BY <1>4, <2>2
<1>7. CASE \E x \in DOMAIN pc : AppThread(x)
  <2>1. PICK x \in DOMAIN pc : AppThread(x)
    BY <1>7
  <2>2. /\ main' = "collect" /\ round' = round /\ ~Joining(x)
        /\ \A y \in DOMAIN pc : y # x => pc'[y] = pc[y]
    BY <2>1, AppThreadMoves
  <2>3. w.block => w.app # x
    BY <2>2 DEF Joining
  <2> QED
    BY <1>2, <1>4, <2>2, <2>3
<1>8. CASE UNCHANGED <<program, main, round, pc>>
  BY <1>2, <1>4, <1>8 DEF Due
<1> QED
  BY <1>5, <1>6, <1>7, <1>8, Moves

(* New ones are due, too.                                                    *)
LEMMA NextWaits ==
    ASSUME Types, Collected, Waits, MultiThreadAssumption, Next
    PROVE  Waits'
<1>1. \A w \in waiters : Due(w)'
  BY StaysDue
<1>2. ASSUME NEW a \in DOMAIN pc, Commit(a)
      PROVE  Waits'
  <2>1. PICK m \in Messages :
            /\ program.code[a][pc[a]].kind # "join"
            /\ m = [num |-> <<a, round, pc[a]>>, app |-> a,
                    kind |-> program.code[a][pc[a]].kind, arg |-> program.code[a][pc[a]].arg]
            /\ waiters' = waiters \cup {[app |-> a, num |-> m.num, msg |-> Bytes(m),
                                         block |-> program.code[a][pc[a]].block, seen |-> FALSE]}
    BY <1>2, CommitBecomes
  <2>2. PICK i \in Nat : i = pc[a]
    BY DEF Types
  <2>3. PICK op : op = program.code[a][i]
    OBVIOUS
  <2>4. m.num = <<a, round, i>>
        /\ Bytes(m) = [app |-> a, kind |-> op.kind, arg |-> op.arg]
    BY <2>1, <2>2, <2>3 DEF Bytes
  <2>5. /\ main' = "collect" /\ round' = round /\ program' = program /\ DOMAIN pc' = DOMAIN pc
        /\ pc'[a] = i + 1 /\ i \in DOMAIN program.code[a]
    BY <1>2, <2>2, AppThreadMoves, Moves DEF AppThread
  <2>6. ASSUME NEW w, w = [app |-> a, num |-> m.num, msg |-> Bytes(m), block |-> op.block,
                           seen |-> FALSE]
        PROVE  Due(w)'
    <3>1. w.num = <<a, round, i>> /\ w.app = a /\ w.block = op.block
          /\ w.msg = [app |-> a, kind |-> op.kind, arg |-> op.arg]
      BY <2>4, <2>6
    <3>2. w.num[1] = a /\ w.num[2] = round /\ w.num[3] = i
      BY <3>1
    <3>3. OpOf(w.num)' = op
      BY <2>3, <2>5, <3>2 DEF OpOf
    <3>4. Committed(w.num)'
      BY <2>5, <3>2 DEF Committed
    <3> QED
      BY <2>1, <2>2, <2>3, <2>5, <3>1, <3>2, <3>3, <3>4 DEF Due
  <2> QED
    BY <1>1, <2>1, <2>2, <2>3, <2>6 DEF Waits
<1>3. CASE \E w \in waiters : Waiter(w)
  <2>1. PICK w \in waiters : Waiter(w)
    BY <1>3
  <2>2. w \in Waiting
    BY DEF Types
  <2>3. CASE SeeDone(w)
    <3>1. PICK u : u = [w EXCEPT !.seen = TRUE]
      OBVIOUS
    <3>2. waiters' \subseteq waiters \cup {u}
      BY <2>3, <3>1 DEF SeeDone
    <3>3. u.app = w.app /\ u.num = w.num /\ u.msg = w.msg /\ u.block = w.block
      BY <2>2, <3>1 DEF Waiting
    <3>4. Due(w)' => Due(u)'
      BY <3>3 DEF Due
    <3> QED
      BY <1>1, <3>2, <3>4 DEF Waits
  <2>4. CASE RemoveDone(w)
    BY <1>1, <2>4 DEF RemoveDone, Waits
  <2> QED
    BY <2>1, <2>3, <2>4 DEF Waiter
<1>4. CASE waiters' = waiters
  BY <1>1, <1>4 DEF Waits
<1>5. waiters' = waiters \/ (\E a \in DOMAIN pc : Commit(a)) \/ \E w \in waiters : Waiter(w)
  <2>1. CASE MainThread
    BY <2>1 DEF MainThread, RunApp, EndRound, StartBackend, JoinBackend, AsCompleted, StopHandler,
                apps
  <2>2. CASE BackendThread \/ LinkLayer
    BY <2>2 DEF BackendThread, RunSimulation, EndSimulation, StartHandler, apps,
                LinkLayer, DeliverPair, HandleEprResponse
  <2>3. CASE \E a \in DOMAIN pc : AppThread(a)
    BY <2>3 DEF AppThread, JoinAll
  <2>4. CASE \E n \in DOMAIN node : Handler(n)
    BY <2>4 DEF Handler, NoMessage, HandleInit, HandleMessage, FinishOther, StopApplication,
            SetupSocket, PollSocket, Timeout, NoTasks, FinishSubroutine, PickSubroutine, ExecDelay,
            ExecGate, ExecStore, ExecCreate, ExecRecv, ExecWait, EndSubroutine, apps
  <2> QED
    BY <2>1, <2>2, <2>3, <2>4 DEF Next
<1> QED
  BY <1>2, <1>3, <1>4, <1>5

-----------------------------------------------------------------------------
(* Messages on their way: nothing is lost, and nothing is there twice.       *)

(* What is in a lane has a slot.                                             *)
LEMMA SlotFacts ==
    ASSUME NEW n
    PROVE  /\ \A l \in 1 .. 3 : \A i \in DOMAIN Lane(n, l) : <<l, i>> \in Slots(n)
           /\ \A p \in Slots(n) : \E l \in 1 .. 3 : \E i \in DOMAIN Lane(n, l) :
                  p = <<l, i>> /\ p[1] = l /\ p[2] = i /\ Item(n, p) = Lane(n, l)[i]
BY DEF Slots, Item

(* Lanes are sequences.                                                      *)
LEMMA LaneFacts ==
    ASSUME Types, NEW n \in DOMAIN node, NEW l \in 1 .. 3
    PROVE  /\ Lane(n, l) \in Seq(Messages \cup Tasks)
           /\ DOMAIN Lane(n, l) = 1 .. Len(Lane(n, l)) /\ Len(Lane(n, l)) \in Nat
           /\ \A i \in DOMAIN Lane(n, l) : Lane(n, l)[i].num \in Nums
<1>1. /\ node[n].queue \in Seq(Messages) /\ node[n].other \in Seq(Tasks)
      /\ node[n].subs \in Seq(Tasks)
  BY NodeFields
<1>2. \A S, T : \A s \in Seq(S) : S \subseteq T => s \in Seq(T)
  OBVIOUS
<1>3. Lane(n, l) \in Seq(Messages \cup Tasks)
  BY <1>1, <1>2 DEF Lane
<1>4. \A x \in Messages \cup Tasks : x.num \in Nums
  BY DEF Messages, Tasks
<1> QED
  BY <1>3, <1>4

(* Items may move, if each comes from a place of its own.                    *)
LEMMA HeldMoves ==
    ASSUME NEW n, Held(n), NEW f,
           \A p \in Slots(n)' :
              /\ f[p] \in Slots(n)
              /\ Item(n, p)'.num = Item(n, f[p]).num
              /\ Bytes(Item(n, p))' = Bytes(Item(n, f[p]))
              /\ Item(n, f[p]).num \notin done',
           \A p, q \in Slots(n)' : f[p] = f[q] => p = q,
           \A w \in waiters : w.num \notin done' => \E v \in waiters' :
              v.num = w.num /\ v.msg = w.msg /\ v.app = w.app
    PROVE  Held(n)'
<1>1. ASSUME NEW p \in Slots(n)'
      PROVE  Awaited(n, Item(n, p))'
  <2>1. PICK q \in Slots(n) : q = f[p]
    OBVIOUS
  <2>2. PICK w \in waiters : w.num = Item(n, q).num /\ w.msg = Bytes(Item(n, q))
                             /\ NodeOf[w.app] = n
    BY <2>1 DEF Held, Awaited
  <2>3. w.num \notin done'
    BY <2>1, <2>2
  <2>4. PICK v \in waiters' : v.num = w.num /\ v.msg = w.msg /\ v.app = w.app
    BY <2>3
  <2>5. Item(n, p)'.num = w.num /\ Bytes(Item(n, p))' = w.msg
    BY <2>1, <2>2
  <2> QED
    BY <2>2, <2>3, <2>4, <2>5 DEF Awaited
<1>2. ASSUME NEW p \in Slots(n)', NEW q \in Slots(n)', Item(n, p)'.num = Item(n, q)'.num
      PROVE  p = q
  <2>1. Item(n, f[p]).num = Item(n, f[q]).num /\ f[p] \in Slots(n) /\ f[q] \in Slots(n)
    BY <1>2
  <2>2. f[p] = f[q]
    BY <2>1 DEF Held
  <2> QED
    BY <2>2
<1> QED
  BY <1>1, <1>2 DEF Held

\* A lane keeps its items, whatever else changes of them.
SameLane(n, l) ==
    /\ DOMAIN Lane(n, l)' = DOMAIN Lane(n, l)
    /\ \A i \in DOMAIN Lane(n, l) :
          /\ Lane(n, l)'[i].num = Lane(n, l)[i].num
          /\ Bytes(Lane(n, l)'[i]) = Bytes(Lane(n, l)[i])

(* All lanes do.                                                             *)
LEMMA SameLanes ==
    ASSUME NEW n, Held(n), \A l \in 1 .. 3 : SameLane(n, l), done' = done, waiters' = waiters
    PROVE  Held(n)'
<1> DEFINE f == [p \in Slots(n)' |-> p]
<1>1. ASSUME NEW p \in Slots(n)'
      PROVE  /\ f[p] \in Slots(n)
             /\ Item(n, p)'.num = Item(n, f[p]).num
             /\ Bytes(Item(n, p))' = Bytes(Item(n, f[p]))
             /\ Item(n, f[p]).num \notin done'
  <2>1. PICK l, i : l \in 1 .. 3 /\ i \in DOMAIN Lane(n, l)' /\ p = <<l, i>> /\ p[1] = l /\ p[2] = i
    BY DEF Slots
  <2>2. p \in Slots(n) /\ i \in DOMAIN Lane(n, l)
    BY <2>1 DEF Slots, SameLane
  <2>3. Item(n, p)' = Lane(n, l)'[i] /\ Item(n, p) = Lane(n, l)[i]
    BY <2>1 DEF Item
  <2>4. Item(n, p)'.num = Item(n, p).num /\ Bytes(Item(n, p))' = Bytes(Item(n, p))
    BY <2>1, <2>2, <2>3 DEF SameLane
  <2>5. Item(n, p).num \notin done'
    BY <2>2 DEF Held, Awaited
  <2> QED
    BY <2>2, <2>4, <2>5
<1>2. \A p, q \in Slots(n)' : f[p] = f[q] => p = q
  OBVIOUS
<1> HIDE DEF f
<1> QED
  BY <1>1, <1>2, HeldMoves

(* An item is taken off a lane and is done.                                  *)
LEMMA LaneShrinks ==
    ASSUME Types, NEW n \in DOMAIN node, Held(n), NEW l \in 1 .. 3, NEW i \in DOMAIN Lane(n, l),
           DOMAIN Lane(n, l)' = 1 .. Len(Lane(n, l)) - 1,
           \A j \in 1 .. Len(Lane(n, l)) - 1 :
               Lane(n, l)'[j] = Lane(n, l)[IF j < i THEN j ELSE j + 1],
           \A k \in 1 .. 3 : k # l => Lane(n, k)' = Lane(n, k),
           done' = done \cup {Lane(n, l)[i].num}, waiters' = waiters
    PROVE  Held(n)'
<1> DEFINE From(p) == IF p[1] = l /\ ~(p[2] < i) THEN <<l, p[2] + 1>> ELSE p
           f == [p \in Slots(n)' |-> From(p)]
<1>1. PICK m \in Nat : m = Len(Lane(n, l)) /\ DOMAIN Lane(n, l) = 1 .. m /\ i \in 1 .. m
  BY LaneFacts
<1>2. <<l, i>> \in Slots(n) /\ Item(n, <<l, i>>) = Lane(n, l)[i]
  BY SlotFacts DEF Item
<1>3. ASSUME NEW p \in Slots(n)'
      PROVE  /\ p = <<p[1], p[2]>> /\ p[1] \in 1 .. 3 /\ p[2] \in Nat
             /\ From(p) \in Slots(n) /\ Item(n, p)' = Item(n, From(p))
             /\ From(p) # <<l, i>>
  <2>1. PICK k, j : k \in 1 .. 3 /\ j \in DOMAIN Lane(n, k)' /\ p = <<k, j>> /\ p[1] = k /\ p[2] = j
    BY DEF Slots
  <2>2. Item(n, p)' = Lane(n, k)'[j]
    BY <2>1 DEF Item
  <2>3. CASE k = l /\ j < i
    <3>1. j \in 1 .. m /\ Lane(n, k)'[j] = Lane(n, l)[j] /\ From(p) = p /\ j # i
      BY <1>1, <2>1, <2>3
    <3>2. p \in Slots(n) /\ Item(n, p) = Lane(n, l)[j]
      BY <1>1, <2>1, <2>3, <3>1 DEF Slots, Item
    <3> QED
      BY <1>1, <2>1, <2>2, <3>1, <3>2
  <2>4. CASE k = l /\ ~(j < i)
    <3>1. /\ j \in Nat /\ j + 1 \in 1 .. m /\ Lane(n, k)'[j] = Lane(n, l)[j + 1]
          /\ From(p) = <<l, j + 1>> /\ j + 1 # i
      BY <1>1, <2>1, <2>4
    <3>2. <<l, j + 1>> \in Slots(n) /\ Item(n, <<l, j + 1>>) = Lane(n, l)[j + 1]
      BY <1>1, <3>1 DEF Slots, Item
    <3> QED
      BY <1>1, <2>1, <2>2, <3>1, <3>2
  <2>5. CASE k # l
    <3>1. Lane(n, k)' = Lane(n, k) /\ From(p) = p /\ j \in Nat
      BY <2>1, <2>5, LaneFacts
    <3>2. p \in Slots(n) /\ Item(n, p) = Lane(n, k)[j]
      BY <2>1, <3>1 DEF Slots, Item
    <3> QED
      BY <2>1, <2>2, <2>5, <3>1, <3>2
  <2> QED
    BY <2>3, <2>4, <2>5
<1>4. ASSUME NEW p \in Slots(n)', NEW q \in Slots(n)', From(p) = From(q)
      PROVE  p = q
  <2>1. /\ p = <<p[1], p[2]>> /\ p[2] \in Nat /\ q = <<q[1], q[2]>> /\ q[2] \in Nat
    BY <1>3
  <2>2. i \in Nat
    BY <1>1
  <2>3. From(p)[1] = p[1] /\ From(q)[1] = q[1]
    BY <2>1
  <2>4. /\ From(p)[2] = IF p[1] = l /\ ~(p[2] < i) THEN p[2] + 1 ELSE p[2]
        /\ From(q)[2] = IF q[1] = l /\ ~(q[2] < i) THEN q[2] + 1 ELSE q[2]
    BY <2>1
  <2>5. p[1] = q[1] /\ p[2] = q[2]
    BY <1>4, <2>1, <2>2, <2>3, <2>4
  <2> QED
    BY <2>1, <2>5
<1>5. ASSUME NEW p \in Slots(n)'
      PROVE  Item(n, From(p)).num \notin done'
  <2>1. From(p) \in Slots(n) /\ From(p) # <<l, i>>
    BY <1>3
  <2> HIDE DEF From
  <2>2. Item(n, From(p)).num \notin done /\ Item(n, From(p)).num # Item(n, <<l, i>>).num
    BY <1>2, <2>1 DEF Held, Awaited
  <2> QED
    BY <1>2, <2>2
<1> HIDE DEF From
<1>6. \A p \in Slots(n)' : f[p] = From(p)
  OBVIOUS
<1>7. /\ \A p \in Slots(n)' :
            /\ f[p] \in Slots(n)
            /\ Item(n, p)'.num = Item(n, f[p]).num
            /\ Bytes(Item(n, p))' = Bytes(Item(n, f[p]))
            /\ Item(n, f[p]).num \notin done'
      /\ \A p, q \in Slots(n)' : f[p] = f[q] => p = q
  BY <1>3, <1>4, <1>5, <1>6
<1> HIDE DEF f
<1> QED
  BY <1>7, HeldMoves

(* The first message becomes the last task of a lane.                        *)
LEMMA LaneMoves ==
    ASSUME Types, NEW n \in DOMAIN node, Held(n), NEW l \in 2 .. 3,
           1 \in DOMAIN Lane(n, 1),
           DOMAIN Lane(n, 1)' = 1 .. Len(Lane(n, 1)) - 1,
           \A j \in 1 .. Len(Lane(n, 1)) - 1 : Lane(n, 1)'[j] = Lane(n, 1)[j + 1],
           DOMAIN Lane(n, l)' = 1 .. Len(Lane(n, l)) + 1,
           \A j \in 1 .. Len(Lane(n, l)) : Lane(n, l)'[j] = Lane(n, l)[j],
           NEW t, t = Lane(n, l)'[Len(Lane(n, l)) + 1],
           t.num = Lane(n, 1)[1].num, Bytes(t) = Bytes(Lane(n, 1)[1]),
           \A k \in 2 .. 3 : k # l => Lane(n, k)' = Lane(n, k),
           done' = done, waiters' = waiters
    PROVE  Held(n)'
<1>1. PICK m \in Nat : m = Len(Lane(n, l)) /\ DOMAIN Lane(n, l) = 1 .. m
  BY LaneFacts
<1>2. PICK q \in Nat : q = Len(Lane(n, 1)) /\ DOMAIN Lane(n, 1) = 1 .. q
  BY LaneFacts
<1> DEFINE From(p) == IF p[1] = 1 THEN <<1, p[2] + 1>>
                      ELSE IF p = <<l, m + 1>> THEN <<1, 1>> ELSE p
           f == [p \in Slots(n)' |-> From(p)]
<1>3. <<1, 1>> \in Slots(n) /\ Item(n, <<1, 1>>) = Lane(n, 1)[1]
  BY SlotFacts DEF Item
<1>4. ASSUME NEW p \in Slots(n)'
      PROVE  /\ p = <<p[1], p[2]>> /\ p[1] \in 1 .. 3 /\ p[2] \in Nat \ {0}
             /\ From(p) \in Slots(n)
             /\ Item(n, p)'.num = Item(n, From(p)).num
             /\ Bytes(Item(n, p))' = Bytes(Item(n, From(p)))
  <2>1. PICK k, j : k \in 1 .. 3 /\ j \in DOMAIN Lane(n, k)' /\ p = <<k, j>> /\ p[1] = k /\ p[2] = j
    BY DEF Slots
  <2>2. Item(n, p)' = Lane(n, k)'[j]
    BY <2>1 DEF Item
  <2>3. CASE k = 1
    <3>1. /\ j \in Nat \ {0} /\ j + 1 \in 1 .. q /\ Lane(n, k)'[j] = Lane(n, 1)[j + 1]
          /\ From(p) = <<1, j + 1>>
      BY <1>2, <2>1, <2>3
    <3>2. <<1, j + 1>> \in Slots(n) /\ Item(n, <<1, j + 1>>) = Lane(n, 1)[j + 1]
      BY <1>2, <3>1 DEF Slots, Item
    <3> QED
      BY <2>1, <2>2, <3>1, <3>2
  <2>4. CASE k = l /\ j = m + 1
    <3>1. From(p) = <<1, 1>> /\ Lane(n, k)'[j] = t
      BY <1>1, <2>1, <2>4
    <3> QED
      BY <1>1, <1>3, <2>1, <2>2, <2>4, <3>1
  <2>5. CASE k = l /\ j # m + 1
    <3>1. j \in 1 .. m /\ Lane(n, k)'[j] = Lane(n, l)[j] /\ From(p) = p
      BY <1>1, <2>1, <2>5
    <3>2. p \in Slots(n) /\ Item(n, p) = Lane(n, l)[j]
      BY <1>1, <2>1, <2>5, <3>1 DEF Slots, Item
    <3> QED
      BY <1>1, <2>1, <2>2, <3>1, <3>2
  <2>6. CASE k # 1 /\ k # l
    <3>1. k \in 2 .. 3 /\ Lane(n, k)' = Lane(n, k) /\ From(p) = p /\ j \in Nat \ {0}
      BY <2>1, <2>6, LaneFacts
    <3>2. p \in Slots(n) /\ Item(n, p) = Lane(n, k)[j]
      BY <2>1, <3>1 DEF Slots, Item
    <3> QED
      BY <2>1, <2>2, <3>1, <3>2
  <2> QED
    BY <2>3, <2>4, <2>5, <2>6
<1>5. ASSUME NEW p \in Slots(n)', NEW r \in Slots(n)', From(p) = From(r)
      PROVE  p = r
  <2>1. /\ p = <<p[1], p[2]>> /\ p[2] \in Nat \ {0} /\ r = <<r[1], r[2]>> /\ r[2] \in Nat \ {0}
    BY <1>4
  <2>2. CASE p[1] = 1 /\ r[1] = 1
    <3>1. <<1, p[2] + 1>> = <<1, r[2] + 1>>
      BY <1>5, <2>2
    <3>2. p[2] + 1 = r[2] + 1
      BY <3>1
    <3> QED
      BY <2>1, <2>2, <3>2
  <2>3. CASE p[1] = 1 /\ r[1] # 1
    <3>1. From(p)[1] = 1 /\ From(p)[2] = p[2] + 1 /\ p[2] + 1 # 1
      BY <2>1, <2>3
    <3>2. From(r) = <<1, 1>> \/ From(r) = r
      BY <2>3
    <3> QED
      BY <1>5, <2>3, <3>1, <3>2
  <2>4. CASE p[1] # 1 /\ r[1] = 1
    <3>1. From(r)[1] = 1 /\ From(r)[2] = r[2] + 1 /\ r[2] + 1 # 1
      BY <2>1, <2>4
    <3>2. From(p) = <<1, 1>> \/ From(p) = p
      BY <2>4
    <3> QED
      BY <1>5, <2>4, <3>1, <3>2
  <2>5. CASE p[1] # 1 /\ r[1] # 1
    <3>1. From(p) = (IF p = <<l, m + 1>> THEN <<1, 1>> ELSE p)
          /\ From(r) = (IF r = <<l, m + 1>> THEN <<1, 1>> ELSE r)
      BY <2>5
    <3>2. p # <<1, 1>> /\ r # <<1, 1>>
      BY <2>5
    <3> QED
      BY <1>5, <3>1, <3>2
  <2> QED
    BY <2>2, <2>3, <2>4, <2>5
<1> HIDE DEF From
<1>6. \A p \in Slots(n)' : f[p] = From(p)
  OBVIOUS
<1>7. \A p \in Slots(n) : Item(n, p).num \notin done'
  BY DEF Held, Awaited
<1>8. /\ \A p \in Slots(n)' :
            /\ f[p] \in Slots(n)
            /\ Item(n, p)'.num = Item(n, f[p]).num
            /\ Bytes(Item(n, p))' = Bytes(Item(n, f[p]))
            /\ Item(n, f[p]).num \notin done'
      /\ \A p, r \in Slots(n)' : f[p] = f[r] => p = r
  BY <1>4, <1>5, <1>6, <1>7
<1> HIDE DEF f
<1> QED
  BY <1>8, HeldMoves

(* A message nobody has seen comes last in the queue, with its waiter.       *)
LEMMA LaneGrows ==
    ASSUME Types, NEW n \in DOMAIN node, Held(n),
           DOMAIN Lane(n, 1)' = 1 .. Len(Lane(n, 1)) + 1,
           \A j \in 1 .. Len(Lane(n, 1)) : Lane(n, 1)'[j] = Lane(n, 1)[j],
           NEW m, m = Lane(n, 1)'[Len(Lane(n, 1)) + 1],
           \A k \in 2 .. 3 : Lane(n, k)' = Lane(n, k),
           \A w \in waiters : w.num # m.num,
           m.num \notin done, done' = done, waiters \subseteq waiters',
           NEW v, v \in waiters', v.num = m.num, v.msg = Bytes(m), NodeOf[v.app] = n
    PROVE  Held(n)'
<1>1. PICK q \in Nat : q = Len(Lane(n, 1)) /\ DOMAIN Lane(n, 1) = 1 .. q
  BY LaneFacts
<1>2. ASSUME NEW p \in Slots(n)', p # <<1, q + 1>>
      PROVE  p \in Slots(n) /\ Item(n, p)' = Item(n, p)
  <2>1. PICK k, j : k \in 1 .. 3 /\ j \in DOMAIN Lane(n, k)' /\ p = <<k, j>> /\ p[1] = k /\ p[2] = j
    BY DEF Slots
  <2>2. j \in DOMAIN Lane(n, k) /\ Lane(n, k)'[j] = Lane(n, k)[j]
    <3>1. CASE k = 1
      BY <1>1, <1>2, <2>1, <3>1
    <3>2. CASE k # 1
      BY <2>1, <3>2
    <3> QED
      BY <3>1, <3>2
  <2> QED
    BY <2>1, <2>2 DEF Slots, Item
<1>3. Item(n, <<1, q + 1>>)' = m
  BY <1>1 DEF Item
<1>4. ASSUME NEW p \in Slots(n)', p # <<1, q + 1>>
      PROVE  Awaited(n, Item(n, p))' /\ Item(n, p)'.num # m.num
  <2>1. p \in Slots(n) /\ Item(n, p)' = Item(n, p)
    BY <1>2, <1>4
  <2>2. Awaited(n, Item(n, p))
    BY <2>1 DEF Held
  <2> QED
    BY <2>1, <2>2 DEF Awaited
<1>5. Awaited(n, m)'
  BY DEF Awaited
<1>6. ASSUME NEW p \in Slots(n)', NEW r \in Slots(n)', Item(n, p)'.num = Item(n, r)'.num
      PROVE  p = r
  <2>1. CASE p # <<1, q + 1>> /\ r # <<1, q + 1>>
    BY <1>2, <1>6, <2>1 DEF Held
  <2>2. CASE p = <<1, q + 1>> \/ r = <<1, q + 1>>
    BY <1>3, <1>4, <1>6, <2>2
  <2> QED
    BY <2>1, <2>2
<1>7. \A p \in Slots(n)' : Awaited(n, Item(n, p))'
  <2>1. Awaited(n, Item(n, <<1, q + 1>>))'
    BY <1>3, <1>5 DEF Awaited
  <2> QED
    BY <1>4, <2>1
<1> QED
  BY <1>6, <1>7 DEF Held

(* All who wait for an item of a node are its owners.                        *)
LEMMA Owners ==
    ASSUME Waits, NEW n, Held(n), NEW p \in Slots(n)
    PROVE  /\ Item(n, p).num \notin done
           /\ Committed(Item(n, p).num)
           /\ \E w \in waiters : w.num = Item(n, p).num
           /\ \A w \in waiters : w.num = Item(n, p).num =>
                  w.msg = Bytes(Item(n, p)) /\ NodeOf[w.app] = n
           /\ NodeOf[Item(n, p).num[1]] = n
<1>1. PICK v \in waiters : v.num = Item(n, p).num /\ v.msg = Bytes(Item(n, p))
                           /\ NodeOf[v.app] = n
  BY DEF Held, Awaited
<1>2. /\ Committed(v.num) /\ v.app = v.num[1]
      /\ v.msg = [app |-> v.app, kind |-> OpOf(v.num).kind, arg |-> OpOf(v.num).arg]
  BY DEF Waits, Due
<1>3. ASSUME NEW w \in waiters, w.num = Item(n, p).num
      PROVE  w.msg = Bytes(Item(n, p)) /\ NodeOf[w.app] = n
  <2>1. /\ w.app = w.num[1]
        /\ w.msg = [app |-> w.app, kind |-> OpOf(w.num).kind, arg |-> OpOf(w.num).arg]
    BY DEF Waits, Due
  <2>2. w.num = v.num
    BY <1>1, <1>3
  <2>3. w.app = v.app /\ w.msg = v.msg
    BY <1>2, <2>1, <2>2
  <2> QED
    BY <1>1, <2>3
<1> QED
  BY <1>1, <1>2, <1>3 DEF Held, Awaited

(* A waiter's program and node.                                              *)
LEMMA WaiterFacts ==
    ASSUME Types, Waits, MultiThreadAssumption, NEW w \in waiters
    PROVE  /\ w \in Waiting /\ w.app \in DOMAIN pc /\ w.num \in Nums
           /\ NodeOf[w.app] \in DOMAIN node
<1>1. w \in Waiting /\ w.num \in Nums /\ DOMAIN node = program.nodes
  BY DEF Types, Waiting
<1>2. w.app \in DOMAIN pc
  BY DEF Waits, Due, Committed
<1> QED
  BY <1>1, <1>2, CodeFacts

(* The numbers of what is done are of what was committed.                    *)
LEMMA DoneCommitted ==
    ASSUME Types, Collected, Tracked, MultiThreadAssumption, Next, NEW num \in done
    PROVE  Committed(num)'
BY StaysCommitted DEF Types, Tracked

(* A step that finishes nothing.                                             *)
LEMMA TrackedQuiet ==
    ASSUME Types, Collected, Waits, Tracked, MultiThreadAssumption, Next, NEW n \in DOMAIN node,
           DOMAIN node' = DOMAIN node, \A m \in DOMAIN node : m # n => node'[m] = node[m],
           node'[n].fin = node[n].fin, Held(n)',
           UNCHANGED <<program, waiters, done>>, main = "end" => main' = "end",
           DOMAIN pc' = DOMAIN pc, \A a : <<"KeyError", a>> \in fault' => <<"KeyError", a>> \in fault
    PROVE  Tracked'
<1>1. \A num \in done' : Committed(num)'
  BY DoneCommitted
<1>2. \A m \in DOMAIN node : node'[m].fin = node[m].fin
  OBVIOUS
<1>4. ASSUME NEW w \in waiters  PROVE  Told(w)'
  <2>1. Told(w)
    BY DEF Tracked
  <2>2. node'[NodeOf[w.app]].fin = node[NodeOf[w.app]].fin
    BY <1>2, WaiterFacts
  <2> QED
    BY <2>1, <2>2 DEF Told
<1>5. \A m \in DOMAIN node' : FinOwned(m)'
  BY <1>2 DEF Tracked, FinOwned
<1>6. ASSUME NEW m \in DOMAIN node', m # n
      PROVE  Held(m)'
  <2>1. node'[m] = node[m] /\ Held(m)
    BY <1>6 DEF Tracked
  <2> QED
    BY <2>1 DEF Held, Slots, Item, Lane, Awaited
<1>7. Unique'
  BY DEF Tracked, Unique
<1>8. \A a \in DOMAIN pc' : <<"KeyError", a>> \notin fault'
  BY DEF Tracked
<1> QED
  BY <1>1, <1>4, <1>5, <1>6, <1>7, <1>8 DEF Tracked

(* A step that finishes an item.                                             *)
LEMMA TrackedFinish ==
    ASSUME Types, Collected, Waits, Tracked, MultiThreadAssumption, Next, NEW n \in DOMAIN node,
           NEW p \in Slots(n), NEW m, m = Item(n, p),
           DOMAIN node' = DOMAIN node, \A k \in DOMAIN node : k # n => node'[k] = node[k],
           node'[n].fin = node[n].fin \cup {Bytes(m)}, done' = done \cup {m.num}, Held(n)',
           UNCHANGED <<program, pc, waiters, fault>>, main' = main
    PROVE  Tracked'
<1>1. /\ m.num \notin done /\ Committed(m.num) /\ m.num \in Nums
      /\ \E w \in waiters : w.num = m.num
      /\ \A w \in waiters : w.num = m.num => w.msg = Bytes(m) /\ NodeOf[w.app] = n
      /\ NodeOf[m.num[1]] = n
  <2>1. Held(n)
    BY DEF Tracked
  <2>2. \E w \in waiters : w.num = m.num /\ w.num \in Nums
    BY <2>1, Owners, WaiterFacts
  <2> QED
    BY <2>1, <2>2, Owners
<1>2. ASSUME NEW num \in done'  PROVE  Committed(num)'
  BY <1>1, <1>2, DoneCommitted, StaysCommitted
<1>3. ASSUME NEW w \in waiters  PROVE  Told(w)'
  <2>1. Told(w) /\ NodeOf[w.app] \in DOMAIN node
    BY WaiterFacts DEF Tracked
  <2>2. node[NodeOf[w.app]].fin \subseteq node'[NodeOf[w.app]].fin
    BY <2>1
  <2>3. CASE w.num = m.num
    BY <1>1, <2>1, <2>3 DEF Told
  <2>4. CASE w.num # m.num
    BY <2>1, <2>2, <2>4 DEF Told
  <2> QED
    BY <2>3, <2>4
<1>4. ASSUME NEW k \in DOMAIN node  PROVE  FinOwned(k)'
  <2>1. FinOwned(k)
    BY DEF Tracked
  <2>2. CASE k = n
    BY <1>1, <2>1, <2>2 DEF FinOwned
  <2>3. CASE k # n
    BY <2>1, <2>3 DEF FinOwned
  <2> QED
    BY <2>2, <2>3
<1>5. ASSUME NEW k \in DOMAIN node, k # n
      PROVE  Held(k)'
  <2>1. node'[k] = node[k] /\ Held(k)
    BY <1>5 DEF Tracked
  <2>2. \A q \in Slots(k) : NodeOf[Item(k, q).num[1]] = k
    BY <2>1, Owners
  <2>3. \A q \in Slots(k) : Item(k, q).num # m.num
    BY <1>1, <1>5, <2>2
  <2>4. Slots(k)' = Slots(k) /\ \A q : Item(k, q)' = Item(k, q)
    BY <2>1 DEF Slots, Item, Lane
  <2>5. \A q \in Slots(k) : Awaited(k, Item(k, q)) /\ Awaited(k, Item(k, q))'
    BY <2>1, <2>3, <2>4 DEF Held, Awaited
  <2> QED
    BY <2>1, <2>4, <2>5 DEF Held
<1>6. Unique'
  BY DEF Tracked, Unique
<1>7. \A a \in DOMAIN pc' : <<"KeyError", a>> \notin fault'
  BY DEF Tracked
<1> QED
  BY <1>2, <1>3, <1>4, <1>5, <1>6, <1>7 DEF Tracked

-----------------------------------------------------------------------------
(* The handlers lose no message.                                             *)

InvKept == Sound /\ Collected /\ Waits /\ Tracked

(* A step that only changes how far the tasks of a node are.                 *)
LEMMA TasksGoOn ==
    ASSUME InvKept, MultiThreadAssumption, Next, NEW n \in DOMAIN node,
           NEW other, NEW subs, NEW at,
           Becoming(n, node[n].queue, node[n].fin, other, subs, at),
           \A l \in 1 .. 3 : SameLane(n, l),
           UNCHANGED <<program, mainvars, apps, done, fault>>
    PROVE  Tracked'
<1>1. /\ DOMAIN node' = DOMAIN node /\ node'[n].fin = node[n].fin
      /\ \A m \in DOMAIN node : m # n => node'[m] = node[m]
  BY DEF Becoming, InvKept, Sound, Types
<1>2. /\ UNCHANGED <<program, pc, waiters, done, fault>> /\ main' = main
  BY DEF mainvars, apps
<1>3. Held(n)'
  BY <1>2, SameLanes DEF InvKept, Tracked
<1> QED
  BY <1>1, <1>2, <1>3, TrackedQuiet DEF InvKept, Sound

(* The place of a handler changes.                                           *)
LEMMA PlaceTracked ==
    ASSUME InvKept, MultiThreadAssumption, Next, NEW n \in DOMAIN node, NEW at,
           Becoming(n, node[n].queue, node[n].fin, node[n].other, node[n].subs, at),
           UNCHANGED <<program, mainvars, apps, done, fault>>
    PROVE  Tracked'
<1>1. \A l \in 1 .. 3 : Lane(n, l)' = Lane(n, l)
  BY DEF Becoming, Lane
<1>2. \A l \in 1 .. 3 : SameLane(n, l)
  BY <1>1 DEF SameLane
<1> QED
  BY <1>2, TasksGoOn

(* A task of a list goes on.                                                 *)
LEMMA OneTaskGoesOn ==
    ASSUME NEW s \in Seq(Tasks), NEW i \in DOMAIN s, NEW t \in Tasks, SameTask(t, s[i]),
           NEW u, u = [s EXCEPT ![i] = t]
    PROVE  /\ DOMAIN u = DOMAIN s
           /\ \A j \in DOMAIN s : u[j].num = s[j].num /\ Bytes(u[j]) = Bytes(s[j])
<1>1. DOMAIN u = DOMAIN s /\ u[i] = t /\ \A j \in DOMAIN s : j # i => u[j] = s[j]
  OBVIOUS
<1>2. t.num = s[i].num /\ Bytes(t) = Bytes(s[i])
  BY DEF SameTask, Bytes
<1> QED
  BY <1>1, <1>2

(* RunsOther.                                                                *)
LEMMA RunsOtherTracked ==
    ASSUME InvKept, MultiThreadAssumption, Next, NEW n \in DOMAIN node,
           NEW finished \in BOOLEAN, node[n].other # <<>>, RunsOther(n, finished),
           UNCHANGED <<program, mainvars, apps, done, fault>>
    PROVE  Tracked'
<1>1. PICK t \in Tasks :
          /\ SameTask(t, Head(node[n].other))
          /\ Becoming(n, node[n].queue, node[n].fin, [node[n].other EXCEPT ![1] = t],
                      node[n].subs, "loop")
  BY RunsOtherBecomes DEF InvKept, Sound
<1>2. PICK s \in Seq(Tasks) : s = node[n].other
  BY NodeFields DEF InvKept, Sound
<1>3. 1 \in DOMAIN s /\ Head(node[n].other) = s[1]
  BY <1>2
<1>4. PICK u : u = [s EXCEPT ![1] = t]
  OBVIOUS
<1>5. /\ DOMAIN u = DOMAIN s
      /\ \A j \in DOMAIN s : u[j].num = s[j].num /\ Bytes(u[j]) = Bytes(s[j])
  BY <1>1, <1>3, <1>4, OneTaskGoesOn
<1>6. Lane(n, 1)' = Lane(n, 1) /\ Lane(n, 2) = s /\ Lane(n, 2)' = u /\ Lane(n, 3)' = Lane(n, 3)
  BY <1>1, <1>2, <1>4 DEF Becoming, Lane
<1>7. \A l \in 1 .. 3 : SameLane(n, l)
  BY <1>5, <1>6 DEF SameLane
<1> QED
  BY <1>1, <1>7, TasksGoOn

(* The running task goes on.                                                 *)
LEMMA ExecTracked ==
    ASSUME InvKept, MultiThreadAssumption, Next, NEW n \in DOMAIN node, main # "end", Execs(n)
    PROVE  Tracked'
<1>1. PICK t \in Tasks : \E at \in {"loop", "run"} :
          Becomes(n, t, at) /\ SameTask(t, Running(n))
  BY ExecStep DEF InvKept
<1>2. PICK at \in {"loop", "run"} : Becomes(n, t, at) /\ SameTask(t, Running(n))
  BY <1>1
<1>3. UNCHANGED <<program, mainvars, apps, done, fault>> /\ node[n].at = "run"
  BY ExecStep DEF InvKept
<1>4. PICK s, i : s = node[n].subs /\ i = node[n].task
  OBVIOUS
<1>5. s \in Seq(Tasks) /\ i \in DOMAIN s /\ Running(n) = s[i]
  BY <1>3, <1>4, NodeFields DEF InvKept, Sound, Ordered, RunsAlone, Running
<1>6. PICK u : u = [s EXCEPT ![i] = t]
  OBVIOUS
<1>7. Becoming(n, node[n].queue, node[n].fin, node[n].other, u, at)
  BY <1>2, <1>4, <1>5, <1>6, RunningBecomes DEF InvKept, Sound
<1>8. /\ DOMAIN u = DOMAIN s
      /\ \A j \in DOMAIN s : u[j].num = s[j].num /\ Bytes(u[j]) = Bytes(s[j])
  BY <1>2, <1>5, <1>6, OneTaskGoesOn
<1>9. Lane(n, 1)' = Lane(n, 1) /\ Lane(n, 2)' = Lane(n, 2) /\ Lane(n, 3) = s /\ Lane(n, 3)' = u
  BY <1>4, <1>7 DEF Becoming, Lane
<1>10. \A l \in 1 .. 3 : SameLane(n, l)
  BY <1>8, <1>9 DEF SameLane
<1> QED
  BY <1>3, <1>7, <1>10, TasksGoOn

(* HandleMessage: a task stands for its message.                             *)
LEMMA HandleMessageTracked ==
    ASSUME InvKept, MultiThreadAssumption, Next, NEW n \in DOMAIN node, HandleMessage(n)
    PROVE  Tracked'
<1>1. PICK q \in Seq(Messages) : q = node[n].queue
  BY NodeFields DEF InvKept, Sound
<1>2. PICK m : m = Head(q)
  OBVIOUS
<1>3. /\ q # <<>> /\ Task(m) \in Tasks
      /\ \/ Becoming(n, Tail(q), node[n].fin, node[n].other, Append(node[n].subs, Task(m)), "task")
         \/ Becoming(n, Tail(q), node[n].fin, Append(node[n].other, Task(m)), node[n].subs, "task")
  BY <1>1, <1>2, HandleMessageBecomes DEF InvKept, Sound
<1>4. /\ 1 \in DOMAIN q /\ m = q[1] /\ DOMAIN Tail(q) = 1 .. Len(q) - 1
      /\ \A j \in 1 .. Len(q) - 1 : Tail(q)[j] = q[j + 1]
  BY <1>2, <1>3
<1>5. Task(m).num = m.num /\ Bytes(Task(m)) = Bytes(m)
  BY DEF Task, Bytes
<1>6. UNCHANGED <<program, mainvars, apps, done, fault>>
  BY DEF HandleMessage
<1>7. /\ DOMAIN node' = DOMAIN node /\ node'[n].fin = node[n].fin
      /\ \A k \in DOMAIN node : k # n => node'[k] = node[k]
  BY <1>3 DEF Becoming, InvKept, Sound, Types
<1>8. UNCHANGED <<program, pc, waiters, done, fault>> /\ main' = main
  BY <1>6 DEF mainvars, apps
<1>9. Lane(n, 1) = q /\ Lane(n, 1)' = Tail(q)
  BY <1>1, <1>3 DEF Lane, Becoming
<1>10. ASSUME NEW l \in 2 .. 3, Lane(n, l)' = Append(Lane(n, l), Task(m)),
              \A k \in 2 .. 3 : k # l => Lane(n, k)' = Lane(n, k)
       PROVE  Held(n)'
  <2>1. PICK s \in Seq(Messages \cup Tasks) : s = Lane(n, l)
    BY LaneFacts DEF InvKept, Sound
  <2>2. /\ DOMAIN Append(s, Task(m)) = 1 .. Len(s) + 1
        /\ \A j \in 1 .. Len(s) : Append(s, Task(m))[j] = s[j]
        /\ Append(s, Task(m))[Len(s) + 1] = Task(m)
    BY <1>3, <2>1
  <2> QED
    <3>1. /\ 1 \in DOMAIN Lane(n, 1) /\ DOMAIN Lane(n, 1)' = 1 .. Len(Lane(n, 1)) - 1
          /\ \A j \in 1 .. Len(Lane(n, 1)) - 1 : Lane(n, 1)'[j] = Lane(n, 1)[j + 1]
          /\ Lane(n, 1)[1] = m
      BY <1>4, <1>9
    <3>2. /\ DOMAIN Lane(n, l)' = 1 .. Len(Lane(n, l)) + 1
          /\ \A j \in 1 .. Len(Lane(n, l)) : Lane(n, l)'[j] = Lane(n, l)[j]
          /\ Lane(n, l)'[Len(Lane(n, l)) + 1] = Task(m)
      BY <1>10, <2>1, <2>2
    <3>3. Types /\ Held(n)
      BY DEF InvKept, Sound, Tracked
    <3>4. /\ Task(m).num = Lane(n, 1)[1].num /\ Bytes(Task(m)) = Bytes(Lane(n, 1)[1])
      BY <1>5, <3>1
    <3>5. done' = done /\ waiters' = waiters
      BY <1>8
    <3> QED
      BY <1>10, <3>1, <3>2, <3>3, <3>4, <3>5, LaneMoves
<1>11. CASE Becoming(n, Tail(q), node[n].fin, node[n].other, Append(node[n].subs, Task(m)), "task")
  <2>1. Lane(n, 3)' = Append(Lane(n, 3), Task(m)) /\ Lane(n, 2)' = Lane(n, 2)
    BY <1>11 DEF Becoming, Lane
  <2>2. Held(n)'
    BY <1>10, <2>1
  <2> QED
    BY <1>7, <1>8, <2>2, TrackedQuiet DEF InvKept, Sound
<1>12. CASE Becoming(n, Tail(q), node[n].fin, Append(node[n].other, Task(m)), node[n].subs, "task")
  <2>1. Lane(n, 2)' = Append(Lane(n, 2), Task(m)) /\ Lane(n, 3)' = Lane(n, 3)
    BY <1>12 DEF Becoming, Lane
  <2>2. Held(n)'
    BY <1>10, <2>1
  <2> QED
    BY <1>7, <1>8, <2>2, TrackedQuiet DEF InvKept, Sound
<1> QED
  BY <1>3, <1>11, <1>12

(* An item of a lane is done and taken off.                                  *)
LEMMA ItemDone ==
    ASSUME InvKept, MultiThreadAssumption, Next, NEW n \in DOMAIN node, NEW l \in 1 .. 3,
           NEW i \in DOMAIN Lane(n, l), NEW m, m = Lane(n, l)[i],
           NEW queue, NEW other, NEW subs, NEW at,
           Becoming(n, queue, node[n].fin \cup {Bytes(m)}, other, subs, at),
           done' = done \cup {m.num},
           DOMAIN Lane(n, l)' = 1 .. Len(Lane(n, l)) - 1,
           \A j \in 1 .. Len(Lane(n, l)) - 1 :
               Lane(n, l)'[j] = Lane(n, l)[IF j < i THEN j ELSE j + 1],
           \A k \in 1 .. 3 : k # l => Lane(n, k)' = Lane(n, k),
           UNCHANGED <<program, mainvars, apps, fault>>
    PROVE  Tracked'
<1>1. UNCHANGED <<program, pc, waiters, fault>> /\ main' = main
  BY DEF mainvars, apps
<1>2. /\ DOMAIN node' = DOMAIN node /\ node'[n].fin = node[n].fin \cup {Bytes(m)}
      /\ \A k \in DOMAIN node : k # n => node'[k] = node[k]
  BY DEF Becoming, InvKept, Sound, Types
<1>3. Held(n)'
  BY <1>1, LaneShrinks DEF InvKept, Sound, Tracked
<1>4. <<l, i>> \in Slots(n) /\ m = Item(n, <<l, i>>)
  BY SlotFacts DEF Item
<1> QED
  BY <1>1, <1>2, <1>3, <1>4, TrackedFinish DEF InvKept, Sound

(* The first of a sequence is taken off.                                     *)
LEMMA FirstRemoved ==
    ASSUME NEW S, NEW s \in Seq(S), s # <<>>
    PROVE  /\ 1 \in DOMAIN s /\ Head(s) = s[1]
           /\ DOMAIN Tail(s) = 1 .. Len(s) - 1
           /\ \A j \in 1 .. Len(s) - 1 : Tail(s)[j] = s[IF j < 1 THEN j ELSE j + 1]
OBVIOUS

(* HandleInit, FinishOther, FinishSubroutine.                                *)
LEMMA FinishTracked ==
    ASSUME InvKept, MultiThreadAssumption, Next, NEW n \in DOMAIN node,
           \/ HandleInit(n) \/ FinishOther(n)
           \/ \E i \in DOMAIN node[n].subs : FinishSubroutine(n, i)
    PROVE  Tracked'
<1>1. UNCHANGED <<program, mainvars, apps, fault>>
  BY DEF HandleInit, FinishOther, FinishSubroutine
<1>2. CASE HandleInit(n)
  <2>1. PICK s \in Seq(Messages) : s = node[n].queue
    BY NodeFields DEF InvKept, Sound
  <2>2. /\ s # <<>> /\ done' = done \cup {Head(s).num}
        /\ Becoming(n, Tail(s), node[n].fin \cup {Bytes(Head(s))}, node[n].other, node[n].subs, "task")
    BY <1>2, <2>1, HandleInitBecomes DEF InvKept, Sound
  <2>3. /\ Lane(n, 1) = s /\ Lane(n, 1)' = Tail(s)
        /\ \A k \in 1 .. 3 : k # 1 => Lane(n, k)' = Lane(n, k)
    BY <2>1, <2>2 DEF Lane, Becoming
  <2>4. /\ 1 \in DOMAIN s /\ Head(s) = s[1] /\ DOMAIN Tail(s) = 1 .. Len(s) - 1
        /\ \A j \in 1 .. Len(s) - 1 : Tail(s)[j] = s[IF j < 1 THEN j ELSE j + 1]
    BY <2>2, FirstRemoved
  <2> QED
    BY <1>1, <2>2, <2>3, <2>4, ItemDone, SMTT(30)
<1>3. CASE FinishOther(n)
  <2>1. PICK s \in Seq(Tasks) : s = node[n].other
    BY NodeFields DEF InvKept, Sound
  <2>2. /\ s # <<>> /\ done' = done \cup {Head(s).num}
        /\ Becoming(n, node[n].queue, node[n].fin \cup {Bytes(Head(s))}, Tail(s), node[n].subs, "task")
    BY <1>3, <2>1, FinishOtherBecomes DEF InvKept, Sound
  <2>3. /\ Lane(n, 2) = s /\ Lane(n, 2)' = Tail(s)
        /\ \A k \in 1 .. 3 : k # 2 => Lane(n, k)' = Lane(n, k)
    BY <2>1, <2>2 DEF Lane, Becoming
  <2>4. /\ 1 \in DOMAIN s /\ Head(s) = s[1] /\ DOMAIN Tail(s) = 1 .. Len(s) - 1
        /\ \A j \in 1 .. Len(s) - 1 : Tail(s)[j] = s[IF j < 1 THEN j ELSE j + 1]
    BY <2>2, FirstRemoved
  <2> QED
    BY <1>1, <2>2, <2>3, <2>4, ItemDone
<1>4. CASE \E i \in DOMAIN node[n].subs : FinishSubroutine(n, i)
  <2>1. PICK s \in Seq(Tasks) : s = node[n].subs
    BY NodeFields DEF InvKept, Sound
  <2>2. PICK i \in DOMAIN s : FinishSubroutine(n, i)
    BY <1>4, <2>1
  <2>3. /\ done' = done \cup {s[i].num}
        /\ Becoming(n, node[n].queue, node[n].fin \cup {Bytes(s[i])}, node[n].other, RemoveAt(s, i), "task")
    BY <2>1, <2>2, FinishSubroutineBecomes DEF InvKept, Sound
  <2>4. /\ Lane(n, 3) = s /\ Lane(n, 3)' = RemoveAt(s, i)
        /\ \A k \in 1 .. 3 : k # 3 => Lane(n, k)' = Lane(n, k)
    BY <2>1, <2>3 DEF Lane, Becoming
  <2>5. PICK r \in Seq(Tasks) : r = RemoveAt(s, i) /\ Len(r) = Len(s) - 1
            /\ \A j \in 1 .. Len(s) - 1 : r[j] = s[IF j < i THEN j ELSE j + 1]
    BY Removed
  <2>6. DOMAIN r = 1 .. Len(s) - 1
    BY <2>5
  <2>7. /\ i \in DOMAIN Lane(n, 3) /\ s[i] = Lane(n, 3)[i]
        /\ DOMAIN Lane(n, 3)' = 1 .. Len(Lane(n, 3)) - 1
        /\ \A j \in 1 .. Len(Lane(n, 3)) - 1 :
               Lane(n, 3)'[j] = Lane(n, 3)[IF j < i THEN j ELSE j + 1]
        /\ \A k \in 1 .. 3 : k # 3 => Lane(n, k)' = Lane(n, k)
    BY <2>4, <2>5, <2>6
  <2> QED
    BY <1>1, <2>3, <2>7, ItemDone, SMTT(30)
<1> QED
  BY <1>2, <1>3, <1>4

(* A step that changes no node.                                              *)
LEMMA ElsewhereTracked ==
    ASSUME InvKept, MultiThreadAssumption, Next,
           UNCHANGED <<program, node, waiters, done>>, main = "end" => main' = "end",
           DOMAIN pc' = DOMAIN pc, \A a : <<"KeyError", a>> \in fault' => <<"KeyError", a>> \in fault
    PROVE  Tracked'
<1>1. \A num \in done' : Committed(num)'
  BY DoneCommitted DEF InvKept, Sound
<1>2. \A w \in waiters' : Told(w)'
  BY DEF InvKept, Tracked, Told
<1>3. \A n \in DOMAIN node' : FinOwned(n)'
  BY DEF InvKept, Tracked, FinOwned
<1>4. \A n \in DOMAIN node' : Held(n)'
  BY DEF InvKept, Tracked, Held, Slots, Item, Lane, Awaited
<1>5. Unique'
  BY DEF InvKept, Tracked, Unique
<1>6. \A a \in DOMAIN pc' : <<"KeyError", a>> \notin fault'
  BY DEF InvKept, Tracked
<1> QED
  BY <1>1, <1>2, <1>3, <1>4, <1>5, <1>6 DEF Tracked

(* The main thread's rounds, the simulation's end, the link layer.           *)
LEMMA MainTracked ==
    ASSUME InvKept, MultiThreadAssumption, Next,
           \/ StartBackend \/ RunApp \/ AsCompleted \/ EndRound
           \/ RunSimulation \/ EndSimulation \/ LinkLayer
    PROVE  Tracked'
<1>1. /\ UNCHANGED <<program, node, waiters, done, fault>>
      /\ main = "end" => main' = "end"
  BY DEF StartBackend, RunApp, AsCompleted, EndRound, RunSimulation, EndSimulation, LinkLayer,
         DeliverPair, HandleEprResponse, apps, mainvars
<1>2. DOMAIN pc' = DOMAIN pc
  <2>1. CASE RunApp
    BY <2>1 DEF RunApp
  <2>2. CASE EndRound
    BY <2>2 DEF EndRound
  <2>3. CASE ~RunApp /\ ~EndRound
    BY <2>3 DEF StartBackend, AsCompleted, RunSimulation, EndSimulation, LinkLayer, DeliverPair,
                HandleEprResponse, apps
  <2> QED
    BY <2>1, <2>2, <2>3
<1> QED
  BY <1>1, <1>2, ElsewhereTracked

(* Every step of a handler.                                                  *)
LEMMA HandlerTracked ==
    ASSUME InvKept, MultiThreadAssumption, Next, NEW n \in DOMAIN node, main # "end",
           Handler(n) \/ StartHandler(n) \/ StopHandler(n)
    PROVE  Tracked'
<1>0. Types
  BY DEF InvKept, Sound
<1>1. CASE NoMessage(n) \/ NoTasks(n) \/ StartHandler(n) \/ StopHandler(n)
  <2>1. UNCHANGED <<program, mainvars, apps, done, fault>>
    BY <1>1 DEF NoMessage, NoTasks, StartHandler, StopHandler
  <2>2. \E at \in Places : node' = Set(n, "at", at)
    BY <1>1 DEF NoMessage, NoTasks, StartHandler, StopHandler, Places
  <2>3. \E at : Becoming(n, node[n].queue, node[n].fin, node[n].other, node[n].subs, at)
    BY <1>0, <2>2, GoesOnAt
  <2> QED
    BY <2>1, <2>3, PlaceTracked
<1>2. CASE \E i \in DOMAIN node[n].subs : PickSubroutine(n, i)
  <2>1. UNCHANGED <<program, mainvars, apps, done, fault>>
    BY <1>2 DEF PickSubroutine
  <2>2. Becoming(n, node[n].queue, node[n].fin, node[n].other, node[n].subs, "run")
    BY <1>0, <1>2, PickBecomes
  <2> QED
    BY <2>1, <2>2, PlaceTracked
<1>3. CASE StopApplication(n) \/ SetupSocket(n) \/ PollSocket(n)
  <2>1. UNCHANGED <<program, mainvars, apps, done, fault>> /\ node[n].other # <<>>
    BY <1>3 DEF StopApplication, SetupSocket, PollSocket, OtherTask
  <2>2. \E finished \in BOOLEAN : RunsOther(n, finished)
    BY <1>3 DEF StopApplication, SetupSocket, PollSocket, HasCircuit
  <2> QED
    BY <2>1, <2>2, RunsOtherTracked
<1>4. CASE Timeout(n)
  <2>1. /\ UNCHANGED <<program, node, waiters, done, pc, main>>
        /\ fault' = fault \cup {<<"TimeoutError", n>>}
    BY <1>4 DEF Timeout, mainvars, apps
  <2>2. \A a : <<"KeyError", a>> # <<"TimeoutError", n>>
    OBVIOUS
  <2> QED
    BY <2>1, <2>2, ElsewhereTracked
<1> QED
  BY <1>1, <1>2, <1>3, <1>4, ExecTracked, HandleMessageTracked, FinishTracked DEF Handler, Execs

(* JoinBackend: the numbers of finished messages outlive the queues.         *)
LEMMA JoinBackendTracked ==
    ASSUME InvKept, MultiThreadAssumption, Next, JoinBackend
    PROVE  Tracked'
<1>1. UNCHANGED <<program, pc, waiters, done, fault>> /\ main' = "end"
  BY DEF JoinBackend, apps
<1>2. /\ DOMAIN node' = DOMAIN node
      /\ \A n \in DOMAIN node : /\ node'[n].queue = <<>> /\ node'[n].fin = {}
                                /\ node'[n].other = node[n].other /\ node'[n].subs = node[n].subs
  BY JoinBackendBecomes DEF InvKept, Sound, Types
<1>3. \A num \in done' : Committed(num)'
  BY <1>1, DoneCommitted DEF InvKept, Sound
<1>4. \A w \in waiters' : Told(w)'
  BY <1>1 DEF InvKept, Tracked, Told
<1>5. \A n \in DOMAIN node' : FinOwned(n)'
  BY <1>2 DEF FinOwned
<1>6. ASSUME NEW n \in DOMAIN node'  PROVE  Held(n)'
  <2>1. Lane(n, 1)' = <<>> /\ \A l \in 2 .. 3 : Lane(n, l)' = Lane(n, l)
    BY <1>2, <1>6 DEF Lane
  <2>2. ASSUME NEW p \in Slots(n)'  PROVE  p \in Slots(n) /\ Item(n, p)' = Item(n, p)
    <3>1. PICK l, i : l \in 1 .. 3 /\ i \in DOMAIN Lane(n, l)' /\ p = <<l, i>>
      BY DEF Slots
    <3>2. l \in 2 .. 3
      BY <2>1, <3>1
    <3>3. Lane(n, l)' = Lane(n, l)
      BY <2>1, <3>2
    <3> QED
      BY <3>1, <3>3 DEF Slots, Item
  <2>3. Held(n)
    BY <1>2, <1>6 DEF InvKept, Tracked
  <2>4. \A p \in Slots(n)' : Awaited(n, Item(n, p))'
    BY <1>1, <2>2, <2>3 DEF Held, Awaited
  <2>5. \A p, q \in Slots(n)' : Item(n, p)'.num = Item(n, q)'.num => p = q
    BY <2>2, <2>3 DEF Held
  <2> QED
    BY <2>4, <2>5 DEF Held
<1>7. Unique' /\ \A a \in DOMAIN pc' : <<"KeyError", a>> \notin fault'
  BY <1>1 DEF InvKept, Tracked, Unique
<1> QED
  BY <1>3, <1>4, <1>5, <1>6, <1>7 DEF Tracked

(* Messages on the nodes stay awaited if only waiters whose message is done  *)
(* change.                                                                   *)
LEMMA HeldWaiters ==
    ASSUME NEW n, Held(n), node'[n].queue = node[n].queue, node'[n].other = node[n].other,
           node'[n].subs = node[n].subs, done' = done,
           \A v \in waiters : v.num \notin done => v \in waiters'
    PROVE  Held(n)'
<1>1. Slots(n)' = Slots(n) /\ \A p : Item(n, p)' = Item(n, p)
  BY DEF Slots, Item, Lane
<1>2. ASSUME NEW p \in Slots(n)  PROVE  Awaited(n, Item(n, p))'
  <2>1. Awaited(n, Item(n, p))
    BY DEF Held
  <2> QED
    BY <1>1, <2>1 DEF Awaited
<1> QED
  BY <1>1, <1>2 DEF Held

(* SeeDone: of what is finished the waiter is the only one, so it is its own. *)
LEMMA SeeDoneTracked ==
    ASSUME InvKept, MultiThreadAssumption, Next, NEW w \in waiters, SeeDone(w)
    PROVE  Tracked'
<1>1. PICK u : u = [w EXCEPT !.seen = TRUE]
  OBVIOUS
<1>2. /\ waiters' = (waiters \ {w}) \cup {u}
      /\ w.msg \in node[NodeOf[w.app]].fin
      /\ UNCHANGED <<program, main, pc, node, done, fault>>
  BY <1>1 DEF SeeDone, mainvars
<1>3. w \in Waiting /\ NodeOf[w.app] \in DOMAIN node
  BY WaiterFacts DEF InvKept, Sound
<1>4. u.app = w.app /\ u.num = w.num /\ u.msg = w.msg /\ u.seen = TRUE
  BY <1>1, <1>3 DEF Waiting
<1>5. w.num \in done
  <2>1. PICK v \in waiters : v.msg = w.msg /\ v.num \in done
    BY <1>2, <1>3 DEF InvKept, Tracked, FinOwned
  <2> QED
    BY <2>1 DEF InvKept, Tracked, Unique
<1>6. \A v \in waiters : v.num \notin done => v \in waiters'
  BY <1>2, <1>5
<1>7. \A num \in done' : Committed(num)'
  BY <1>2, DoneCommitted DEF InvKept, Sound
<1>8. Unique'
  <2>1. \A v \in waiters \ {w} : v.msg # w.msg
    BY DEF InvKept, Tracked, Unique
  <2> QED
    BY <1>2, <1>4, <2>1 DEF InvKept, Tracked, Unique
<1>9. ASSUME NEW v \in waiters'  PROVE  Told(v)'
  <2>1. CASE v \in waiters
    BY <1>2, <2>1 DEF InvKept, Tracked, Told
  <2>2. CASE v = u
    <3>1. Told(w)
      BY DEF InvKept, Tracked
    <3> QED
      BY <1>2, <1>4, <1>5, <2>2, <3>1 DEF Told
  <2> QED
    BY <1>2, <2>1, <2>2
<1>10. ASSUME NEW n \in DOMAIN node', NEW b \in node'[n].fin
       PROVE  \E v \in waiters' : v.msg = b /\ v.num \in done' /\ NodeOf[v.app] = n
  <2>1. PICK v \in waiters : v.msg = b /\ v.num \in done /\ NodeOf[v.app] = n
    BY <1>2, <1>10 DEF InvKept, Tracked, FinOwned
  <2>2. CASE v = w
    BY <1>2, <1>4, <2>1, <2>2
  <2>3. CASE v # w
    BY <1>2, <2>1, <2>3
  <2> QED
    BY <2>2, <2>3
<1>11. \A n \in DOMAIN node' : Held(n)'
  BY <1>2, <1>6, HeldWaiters DEF InvKept, Tracked
<1>12. \A a \in DOMAIN pc' : <<"KeyError", a>> \notin fault'
  BY <1>2 DEF InvKept, Tracked
<1> QED
  BY <1>7, <1>8, <1>9, <1>10, <1>11, <1>12 DEF Tracked, FinOwned

(* RemoveDone: the finished message is there, and it was the waiter's.       *)
LEMMA RemoveDoneTracked ==
    ASSUME InvKept, MultiThreadAssumption, Next, NEW w \in waiters, RemoveDone(w)
    PROVE  Tracked'
<1>1. PICK n \in DOMAIN node : n = NodeOf[w.app]
  BY WaiterFacts DEF InvKept, Sound
<1>2. PICK fin \in SUBSET Contents : fin = node[n].fin \ {w.msg}
  BY NodeFields DEF InvKept, Sound
<1>3. /\ w.seen /\ waiters' = waiters \ {w} /\ node' = Set(n, "fin", fin)
      /\ fault' = IF w.msg \in node[n].fin \/ ~w.block THEN fault
                  ELSE fault \cup {<<"KeyError", w.app>>}
      /\ UNCHANGED <<program, main, pc, done>>
  BY <1>1, <1>2 DEF RemoveDone, mainvars
<1>4. Becoming(n, node[n].queue, fin, node[n].other, node[n].subs, node[n].at)
  BY <1>3, FinChanges DEF InvKept, Sound
<1>5. /\ DOMAIN node' = DOMAIN node /\ node'[n].fin = node[n].fin \ {w.msg}
      /\ node'[n].queue = node[n].queue /\ node'[n].other = node[n].other
      /\ node'[n].subs = node[n].subs
      /\ \A m \in DOMAIN node : m # n => node'[m] = node[m]
  BY <1>2, <1>4 DEF Becoming, InvKept, Sound, Types
<1>6. w.num \in done /\ (main = "end" \/ w.msg \in node[n].fin)
  BY <1>1, <1>3 DEF InvKept, Tracked, Told
<1>7. fault' = fault
  <2>1. w.block => main = "collect"
    BY DEF InvKept, Waits, Due
  <2> QED
    BY <1>3, <1>6, <2>1
<1>8. \A num \in done' : Committed(num)'
  BY <1>3, DoneCommitted DEF InvKept, Sound
<1>9. \A v \in waiters' : v \in waiters /\ v.msg # w.msg
  BY <1>3 DEF InvKept, Tracked, Unique
<1>10. Unique'
  BY <1>3 DEF InvKept, Tracked, Unique
<1>11. ASSUME NEW v \in waiters'  PROVE  Told(v)'
  <2>1. Told(v) /\ NodeOf[v.app] \in DOMAIN node /\ v.msg # w.msg
    BY <1>9, WaiterFacts DEF InvKept, Sound, Tracked
  <2>2. v.msg \in node[NodeOf[v.app]].fin => v.msg \in node'[NodeOf[v.app]].fin
    BY <1>5, <2>1
  <2> QED
    BY <1>3, <2>1, <2>2 DEF Told
<1>12. ASSUME NEW m \in DOMAIN node', NEW b \in node'[m].fin
       PROVE  \E v \in waiters' : v.msg = b /\ v.num \in done' /\ NodeOf[v.app] = m
  <2>1. b \in node[m].fin /\ m \in DOMAIN node /\ (m = n => b # w.msg)
    BY <1>5, <1>12
  <2>2. PICK v \in waiters : v.msg = b /\ v.num \in done /\ NodeOf[v.app] = m
    BY <2>1 DEF InvKept, Tracked, FinOwned
  <2>3. v # w
    BY <1>1, <2>1, <2>2
  <2> QED
    BY <1>3, <2>2, <2>3
<1>13. \A v \in waiters : v.num \notin done => v \in waiters'
  BY <1>3, <1>6
<1>14. ASSUME NEW m \in DOMAIN node'  PROVE  Held(m)'
  <2>1. /\ node'[m].queue = node[m].queue /\ node'[m].other = node[m].other
        /\ node'[m].subs = node[m].subs /\ Held(m)
    BY <1>5, <1>14 DEF InvKept, Tracked
  <2> QED
    BY <1>3, <1>13, <2>1, HeldWaiters
<1>15. \A a \in DOMAIN pc' : <<"KeyError", a>> \notin fault'
  BY <1>3, <1>7 DEF InvKept, Tracked
<1> QED
  BY <1>8, <1>10, <1>11, <1>12, <1>14, <1>15 DEF Tracked, FinOwned

(* Only subroutines are committed without waiting for them, so a message     *)
(* like the next one of a program is not on its way.                         *)
LEMMA NoEqual ==
    ASSUME InvKept, Distinct, MultiThreadAssumption, NEW a \in DOMAIN pc,
           main = "collect", ~Joining(a), NEW i \in Nat, i = pc[a], i \in DOMAIN program.code[a],
           NEW op, op = program.code[a][i],
           NEW v \in waiters, v.msg = [app |-> a, kind |-> op.kind, arg |-> op.arg]
    PROVE  FALSE
<1>1. PICK num : num = v.num /\ num \in Nums
  BY WaiterFacts DEF InvKept, Sound
<1>2. PICK j : j = num[3] /\ j \in Nat
  BY <1>1 DEF Nums
<1>3. PICK first : first = OpOf(num)
  OBVIOUS
<1>4. /\ Committed(num) /\ v.app = num[1] /\ first.kind # "join" /\ v.block = first.block
      /\ v.msg = [app |-> v.app, kind |-> first.kind, arg |-> first.arg]
  BY <1>1, <1>3 DEF InvKept, Waits, Due
<1>5. v.app = a /\ first.kind = op.kind /\ first.arg = op.arg
  BY <1>4
<1>6. num[1] = a /\ j \in DOMAIN program.code[a] /\ first = program.code[a][j]
  BY <1>2, <1>3, <1>4, <1>5 DEF Committed, OpOf
<1>7. ~v.block
  BY <1>5 DEF Joining
<1>8. IsOp(first)
  BY <1>6, OperationFacts DEF InvKept, Sound
<1>9. first.kind = "subroutine" /\ ~first.block /\ op.kind = "subroutine"
  BY <1>4, <1>5, <1>7, <1>8 DEF IsOp
<1>10. program.rounds = 1 /\ ~(j < i)
  BY <1>5, <1>6, <1>9 DEF Distinct
<1>11. round = 0
  BY <1>10 DEF InvKept, Sound, Types, Collected
<1>12. num[2] \in Nat
  BY <1>1 DEF Nums
<1> QED
  BY <1>2, <1>4, <1>6, <1>10, <1>11, <1>12 DEF Committed

(* Commit.                                                                   *)
LEMMA CommitTracked ==
    ASSUME InvKept, Distinct, MultiThreadAssumption, Next, NEW a \in DOMAIN pc, Commit(a)
    PROVE  Tracked'
<1>1. PICK m \in Messages :
          /\ m = [num |-> <<a, round, pc[a]>>, app |-> a,
                  kind |-> program.code[a][pc[a]].kind, arg |-> program.code[a][pc[a]].arg]
          /\ Becoming(NodeOf[a], Append(node[NodeOf[a]].queue, m), node[NodeOf[a]].fin,
                      node[NodeOf[a]].other, node[NodeOf[a]].subs, node[NodeOf[a]].at)
          /\ waiters' = waiters \cup {[app |-> a, num |-> m.num, msg |-> Bytes(m),
                                       block |-> program.code[a][pc[a]].block, seen |-> FALSE]}
  BY CommitBecomes DEF InvKept, Sound
<1>2. /\ main = "collect" /\ ~Joining(a) /\ pc[a] \in DOMAIN program.code[a]
      /\ UNCHANGED <<program, main, round>> /\ DOMAIN pc' = DOMAIN pc
  BY AppThreadMoves DEF InvKept, Sound, AppThread
<1>3. PICK i \in Nat : i = pc[a]
  BY DEF InvKept, Sound, Types
<1>4. PICK op : op = program.code[a][i]
  OBVIOUS
<1>5. PICK u : u = [app |-> a, num |-> m.num, msg |-> Bytes(m), block |-> op.block,
                    seen |-> FALSE]
  OBVIOUS
<1>6. /\ m.num = <<a, round, i>> /\ Bytes(m) = [app |-> a, kind |-> op.kind, arg |-> op.arg]
      /\ waiters' = waiters \cup {u}
      /\ u.app = a /\ u.num = m.num /\ u.msg = Bytes(m) /\ u.seen = FALSE
  BY <1>1, <1>3, <1>4, <1>5 DEF Bytes
<1>7. PICK n \in DOMAIN node : n = NodeOf[a]
  BY CodeFacts DEF InvKept, Sound, Types
<1>8. done' = done /\ fault' = fault
  BY DEF Commit
<1>9. ~Committed(m.num)
  <2>1. m.num[1] = a /\ m.num[2] = round /\ m.num[3] = i /\ round \in Nat
    BY <1>6 DEF InvKept, Sound, Types
  <2> QED
    BY <1>3, <2>1 DEF Committed
<1>10. m.num \notin done /\ \A w \in waiters : w.num # m.num
  BY <1>9 DEF InvKept, Waits, Due, Tracked
<1>11. \A w \in waiters : w.msg # u.msg
  BY <1>2, <1>3, <1>4, <1>6, NoEqual
<1>12. /\ DOMAIN node' = DOMAIN node /\ node'[n].fin = node[n].fin
       /\ node'[n].queue = Append(node[n].queue, m)
       /\ node'[n].other = node[n].other /\ node'[n].subs = node[n].subs
       /\ \A k \in DOMAIN node : k # n => node'[k] = node[k]
  BY <1>1, <1>7 DEF Becoming, InvKept, Sound, Types
<1>13. \A num \in done' : Committed(num)'
  BY <1>8, DoneCommitted DEF InvKept, Sound
<1>14. Unique'
  BY <1>6, <1>11 DEF InvKept, Tracked, Unique
<1>15. ASSUME NEW w \in waiters'  PROVE  Told(w)'
  <2>1. CASE w \in waiters
    <3>1. Told(w) /\ NodeOf[w.app] \in DOMAIN node
      BY <2>1, WaiterFacts DEF InvKept, Sound, Tracked
    <3>2. node'[NodeOf[w.app]].fin = node[NodeOf[w.app]].fin
      BY <1>12, <3>1
    <3> QED
      BY <1>2, <1>8, <3>1, <3>2 DEF Told
  <2>2. CASE w = u
    BY <1>6, <1>8, <1>10, <2>2 DEF Told
  <2> QED
    BY <1>6, <2>1, <2>2
<1>16. ASSUME NEW k \in DOMAIN node'  PROVE  FinOwned(k)'
  <2>1. FinOwned(k) /\ node'[k].fin = node[k].fin
    BY <1>12, <1>16 DEF InvKept, Tracked
  <2> QED
    BY <1>6, <1>8, <2>1 DEF FinOwned
<1>17. ASSUME NEW k \in DOMAIN node', k # n  PROVE  Held(k)'
  <2>1. node'[k] = node[k] /\ Held(k)
    BY <1>12, <1>17 DEF InvKept, Tracked
  <2>2. \A v \in waiters : v.num \notin done => v \in waiters'
    BY <1>6
  <2> QED
    BY <1>8, <2>1, <2>2, HeldWaiters
<1>18. Held(n)'
  <2>1. PICK q \in Seq(Messages) : q = node[n].queue
    BY NodeFields DEF InvKept, Sound
  <2>2. /\ DOMAIN Append(q, m) = 1 .. Len(q) + 1
        /\ \A j \in 1 .. Len(q) : Append(q, m)[j] = q[j]
        /\ Append(q, m)[Len(q) + 1] = m
    BY <2>1
  <2>3. Lane(n, 1) = q /\ Lane(n, 1)' = Append(q, m) /\ \A k \in 2 .. 3 : Lane(n, k)' = Lane(n, k)
    BY <1>12, <2>1 DEF Lane
  <2>4. Types /\ Held(n)
    BY DEF InvKept, Sound, Tracked
  <2>5. /\ DOMAIN Lane(n, 1)' = 1 .. Len(Lane(n, 1)) + 1
        /\ \A j \in 1 .. Len(Lane(n, 1)) : Lane(n, 1)'[j] = Lane(n, 1)[j]
        /\ m = Lane(n, 1)'[Len(Lane(n, 1)) + 1]
    BY <2>2, <2>3
  <2>6. u \in waiters' /\ waiters \subseteq waiters' /\ NodeOf[u.app] = n
    BY <1>6, <1>7
  <2> QED
    BY <1>6, <1>8, <1>10, <2>3, <2>4, <2>5, <2>6, LaneGrows
<1>19. \A x \in DOMAIN pc' : <<"KeyError", x>> \notin fault'
  BY <1>2, <1>8 DEF InvKept, Tracked
<1> QED
  BY <1>12, <1>13, <1>14, <1>15, <1>16, <1>17, <1>18, <1>19 DEF Tracked

-----------------------------------------------------------------------------
(* The invariant, and what follows from it.                                  *)

IInv == Sound /\ Collected /\ Waits /\ (Distinct => Tracked)

(* When the main thread has ended, no handler runs.                          *)
LEMMA NotEnded ==
    ASSUME Collected, NEW n \in DOMAIN node, Handler(n) \/ StartHandler(n) \/ StopHandler(n)
    PROVE  main # "end"
<1>1. CASE Handler(n)
  <2>1. backend = "running"
    BY <1>1 DEF Handler, NoMessage, HandleInit, HandleMessage, FinishOther, StopApplication,
            SetupSocket, PollSocket, Timeout, NoTasks, FinishSubroutine, PickSubroutine, ExecDelay,
            ExecGate, ExecStore, ExecCreate, ExecRecv, ExecWait, EndSubroutine, Handles,
            Schedules, OtherTask, OnlySubroutines, Executes, Simulates
  <2> QED
    BY <2>1 DEF Collected
<1>2. CASE StartHandler(n) \/ StopHandler(n)
  BY <1>2 DEF StartHandler, StopHandler, Collected
<1> QED
  BY <1>1, <1>2

(* The invariant holds at the beginning.                                     *)
LEMMA InitIInv ==
    ASSUME MultiThreadAssumption, Init
    PROVE  IInv
<1>1. Types
  <2>1. node \in [program.nodes -> NodeStates]
    BY DEF Init, NodeStates
  <2>2. pc \in [DOMAIN program.code -> Nat]
    BY DEF Init
  <2> QED
    BY <2>1, <2>2 DEF Init, Types
<1>2. Purposes
  <2>1. DOMAIN purposeIds = {} /\ purposeIds = <<>>
    BY DEF Init
  <2>2. Ids = {} /\ IsFiniteSet(Ids) /\ Cardinality(Ids) = 0
    BY <2>1, FS_EmptySet DEF Ids
  <2> QED
    BY <2>1, <2>2 DEF Purposes, Opened
<1>3. Requested
  BY DEF Init, Requested, Requests
<1>4. Ordered
  <2>1. \A n \in DOMAIN node : /\ node[n].queue = <<>> /\ node[n].other = <<>>
                               /\ node[n].subs = <<>> /\ node[n].at = "off"
    BY DEF Init
  <2>2. \A n \in DOMAIN node : RunsAlone(n) /\ Known(n) /\ InTurn(n)
    BY <2>1 DEF RunsAlone, Known, InTurn
  <2>3. Past
    <3>1. \A a \in DOMAIN pc : pc[a] = 0
      BY DEF Init
    <3>2. \A a \in DOMAIN pc : \A j \in DOMAIN program.code[a] : ~(j < 0)
      BY <1>1, CodeFacts
    <3> QED
      BY <3>1, <3>2 DEF Past
  <2> QED
    BY <2>2, <2>3 DEF Ordered
<1>5. Collected
  <2>1. \A a \in DOMAIN pc : pc[a] = 0
    BY DEF Init
  <2> QED
    BY <2>1 DEF Init, Collected
<1>6. Waits
  BY DEF Init, Waits
<1>7. Tracked
  <2>1. /\ waiters = {} /\ done = {} /\ fault = {}
        /\ \A n \in DOMAIN node : /\ node[n].queue = <<>> /\ node[n].other = <<>>
                                  /\ node[n].subs = <<>> /\ node[n].fin = {}
    BY DEF Init
  <2>2. \A n \in DOMAIN node : Slots(n) = {}
    BY <2>1 DEF Slots, Lane
  <2> QED
    BY <2>1, <2>2 DEF Tracked, Unique, Held, FinOwned
<1> QED
  BY <1>1, <1>2, <1>3, <1>4, <1>5, <1>6, <1>7 DEF IInv, Sound

(* Every step keeps what the variables hold, the IDs, the requests and their *)
(* order.                                                                    *)
LEMMA NextSound ==
    ASSUME MultiThreadAssumption, Sound, Collected, Waits, Next
    PROVE  Sound'
<1>1. CASE MainThread
  <2>1. CASE StartBackend \/ RunApp \/ AsCompleted \/ EndRound
    BY <2>1, MainSound
  <2>2. CASE JoinBackend
    BY <2>2, JoinBackendSound
  <2>3. CASE \E n \in DOMAIN node : StopHandler(n)
    BY <2>3, HandlerThreadSound, NotEnded
  <2> QED
    BY <1>1, <2>1, <2>2, <2>3 DEF MainThread
<1>2. CASE BackendThread
  <2>1. CASE RunSimulation \/ EndSimulation
    BY <2>1, MainSound
  <2>2. CASE \E n \in DOMAIN node : StartHandler(n)
    BY <2>2, HandlerThreadSound, NotEnded
  <2> QED
    BY <1>2, <2>1, <2>2 DEF BackendThread
<1>3. CASE LinkLayer
  BY <1>3, LinkLayerSound
<1>4. CASE \E a \in DOMAIN pc : AppThread(a)
  <2>1. PICK a \in DOMAIN pc : AppThread(a)
    BY <1>4
  <2>2. main # "end"
    BY <2>1, AppThreadMoves DEF Sound
  <2> QED
    BY <2>1, <2>2, CommitSound, JoinAllSound DEF AppThread
<1>5. CASE \E w \in waiters : Waiter(w)
  BY <1>5, WaiterFacts, WaiterSound DEF Sound
<1>6. CASE \E n \in DOMAIN node : Handler(n)
  <2>1. PICK n \in DOMAIN node : Handler(n)
    BY <1>6
  <2>2. main # "end"
    BY <2>1, NotEnded
  <2>3. CASE NoMessage(n) \/ NoTasks(n)
    BY <2>2, <2>3, PlaceSound
  <2>4. CASE HandleInit(n) \/ HandleMessage(n)
    BY <2>2, <2>4, HandleInitSound, HandleMessageSound
  <2>5. CASE FinishOther(n)
    BY <2>2, <2>5, FinishOtherSound
  <2>6. CASE \E i \in DOMAIN node[n].subs : FinishSubroutine(n, i) \/ PickSubroutine(n, i)
    BY <2>2, <2>6, FinishSubroutineSound, PickSound
  <2>7. CASE Timeout(n)
    BY <2>2, <2>7, TimeoutSound
  <2>8. CASE StopApplication(n) \/ PollSocket(n) \/ SetupSocket(n)
    BY <2>2, <2>8, OtherSound, SetupSocketSound
  <2>9. CASE Execs(n)
    BY <2>2, <2>9, ExecSound
  <2> QED
    BY <2>1, <2>3, <2>4, <2>5, <2>6, <2>7, <2>8, <2>9 DEF Handler, Execs
<1> QED
  BY <1>1, <1>2, <1>3, <1>4, <1>5, <1>6 DEF Next

(* Every step tracks the messages of programs that send no equal ones.       *)
LEMMA NextTracked ==
    ASSUME MultiThreadAssumption, InvKept, Distinct, Next
    PROVE  Tracked'
<1>1. CASE MainThread
  <2>1. CASE StartBackend \/ RunApp \/ AsCompleted \/ EndRound
    BY <2>1, MainTracked
  <2>2. CASE JoinBackend
    BY <2>2, JoinBackendTracked
  <2>3. CASE \E n \in DOMAIN node : StopHandler(n)
    BY <2>3, HandlerTracked, NotEnded DEF InvKept
  <2> QED
    BY <1>1, <2>1, <2>2, <2>3 DEF MainThread
<1>2. CASE BackendThread
  <2>1. CASE RunSimulation \/ EndSimulation
    BY <2>1, MainTracked
  <2>2. CASE \E n \in DOMAIN node : StartHandler(n)
    BY <2>2, HandlerTracked, NotEnded DEF InvKept
  <2> QED
    BY <1>2, <2>1, <2>2 DEF BackendThread
<1>3. CASE LinkLayer
  BY <1>3, MainTracked
<1>4. CASE \E a \in DOMAIN pc : AppThread(a)
  <2>1. PICK a \in DOMAIN pc : AppThread(a)
    BY <1>4
  <2>2. CASE Commit(a)
    BY <2>2, CommitTracked
  <2>3. CASE JoinAll(a)
    <3>1. UNCHANGED <<program, main, waiters, node, done, fault>>
      BY <2>3 DEF JoinAll, mainvars
    <3>2. DOMAIN pc' = DOMAIN pc
      BY <2>1, AppThreadMoves DEF InvKept, Sound
    <3> QED
      BY <3>1, <3>2, ElsewhereTracked
  <2> QED
    BY <2>1, <2>2, <2>3 DEF AppThread
<1>5. CASE \E w \in waiters : Waiter(w)
  BY <1>5, SeeDoneTracked, RemoveDoneTracked DEF Waiter
<1>6. CASE \E n \in DOMAIN node : Handler(n)
  BY <1>6, HandlerTracked, NotEnded DEF InvKept
<1> QED
  BY <1>1, <1>2, <1>3, <1>4, <1>5, <1>6 DEF Next

(* Every step keeps the invariant.                                           *)
LEMMA NextIInv ==
    ASSUME MultiThreadAssumption, IInv, [Next]_vars
    PROVE  IInv'
<1>1. CASE Next
  <2>1. Sound'
    BY <1>1, NextSound DEF IInv
  <2>2. Collected'
    BY <1>1, NextCollected DEF IInv, Sound
  <2>3. Waits'
    BY <1>1, NextWaits DEF IInv, Sound
  <2>4. ASSUME Distinct'  PROVE  Tracked'
    <3>1. program' = program
      BY <1>1, Moves
    <3>2. DOMAIN pc' = DOMAIN pc
      BY <2>1, <3>1 DEF IInv, Sound, Types
    <3>3. Distinct
      BY <2>4, <3>1, <3>2 DEF Distinct
    <3> QED
      BY <1>1, <3>3, NextTracked DEF IInv, InvKept
  <2> QED
    BY <2>1, <2>2, <2>3, <2>4 DEF IInv
<1>2. CASE UNCHANGED vars
  <2>1. UNCHANGED <<program, main, round, results, scan, backend, pc, waiters, node, circuits,
                    purposeIds, creates, pairs, recvs, arrays, done, fault>>
    BY <1>2 DEF vars, mainvars, apps, network
  <2>2. Types' /\ Purposes' /\ Requested'
    <3>1. Types'
      BY <2>1 DEF IInv, Sound, Types
    <3>2. /\ Purposes'
          /\ \A x : Opened(x)' <=> Opened(x)
          /\ \A x : Ready(x)' <=> Ready(x)
      BY <2>1, SamePurposes DEF IInv, Sound
    <3>3. Requests' = Requests /\ main' = main /\ program' = program /\ purposeIds' = purposeIds
      BY <2>1 DEF Requests
    <3>4. Requested'
      BY <3>2, <3>3 DEF IInv, Sound, Requested
    <3> QED
      BY <3>1, <3>2, <3>4
  <2>3. Ordered'
    BY <2>1, SamePurposes, OrderedElsewhere DEF IInv, Sound
  <2>4. Collected'
    BY <2>1 DEF IInv, Collected, Future, HasResult, Ended, Joining
  <2>5. Waits'
    BY <2>1 DEF IInv, Waits, Due, Committed, OpOf
  <2>6. (Distinct => Tracked)'
    BY <2>1 DEF IInv, Distinct, Tracked, Committed, Unique, Told, Held, FinOwned, Slots, Item,
                Lane, Awaited
  <2> QED
    BY <2>2, <2>3, <2>4, <2>5, <2>6 DEF IInv, Sound
<1> QED
  BY <1>1, <1>2

(* The invariant holds in every state that a run of any programs reaches.    *)
THEOREM Invariance == Spec => []IInv
<1>1. Init => IInv
  BY MultiThreadAssumption, InitIInv
<1>2. IInv /\ [Next]_vars => IInv'
  BY MultiThreadAssumption, NextIInv
<1> QED
  BY <1>1, <1>2, PTL DEF Spec

(* as_completed, which takes futures and names out of two lists while it     *)
(* goes through them, loses no result and gives each the name of its         *)
(* program, in each round (run/multithread/simulate.py).                     *)
THEOREM NamesKept == Spec => []ResultsNamed
<1>1. ASSUME IInv  PROVE  ResultsNamed
  <2>1. /\ results \in Seq({<<a, a>> : a \in DOMAIN pc})
        /\ main \in {"run", "stop", "end"} /\ round > 0 => \A a \in DOMAIN pc : HasResult(a)
    BY <1>1 DEF IInv, Collected
  <2>2. \A i \in DOMAIN results : \E a \in DOMAIN pc : results[i] = <<a, a>>
    BY <2>1
  <2>3. \A i \in DOMAIN results : results[i][1] = results[i][2]
    BY <2>2
  <2>4. ASSUME main \in {"run", "stop", "end"}, round > 0
        PROVE  ToSet(results) = {<<a, a>> : a \in DOMAIN pc}
    BY <2>1, <2>2, <2>4 DEF HasResult, ToSet
  <2> QED
    BY <2>3, <2>4 DEF ResultsNamed
<1> QED
  BY <1>1, Invariance, PTL

(* The two keys of a circuit have one purpose ID, which no other circuit     *)
(* has, so a pair is handled by a receive instruction exactly if it was      *)
(* asked for at the other end of its socket (nqasm/netstack.py), also after  *)
(* the circuits were reset.                                                  *)
THEOREM PairsKept == Spec => []PairsReachTheirSocket
<1>1. IInv => PairsReachTheirSocket
  BY MultiThreadAssumption, RequestsMatch DEF IInv, Sound
<1> QED
  BY <1>1, Invariance, PTL

(* A thread that goes on after join_task does so because its own message has *)
(* been handled, and its message is there to be removed, unless equal ones   *)
(* are on their way at once (sim/queues.py).                                 *)
THEOREM TasksKept == Spec => []DistinctTasksDone
<1>1. IInv => DistinctTasksDone
  BY DEF IInv, DistinctTasksDone, OwnTaskDone, Tracked, Told
<1> QED
  BY <1>1, Invariance, PTL

-----------------------------------------------------------------------------
(* Stop messages overtake no subroutine that its program waits for.  A join  *)
(* waits until the node has nothing unfinished, and the counter is right; so *)
(* what a program sent before a join is over when it goes on.                *)

Load(n) == Len(node[n].queue) + Len(node[n].other) + Len(node[n].subs)
Counted == main # "end" => \A n \in DOMAIN node : node[n].unfinished = Load(n)

\* The names and kinds of messages or tasks.
Labels(s) == {<<s[i].num, s[i].kind>> : i \in DOMAIN s}
OnNode(n) == Labels(node[n].queue) \cup Labels(node[n].other) \cup Labels(node[n].subs)

Sorted(n) == \A x \in Labels(node[n].subs) : x[2] = "subroutine"

\* No join of the round comes after what num is the name of and was passed.
NotJoined(num) ==
    main = "collect" /\ num[2] = round =>
        \A k \in DOMAIN program.code[num[1]] :
            num[3] < k /\ k < pc[num[1]] => program.code[num[1]][k].kind # "join"

Joined == \A n \in DOMAIN node : \A x \in OnNode(n) : NotJoined(x[1])

JInv == Counted /\ (\A n \in DOMAIN node : Sorted(n)) /\ (Distinct => Joined)

(* What becomes of a list when it changes in one place.                      *)
LEMMA OneLeaves ==
    ASSUME NEW S, NEW s \in Seq(S)
    PROVE  /\ s # <<>> =>
                /\ Labels(Tail(s)) \subseteq Labels(s) /\ Len(Tail(s)) = Len(s) - 1
                /\ <<Head(s).num, Head(s).kind>> \in Labels(s)
           /\ \A i \in DOMAIN s : /\ Labels(RemoveAt(s, i)) \subseteq Labels(s)
                                  /\ Len(RemoveAt(s, i)) = Len(s) - 1
           /\ Len(s) \in Nat
<1>1. PICK k \in Nat : k = Len(s) /\ DOMAIN s = 1 .. k
  OBVIOUS
<1>2. ASSUME s # <<>>
      PROVE  /\ Labels(Tail(s)) \subseteq Labels(s) /\ Len(Tail(s)) = k - 1
             /\ <<Head(s).num, Head(s).kind>> \in Labels(s)
  <2>1. /\ \A i \in DOMAIN Tail(s) : i + 1 \in DOMAIN s /\ Tail(s)[i] = s[i + 1]
        /\ s[1] = Head(s) /\ 1 \in DOMAIN s
    BY <1>2, TailFacts
  <2>2. Len(Tail(s)) = k - 1
    BY <1>1, <1>2
  <2> QED
    BY <2>1, <2>2 DEF Labels
<1>3. ASSUME NEW i \in DOMAIN s
      PROVE  /\ Labels(RemoveAt(s, i)) \subseteq Labels(s)
             /\ Len(RemoveAt(s, i)) = k - 1
  <2>1. PICK r \in Seq(S) : r = RemoveAt(s, i) /\ Len(r) = k - 1
            /\ \A j \in 1 .. k - 1 : r[j] = s[IF j < i THEN j ELSE j + 1]
    BY <1>1, Removed
  <2>2. DOMAIN r = 1 .. k - 1
    BY <1>1, <2>1
  <2>3. \A j \in 1 .. k - 1 : (IF j < i THEN j ELSE j + 1) \in DOMAIN s
    BY <1>1
  <2> QED
    BY <2>1, <2>2, <2>3 DEF Labels
<1> QED
  BY <1>1, <1>2, <1>3

(* One more is appended.                                                     *)
LEMMA OneAppended ==
    ASSUME NEW S, NEW s \in Seq(S), NEW t \in S
    PROVE  /\ Labels(Append(s, t)) = Labels(s) \cup {<<t.num, t.kind>>}
           /\ Len(Append(s, t)) = Len(s) + 1
           /\ Len(s) \in Nat
<1>1. PICK k \in Nat : k = Len(s) /\ DOMAIN s = 1 .. k
  OBVIOUS
<1>2. /\ DOMAIN Append(s, t) = 1 .. k + 1 /\ Len(Append(s, t)) = k + 1
      /\ \A i \in 1 .. k : Append(s, t)[i] = s[i]
      /\ Append(s, t)[k + 1] = t
  BY <1>1
<1>3. \A i \in 1 .. k + 1 : i \in 1 .. k \/ i = k + 1
  BY <1>1
<1>4. 1 .. k \subseteq 1 .. k + 1 /\ k + 1 \in 1 .. k + 1
  BY <1>1
<1>5. Labels(Append(s, t)) = Labels(s) \cup {<<t.num, t.kind>>}
  BY <1>1, <1>2, <1>3, <1>4, Zenon DEF Labels
<1> QED
  BY <1>1, <1>2, <1>5

(* One is replaced by one of the same name and kind.                         *)
Replaced(s, i, t) == [s EXCEPT ![i] = t]

LEMMA OneReplaced ==
    ASSUME NEW S, NEW s \in Seq(S), NEW i \in DOMAIN s, NEW t \in S,
           t.num = s[i].num, t.kind = s[i].kind
    PROVE  /\ Replaced(s, i, t) \in Seq(S)
           /\ Labels(Replaced(s, i, t)) \subseteq Labels(s)
           /\ Len(Replaced(s, i, t)) = Len(s)
<1> DEFINE u == Replaced(s, i, t)
<1>1. PICK k \in Nat : k = Len(s) /\ DOMAIN s = 1 .. k
  OBVIOUS
<1>2. /\ DOMAIN u = 1 .. k /\ u[i] = t
      /\ \A j \in 1 .. k : j # i => u[j] = s[j]
  BY <1>1 DEF Replaced
<1>3. u \in Seq(S) /\ Len(u) = k
  BY <1>1 DEF Replaced
<1>4. Labels(u) \subseteq Labels(s)
  BY <1>1, <1>2 DEF Labels
<1> QED
  BY <1>1, <1>3, <1>4

(* An empty list has nothing.                                                *)
LEMMA NoLabels ==
    ASSUME NEW S, NEW s \in Seq(S), Len(s) = 0
    PROVE  Labels(s) = {}
BY DEF Labels

(* Sums of the lengths of three lists.                                       *)
LEMMA Sums ==
    ASSUME NEW i \in Nat, NEW j \in Nat, NEW k \in Nat
    PROVE  /\ i - 1 + (j + 1) + k = i + j + k
           /\ i - 1 + j + (k + 1) = i + j + k
           /\ i + 1 + j + k = i + j + k + 1
           /\ i + j + k = 0 => i = 0 /\ j = 0 /\ k = 0
OBVIOUS

(* A step of a handler lets things go or moves them on, and the counter with *)
(* them.                                                                     *)
Flows(n) ==
    /\ DOMAIN node' = DOMAIN node
    /\ \A m \in DOMAIN node : m # n => node'[m] = node[m]
    /\ OnNode(n)' \subseteq OnNode(n)
    /\ Sorted(n) => Sorted(n)'
    /\ node[n].unfinished = Load(n) => (node[n].unfinished = Load(n))'

\* Of k messages or tasks with this counter, one is done.
Counts(n, finished) ==
    node'[n].unfinished = node[n].unfinished - (IF finished THEN 1 ELSE 0)

(* The counter is that of the node's new state.                              *)
LEMMA CounterBecomes ==
    ASSUME Types, NEW n \in DOMAIN node, NEW v, node' = [node EXCEPT ![n] = v]
    PROVE  node'[n].unfinished = v.unfinished
BY NodeFields DEF Types

(* A message is marked as finished and counted.                              *)
LEMMA MarkCounts ==
    ASSUME Types, NEW n \in DOMAIN node, NEW h \in NodeStates, NEW m, MarkFinished(n, h, m),
           h.unfinished = node[n].unfinished
    PROVE  Counts(n, TRUE)
<1> DEFINE v == [h EXCEPT !.fin = h.fin \cup {Bytes(m)}, !.unfinished = h.unfinished - 1]
<1>1. node' = [node EXCEPT ![n] = v]
  BY DEF MarkFinished
<1>2. v.unfinished = h.unfinished - 1
  BY DEF NodeStates
<1> HIDE DEF v
<1> QED
  BY <1>1, <1>2, CounterBecomes DEF Counts

(* The handler goes to another place, or its first other task or the running *)
(* one goes on: the lists keep what they have.                               *)
LEMMA KeepsFlow ==
    ASSUME Types, NEW n \in DOMAIN node, NEW fin, NEW other \in Seq(Tasks), NEW subs \in Seq(Tasks),
           NEW at, Becoming(n, node[n].queue, fin, other, subs, at), Counts(n, FALSE),
           Labels(other) \subseteq Labels(node[n].other), Len(other) = Len(node[n].other),
           Labels(subs) \subseteq Labels(node[n].subs), Len(subs) = Len(node[n].subs)
    PROVE  Flows(n)
<1>1. /\ DOMAIN node' = DOMAIN node
      /\ \A m \in DOMAIN node : m # n => node'[m] = node[m]
      /\ node'[n].queue = node[n].queue /\ node'[n].other = other /\ node'[n].subs = subs
  BY DEF Becoming, Types
<1>2. OnNode(n)' \subseteq OnNode(n) /\ (Sorted(n) => Sorted(n)')
  BY <1>1 DEF OnNode, Sorted, Labels
<1>3. node[n].unfinished = Load(n) => (node[n].unfinished = Load(n))'
  <2>1. node'[n].unfinished = node[n].unfinished
    BY NodeFields DEF Counts
  <2> QED
    BY <1>1, <2>1 DEF Load
<1> QED
  BY <1>1, <1>2, <1>3 DEF Flows

(* Steps that only change the place of the handler.                          *)
LEMMA PlaceFlow ==
    ASSUME Types, NEW n \in DOMAIN node,
           \/ NoMessage(n) \/ NoTasks(n) \/ StartHandler(n) \/ StopHandler(n)
           \/ \E i \in DOMAIN node[n].subs : PickSubroutine(n, i)
    PROVE  Flows(n)
<1>1. node[n].other \in Seq(Tasks) /\ node[n].subs \in Seq(Tasks) /\ node[n] \in NodeStates
  BY NodeFields
<1>2. CASE NoMessage(n) \/ NoTasks(n) \/ StartHandler(n) \/ StopHandler(n)
  <2>1. PICK at \in Places : node' = Set(n, "at", at)
    BY <1>2 DEF NoMessage, NoTasks, StartHandler, StopHandler, Places
  <2>2. PICK v : v = [node[n] EXCEPT !.at = at]
    OBVIOUS
  <2>3. node' = [node EXCEPT ![n] = v] /\ v.unfinished = node[n].unfinished
    BY <1>1, <2>1, <2>2 DEF Set, NodeStates
  <2>4. Counts(n, FALSE)
    BY <2>3, CounterBecomes, NodeFields DEF Counts
  <2> QED
    BY <1>1, <2>1, <2>4, GoesOnAt, KeepsFlow
<1>3. CASE \E i \in DOMAIN node[n].subs : PickSubroutine(n, i)
  <2>1. PICK i \in DOMAIN node[n].subs : PickSubroutine(n, i)
    BY <1>3
  <2>2. PICK v : v = [node[n] EXCEPT !.at = "run", !.task = i]
    OBVIOUS
  <2>3. node' = [node EXCEPT ![n] = v] /\ v.unfinished = node[n].unfinished
    BY <1>1, <2>1, <2>2 DEF PickSubroutine, NodeStates
  <2>4. Counts(n, FALSE)
    BY <2>3, CounterBecomes, NodeFields DEF Counts
  <2> QED
    BY <1>1, <2>1, <2>4, PickBecomes, KeepsFlow
<1> QED
  BY <1>2, <1>3

(* RunsOther.                                                                *)
LEMMA RunsOtherFlow ==
    ASSUME Types, NEW n \in DOMAIN node, NEW finished \in BOOLEAN,
           node[n].other # <<>>, RunsOther(n, finished)
    PROVE  Flows(n)
<1>1. PICK s \in Seq(Tasks) : s = node[n].other
  BY NodeFields
<1>2. PICK t \in Tasks :
          /\ SameTask(t, Head(s))
          /\ Becoming(n, node[n].queue, node[n].fin, [s EXCEPT ![1] = t], node[n].subs, "loop")
  BY <1>1, RunsOtherBecomes
<1>3. 1 \in DOMAIN s /\ s[1] = Head(s)
  BY <1>1, TailFacts
<1>4. PICK u : u = [s EXCEPT ![1] = t]
  OBVIOUS
<1>5. u \in Seq(Tasks) /\ Labels(u) \subseteq Labels(s) /\ Len(u) = Len(s)
  <2>1. t.num = s[1].num /\ t.kind = s[1].kind
    BY <1>2, <1>3 DEF SameTask
  <2>2. s \in Seq(Tasks) /\ t \in Tasks
    BY <1>1, <1>2
  <2>3. u = Replaced(s, 1, t)
    BY <1>4 DEF Replaced
  <2> QED
    BY <1>3, <2>1, <2>2, <2>3, OneReplaced
<1>6. Counts(n, FALSE)
  <2>1. PICK h : h = [Head(node[n].other) EXCEPT !.begun = TRUE, !.finished = finished]
    OBVIOUS
  <2>2. PICK v : v = [node[n] EXCEPT !.other = [node[n].other EXCEPT ![1] = h], !.at = "loop"]
    OBVIOUS
  <2>3. node' = [node EXCEPT ![n] = v]
    BY <2>1, <2>2 DEF RunsOther
  <2>4. v.unfinished = node[n].unfinished /\ node[n].unfinished \in Int
    BY <2>2, NodeFields DEF NodeStates
  <2> QED
    BY <2>3, <2>4, CounterBecomes DEF Counts
<1> QED
  BY <1>1, <1>2, <1>4, <1>5, <1>6, NodeFields, KeepsFlow

(* The running task goes on.                                                 *)
LEMMA ExecFlow ==
    ASSUME Sound, MultiThreadAssumption, NEW n \in DOMAIN node, main # "end", Execs(n)
    PROVE  Flows(n)
<1>1. PICK t \in Tasks : \E at \in {"loop", "run"} :
          Becomes(n, t, at) /\ SameTask(t, Running(n))
  BY ExecStep
<1>2. PICK at \in {"loop", "run"} : Becomes(n, t, at) /\ SameTask(t, Running(n))
  BY <1>1
<1>3. PICK s \in Seq(Tasks) : s = node[n].subs
  BY NodeFields DEF Sound
<1>4. PICK i \in DOMAIN s : i = node[n].task /\ Running(n) = s[i]
  BY <1>3, ExecStep, RunningFacts DEF Running
<1>5. PICK u : u = [s EXCEPT ![i] = t]
  OBVIOUS
<1>6. Becoming(n, node[n].queue, node[n].fin, node[n].other, u, at)
  BY <1>2, <1>3, <1>4, <1>5, RunningBecomes DEF Sound
<1>7. u \in Seq(Tasks) /\ Labels(u) \subseteq Labels(s) /\ Len(u) = Len(s)
  <2>1. t.num = s[i].num /\ t.kind = s[i].kind
    BY <1>2, <1>4 DEF SameTask
  <2>2. s \in Seq(Tasks) /\ t \in Tasks /\ i \in DOMAIN s
    BY <1>1, <1>3, <1>4
  <2>3. u = Replaced(s, i, t)
    BY <1>5 DEF Replaced
  <2> QED
    BY <2>1, <2>2, <2>3, OneReplaced
<1>8. Counts(n, FALSE)
  <2>1. PICK v : v = [node[n] EXCEPT !.subs = [node[n].subs EXCEPT ![node[n].task] = t], !.at = at]
    OBVIOUS
  <2>2. node' = [node EXCEPT ![n] = v]
    BY <1>2, <2>1 DEF Becomes
  <2>3. v.unfinished = node[n].unfinished /\ node[n].unfinished \in Int
    BY <2>1, NodeFields DEF NodeStates, Sound
  <2> QED
    BY <2>2, <2>3, CounterBecomes DEF Counts, Sound
<1> QED
  BY <1>3, <1>6, <1>7, <1>8, NodeFields, KeepsFlow DEF Sound

(* HandleMessage: the first message becomes the last task of a list.         *)
LEMMA HandleMessageFlow ==
    ASSUME Sound, MultiThreadAssumption, NEW n \in DOMAIN node, HandleMessage(n)
    PROVE  Flows(n)
<1>1. /\ node[n].queue \in Seq(Messages) /\ node[n].other \in Seq(Tasks)
      /\ node[n].subs \in Seq(Tasks) /\ node[n] \in NodeStates /\ DOMAIN node = program.nodes
  BY NodeFields DEF Sound
<1>2. PICK m \in Messages : m = Head(node[n].queue)
  BY HandleMessageBecomes DEF Sound
<1>3. PICK t \in Tasks : t = Task(m)
  BY <1>2, HandleMessageBecomes DEF Sound
<1>4. t.num = m.num /\ t.kind = m.kind
  BY <1>3 DEF Task
<1>5. /\ node[n].queue # <<>>
      /\ \/ /\ m.kind = "subroutine"
            /\ Becoming(n, Tail(node[n].queue), node[n].fin, node[n].other,
                        Append(node[n].subs, t), "task")
         \/ Becoming(n, Tail(node[n].queue), node[n].fin, Append(node[n].other, t),
                     node[n].subs, "task")
  BY <1>2, <1>3, HandleMessageBecomes DEF Sound
<1>6. /\ Labels(Tail(node[n].queue)) \subseteq Labels(node[n].queue)
      /\ Len(Tail(node[n].queue)) = Len(node[n].queue) - 1
      /\ <<t.num, t.kind>> \in Labels(node[n].queue)
      /\ Len(node[n].queue) \in Nat
  BY <1>1, <1>2, <1>4, <1>5, OneLeaves
<1>7. /\ Labels(Append(node[n].subs, t)) = Labels(node[n].subs) \cup {<<t.num, t.kind>>}
      /\ Len(Append(node[n].subs, t)) = Len(node[n].subs) + 1 /\ Len(node[n].subs) \in Nat
  BY <1>1, OneAppended
<1>8. /\ Labels(Append(node[n].other, t)) = Labels(node[n].other) \cup {<<t.num, t.kind>>}
      /\ Len(Append(node[n].other, t)) = Len(node[n].other) + 1 /\ Len(node[n].other) \in Nat
  BY <1>1, OneAppended
<1>9. /\ DOMAIN node' = DOMAIN node
      /\ \A k \in DOMAIN node : k # n => node'[k] = node[k]
      /\ node'[n].queue = Tail(node[n].queue)
  BY <1>1, <1>5 DEF Becoming
<1>10. node'[n].unfinished = node[n].unfinished
  <2>1. PICK list \in {"subs", "other"} :
            node' = [node EXCEPT ![n] = [node[n] EXCEPT !.queue = Tail(@), !.at = "task",
                                                        ![list] = Append(@, t)]]
    BY <1>2, <1>3 DEF HandleMessage
  <2>2. PICK v : v = [node[n] EXCEPT !.queue = Tail(@), !.at = "task", ![list] = Append(@, t)]
    OBVIOUS
  <2>3. v.unfinished = node[n].unfinished
    BY <1>1, <2>2 DEF NodeStates
  <2> QED
    BY <2>1, <2>2, <2>3, CounterBecomes DEF Sound
<1>11. CASE /\ m.kind = "subroutine"
            /\ node'[n].other = node[n].other /\ node'[n].subs = Append(node[n].subs, t)
  <2>1. OnNode(n)' \subseteq OnNode(n) /\ (Sorted(n) => Sorted(n)')
    BY <1>4, <1>6, <1>7, <1>9, <1>11 DEF OnNode, Sorted, Labels
  <2>2. Load(n)' = Load(n)
    <3>1. PICK i, j, k \in Nat : /\ i = Len(node[n].queue) /\ j = Len(node[n].other)
                                 /\ k = Len(node[n].subs)
      BY <1>6, <1>7, <1>8
    <3>2. Load(n) = i + j + k
      BY <3>1 DEF Load
    <3>3. /\ Len(node'[n].queue) = i - 1
          /\ Len(node'[n].other) = j
          /\ Len(node'[n].subs) = k + 1
      BY <1>6, <1>7, <1>8, <1>9, <1>11, <3>1
    <3>4. Load(n)' = (i - 1) + j + (k + 1)
      BY <3>3 DEF Load
    <3>5. (i - 1) + j + (k + 1) = i + j + k
      BY Sums
    <3> QED
      BY <3>2, <3>4, <3>5, Zenon
  <2> QED
    BY <1>9, <1>10, <2>1, <2>2 DEF Flows
<1>12. CASE node'[n].other = Append(node[n].other, t) /\ node'[n].subs = node[n].subs
  <2>1. OnNode(n)' \subseteq OnNode(n) /\ (Sorted(n) => Sorted(n)')
    BY <1>4, <1>6, <1>8, <1>9, <1>12 DEF OnNode, Sorted, Labels
  <2>2. Load(n)' = Load(n)
    <3>1. PICK i, j, k \in Nat : /\ i = Len(node[n].queue) /\ j = Len(node[n].other)
                                 /\ k = Len(node[n].subs)
      BY <1>6, <1>7, <1>8
    <3>2. Load(n) = i + j + k
      BY <3>1 DEF Load
    <3>3. /\ Len(node'[n].queue) = i - 1
          /\ Len(node'[n].other) = j + 1
          /\ Len(node'[n].subs) = k
      BY <1>6, <1>7, <1>8, <1>9, <1>12, <3>1
    <3>4. Load(n)' = (i - 1) + (j + 1) + k
      BY <3>3 DEF Load
    <3>5. (i - 1) + (j + 1) + k = i + j + k
      BY Sums
    <3> QED
      BY <3>2, <3>4, <3>5, Zenon
  <2> QED
    BY <1>9, <1>10, <2>1, <2>2 DEF Flows
<1> QED
  BY <1>5, <1>11, <1>12 DEF Becoming

(* An item that is done leaves one list.                                     *)
LEMMA FinishFlow ==
    ASSUME Types, NEW n \in DOMAIN node,
           \/ HandleInit(n) \/ FinishOther(n)
           \/ \E i \in DOMAIN node[n].subs : FinishSubroutine(n, i)
    PROVE  Flows(n)
<1>1. /\ node[n].queue \in Seq(Messages) /\ node[n].other \in Seq(Tasks)
      /\ node[n].subs \in Seq(Tasks) /\ node[n] \in NodeStates /\ node[n].unfinished \in Int
      /\ DOMAIN node = program.nodes
  BY NodeFields
<1>2. Len(node[n].queue) \in Nat /\ Len(node[n].other) \in Nat /\ Len(node[n].subs) \in Nat
  BY <1>1
<1>3. ASSUME NEW queue, NEW fin, NEW other, NEW subs, NEW at,
             Becoming(n, queue, fin, other, subs, at), Counts(n, TRUE),
             Labels(queue) \subseteq Labels(node[n].queue),
             Labels(other) \subseteq Labels(node[n].other),
             Labels(subs) \subseteq Labels(node[n].subs),
             Len(queue) + Len(other) + Len(subs) = Load(n) - 1
      PROVE  Flows(n)
  <2>1. /\ DOMAIN node' = DOMAIN node
        /\ \A k \in DOMAIN node : k # n => node'[k] = node[k]
        /\ node'[n].queue = queue /\ node'[n].other = other /\ node'[n].subs = subs
    BY <1>1, <1>3 DEF Becoming
  <2>2. OnNode(n)' \subseteq OnNode(n) /\ (Sorted(n) => Sorted(n)')
    BY <1>3, <2>1 DEF OnNode, Sorted, Labels
  <2>3. node[n].unfinished = Load(n) => (node[n].unfinished = Load(n))'
    BY <1>3, <2>1 DEF Load, Counts
  <2> QED
    BY <2>1, <2>2, <2>3 DEF Flows
<1>4. CASE HandleInit(n)
  <2>1. PICK rest \in Seq(Messages) : rest = Tail(node[n].queue)
    BY <1>4, HandleInitBecomes
  <2>2. PICK h : h = [node[n] EXCEPT !.queue = rest, !.at = "task"]
    OBVIOUS
  <2>3. h \in NodeStates /\ h.unfinished = node[n].unfinished
    BY <1>1, <2>2 DEF NodeStates
  <2>4. MarkFinished(n, h, Head(node[n].queue))
    BY <1>4, <2>1, <2>2 DEF HandleInit
  <2>5. Counts(n, TRUE)
    BY <2>3, <2>4, MarkCounts
  <2>6. Labels(rest) \subseteq Labels(node[n].queue) /\ Len(rest) = Len(node[n].queue) - 1
    BY <1>1, <1>4, <2>1, HandleInitBecomes, OneLeaves
  <2>7. Len(rest) + Len(node[n].other) + Len(node[n].subs) = Load(n) - 1
    BY <1>2, <2>6 DEF Load
  <2> QED
    BY <1>3, <1>4, <2>1, <2>5, <2>6, <2>7, HandleInitBecomes
<1>5. CASE FinishOther(n)
  <2>1. PICK rest \in Seq(Tasks) : rest = Tail(node[n].other)
    BY <1>5, FinishOtherBecomes
  <2>2. PICK h : h = [node[n] EXCEPT !.other = rest]
    OBVIOUS
  <2>3. h \in NodeStates /\ h.unfinished = node[n].unfinished
    BY <1>1, <2>2 DEF NodeStates
  <2>4. MarkFinished(n, h, Head(node[n].other))
    BY <1>5, <2>1, <2>2 DEF FinishOther
  <2>5. Counts(n, TRUE)
    BY <2>3, <2>4, MarkCounts
  <2>6. Labels(rest) \subseteq Labels(node[n].other) /\ Len(rest) = Len(node[n].other) - 1
    BY <1>1, <1>5, <2>1, FinishOtherBecomes, OneLeaves
  <2>7. Len(node[n].queue) + Len(rest) + Len(node[n].subs) = Load(n) - 1
    BY <1>2, <2>6 DEF Load
  <2> QED
    BY <1>3, <1>5, <2>1, <2>5, <2>6, <2>7, FinishOtherBecomes
<1>6. CASE \E i \in DOMAIN node[n].subs : FinishSubroutine(n, i)
  <2>0. PICK i \in DOMAIN node[n].subs : FinishSubroutine(n, i)
    BY <1>6
  <2>1. PICK rest \in Seq(Tasks) : rest = RemoveAt(node[n].subs, i)
    BY <2>0, FinishSubroutineBecomes
  <2>2. PICK h : h = [node[n] EXCEPT !.subs = rest]
    OBVIOUS
  <2>3. h \in NodeStates /\ h.unfinished = node[n].unfinished
    BY <1>1, <2>2 DEF NodeStates
  <2>4. MarkFinished(n, h, node[n].subs[i])
    BY <2>0, <2>1, <2>2 DEF FinishSubroutine
  <2>5. Counts(n, TRUE)
    BY <2>3, <2>4, MarkCounts
  <2>6. Labels(rest) \subseteq Labels(node[n].subs) /\ Len(rest) = Len(node[n].subs) - 1
    BY <1>1, <2>0, <2>1, OneLeaves
  <2>7. Len(node[n].queue) + Len(node[n].other) + Len(rest) = Load(n) - 1
    BY <1>2, <2>6 DEF Load
  <2> QED
    BY <1>3, <2>0, <2>1, <2>5, <2>6, <2>7, FinishSubroutineBecomes
<1> QED
  BY <1>4, <1>5, <1>6

(* Every step of a handler.                                                  *)
LEMMA HandlerFlow ==
    ASSUME Sound, MultiThreadAssumption, NEW n \in DOMAIN node, main # "end",
           Handler(n) \/ StartHandler(n) \/ StopHandler(n)
    PROVE  Flows(n)
<1>0. Types
  BY DEF Sound
<1>1. CASE \/ NoMessage(n) \/ NoTasks(n) \/ StartHandler(n) \/ StopHandler(n)
           \/ \E i \in DOMAIN node[n].subs : PickSubroutine(n, i)
  BY <1>0, <1>1, PlaceFlow
<1>2. CASE StopApplication(n) \/ SetupSocket(n) \/ PollSocket(n)
  <2>1. node[n].other # <<>>
    BY <1>2 DEF StopApplication, SetupSocket, PollSocket, OtherTask
  <2>2. \E finished \in BOOLEAN : RunsOther(n, finished)
    BY <1>2 DEF StopApplication, SetupSocket, PollSocket, HasCircuit
  <2> QED
    BY <1>0, <2>1, <2>2, RunsOtherFlow
<1>3. CASE Timeout(n)
  <2>1. node' = node
    BY <1>3 DEF Timeout
  <2> QED
    BY <2>1 DEF Flows, OnNode, Sorted, Load
<1>4. CASE \/ HandleInit(n) \/ FinishOther(n)
           \/ \E i \in DOMAIN node[n].subs : FinishSubroutine(n, i)
  BY <1>0, <1>4, FinishFlow
<1>5. CASE HandleMessage(n)
  BY <1>5, HandleMessageFlow
<1>6. CASE Execs(n)
  BY <1>6, ExecFlow
<1> QED
  BY <1>1, <1>2, <1>3, <1>4, <1>5, <1>6 DEF Handler, Execs

(* A handler keeps the counters and what is said of the joins.               *)
LEMMA HandlerJoins ==
    ASSUME Sound, JInv, MultiThreadAssumption, NEW n \in DOMAIN node, main # "end",
           Handler(n) \/ StartHandler(n) \/ StopHandler(n)
    PROVE  JInv'
<1>1. UNCHANGED <<program, main, round, pc>>
  <2>1. CASE Handler(n)
    BY <2>1 DEF Handler, NoMessage, HandleInit, HandleMessage, FinishOther, StopApplication,
          SetupSocket, PollSocket, Timeout, NoTasks, FinishSubroutine, PickSubroutine, ExecDelay,
          ExecGate, ExecStore, ExecCreate, ExecRecv, ExecWait, EndSubroutine, mainvars, apps
  <2>2. CASE StartHandler(n) \/ StopHandler(n)
    BY <2>2 DEF StartHandler, StopHandler, mainvars, apps
  <2> QED
    BY <2>1, <2>2
<1>2. Flows(n)
  BY HandlerFlow
<1>3. DOMAIN node' = DOMAIN node
  BY <1>2 DEF Flows
<1>4. ASSUME NEW m \in DOMAIN node
      PROVE  /\ OnNode(m)' \subseteq OnNode(m)
             /\ Sorted(m)'
             /\ (node[m].unfinished = Load(m))'
  <2>1. Sorted(m) /\ node[m].unfinished = Load(m)
    BY DEF JInv, Counted
  <2>2. CASE m = n
    BY <1>2, <2>1, <2>2 DEF Flows
  <2>3. CASE m # n
    <3>1. node'[m] = node[m]
      BY <1>2, <2>3 DEF Flows
    <3> QED
      BY <2>1, <3>1 DEF OnNode, Sorted, Load
  <2> QED
    BY <2>2, <2>3
<1>5. Counted' /\ (\A m \in DOMAIN node' : Sorted(m)')
  BY <1>3, <1>4 DEF Counted
<1>6. ASSUME Distinct'  PROVE  Joined'
  <2>1. Distinct
    BY <1>1, <1>6 DEF Distinct
  <2>2. \A num : NotJoined(num) => NotJoined(num)'
    BY <1>1 DEF NotJoined
  <2> QED
    BY <1>3, <1>4, <2>1, <2>2 DEF JInv, Joined
<1> QED
  BY <1>5, <1>6 DEF JInv

(* What is on a node is awaited, by the program of the node it is on.        *)
LEMMA LabelOwners ==
    ASSUME Types, Waits, Tracked, NEW n \in DOMAIN node, NEW x \in OnNode(n)
    PROVE  /\ x[1] \in Nums /\ Committed(x[1])
           /\ NodeOf[x[1][1]] = n
<1>1. PICK l \in 1 .. 3 : x \in Labels(Lane(n, l))
  BY DEF OnNode, Lane
<1>2. PICK i \in DOMAIN Lane(n, l) : x[1] = Lane(n, l)[i].num
  BY <1>1 DEF Labels
<1>3. <<l, i>> \in Slots(n) /\ Item(n, <<l, i>>).num = x[1]
  BY <1>1, <1>2, SlotFacts DEF Item
<1>4. Held(n)
  BY DEF Tracked
<1>5. Committed(x[1]) /\ NodeOf[x[1][1]] = n
  BY <1>3, <1>4, Owners
<1>6. x[1] \in Nums
  BY <1>1, <1>2, LaneFacts
<1> QED
  BY <1>5, <1>6

(* Steps that leave what is on the nodes.                                    *)
LEMMA SameLoads ==
    ASSUME JInv, program' = program, DOMAIN pc' = DOMAIN pc, main' # "end" => main # "end",
           DOMAIN node' = DOMAIN node,
           \A n \in DOMAIN node :
               /\ node'[n].queue = node[n].queue /\ node'[n].other = node[n].other
               /\ node'[n].subs = node[n].subs /\ node'[n].unfinished = node[n].unfinished,
           Distinct => \A n \in DOMAIN node : \A x \in OnNode(n) :
               NotJoined(x[1]) => NotJoined(x[1])'
    PROVE  JInv'
<1>1. \A n \in DOMAIN node : /\ OnNode(n)' = OnNode(n) /\ Load(n)' = Load(n)
                             /\ Sorted(n)' <=> Sorted(n)
  BY DEF OnNode, Load, Sorted
<1>2. Counted' /\ (\A n \in DOMAIN node' : Sorted(n)')
  BY <1>1 DEF JInv, Counted
<1>3. ASSUME Distinct'  PROVE  Joined'
  <2>1. Distinct
    BY <1>3 DEF Distinct
  <2> QED
    BY <1>1, <2>1 DEF JInv, Joined
<1> QED
  BY <1>2, <1>3 DEF JInv

(* Steps that change no node, or only which messages are finished.           *)
LEMMA ElsewhereJoins ==
    ASSUME JInv, program' = program,
           \/ StartBackend \/ AsCompleted \/ EndRound \/ RunSimulation \/ EndSimulation
           \/ LinkLayer
    PROVE  JInv'
<1>1. node' = node /\ (main' # "end" => main # "end")
  BY DEF StartBackend, AsCompleted, EndRound, RunSimulation, EndSimulation, LinkLayer,
         DeliverPair, HandleEprResponse, mainvars
<1>2. DOMAIN pc' = DOMAIN pc
  <2>1. CASE EndRound
    BY <2>1 DEF EndRound
  <2>2. CASE ~EndRound
    BY <2>2 DEF StartBackend, AsCompleted, RunSimulation, EndSimulation, LinkLayer, DeliverPair,
                HandleEprResponse, apps
  <2> QED
    BY <2>1, <2>2
<1>3. ASSUME NEW num, NotJoined(num)  PROVE  NotJoined(num)'
  <2>1. CASE StartBackend \/ EndRound
    BY <2>1 DEF StartBackend, EndRound, NotJoined
  <2>2. CASE AsCompleted \/ RunSimulation \/ EndSimulation \/ LinkLayer
    <3>1. UNCHANGED <<program, main, round, pc>>
      BY <2>2 DEF AsCompleted, RunSimulation, EndSimulation, LinkLayer, DeliverPair,
                  HandleEprResponse, mainvars, apps
    <3> QED
      BY <1>3, <3>1 DEF NotJoined
  <2> QED
    BY <2>1, <2>2
<1> QED
  BY <1>1, <1>2, <1>3, SameLoads

(* The threads that wait.                                                    *)
LEMMA WaiterJoins ==
    ASSUME Types, JInv, Waits, MultiThreadAssumption, NEW w \in waiters, Waiter(w)
    PROVE  JInv'
<1>1. UNCHANGED <<program, main, round, pc>>
  BY DEF Waiter, SeeDone, RemoveDone, mainvars
<1>2. \A num : NotJoined(num) => NotJoined(num)'
  BY <1>1 DEF NotJoined
<1>3. CASE SeeDone(w)
  <2>1. node' = node
    BY <1>3 DEF SeeDone
  <2> QED
    BY <1>1, <1>2, <2>1, SameLoads
<1>4. CASE RemoveDone(w)
  <2>1. PICK n \in DOMAIN node : n = NodeOf[w.app]
    BY WaiterFacts
  <2>2. PICK v : v = [node[n] EXCEPT !.fin = node[n].fin \ {w.msg}]
    OBVIOUS
  <2>3. node' = [node EXCEPT ![n] = v]
    BY <1>4, <2>1, <2>2 DEF RemoveDone, Set
  <2>4. /\ v.queue = node[n].queue /\ v.other = node[n].other /\ v.subs = node[n].subs
        /\ v.unfinished = node[n].unfinished
    BY <2>2, NodeFields DEF NodeStates
  <2>5. /\ DOMAIN node' = DOMAIN node /\ node'[n] = v
        /\ \A m \in DOMAIN node : m # n => node'[m] = node[m]
    BY <2>3 DEF Types
  <2> QED
    BY <1>1, <1>2, <2>4, <2>5, SameLoads
<1> QED
  BY <1>3, <1>4 DEF Waiter

(* RunApp: no program has passed anything.                                   *)
LEMMA RunAppJoins ==
    ASSUME Types, JInv, Waits, Distinct => Tracked, MultiThreadAssumption, program' = program,
           RunApp
    PROVE  JInv'
<1>1. /\ node' = node /\ main' = "collect" /\ round' = round
      /\ DOMAIN pc' = DOMAIN pc /\ \A a \in DOMAIN pc : pc'[a] = 1
      /\ main # "end"
  BY DEF RunApp
<1>2. ASSUME Distinct, NEW n \in DOMAIN node, NEW x \in OnNode(n)
      PROVE  NotJoined(x[1])'
  <2>1. PICK a \in DOMAIN pc : a = x[1][1]
    BY <1>2, LabelOwners DEF Committed
  <2>2. x[1][3] \in Nat
    BY <1>2, LabelOwners DEF Nums
  <2>3. \A k \in DOMAIN program.code[a] : ~(x[1][3] < k /\ k < 1)
    BY <2>2, CodeFacts
  <2> QED
    BY <1>1, <2>1, <2>3 DEF NotJoined
<1> QED
  BY <1>1, <1>2, SameLoads

(* JoinBackend: the queues are emptied.                                      *)
LEMMA JoinBackendJoins ==
    ASSUME Types, JInv, JoinBackend
    PROVE  JInv'
<1>1. main' = "end"
  BY DEF JoinBackend
<1>2. /\ DOMAIN node' = DOMAIN node
      /\ \A n \in DOMAIN node : node'[n].subs = node[n].subs
  BY JoinBackendBecomes DEF Types
<1>3. \A n \in DOMAIN node' : Sorted(n)'
  BY <1>2 DEF JInv, Sorted
<1>4. Joined'
  BY <1>1 DEF Joined, NotJoined
<1> QED
  BY <1>1, <1>3, <1>4 DEF JInv, Counted

(* A thread that waits for nothing unfinished finds nothing on its node, so  *)
(* nothing of its program.                                                   *)
LEMMA JoinAllJoins ==
    ASSUME Types, Collected, JInv, Waits, Distinct => Tracked, MultiThreadAssumption,
           NEW a \in DOMAIN pc, JoinAll(a)
    PROVE  JInv'
<1>1. /\ main = "collect" /\ UNCHANGED <<program, main, round>>
      /\ DOMAIN pc' = DOMAIN pc /\ \A y \in DOMAIN pc : y # a => pc'[y] = pc[y]
  BY AppThreadMoves DEF AppThread
<1>2. node' = node
  BY DEF JoinAll
<1>3. PICK n \in DOMAIN node : n = NodeOf[a]
  BY CodeFacts DEF Types
<1>4. OnNode(n) = {}
  <2>1. PICK i, j, k \in Nat : /\ i = Len(node[n].queue) /\ j = Len(node[n].other)
                               /\ k = Len(node[n].subs)
    BY NodeFields
  <2>2. node[n].unfinished = 0
    BY <1>3 DEF JoinAll
  <2>3. 0 = i + j + k
    BY <1>1, <2>1, <2>2 DEF JInv, Counted, Load
  <2>4. i = 0 /\ j = 0 /\ k = 0
    BY <2>3, Sums
  <2>5. /\ Labels(node[n].queue) = {} /\ Labels(node[n].other) = {}
        /\ Labels(node[n].subs) = {}
    BY <2>1, <2>4, NodeFields, NoLabels
  <2> QED
    BY <2>5 DEF OnNode
<1>5. ASSUME Distinct, NEW m \in DOMAIN node, NEW x \in OnNode(m), NotJoined(x[1])
      PROVE  NotJoined(x[1])'
  <2>1. x[1][1] \in DOMAIN pc /\ NodeOf[x[1][1]] = m
    BY <1>5, LabelOwners DEF Committed
  <2>2. x[1][1] # a
    BY <1>3, <1>4, <1>5, <2>1
  <2> QED
    BY <1>1, <1>5, <2>1, <2>2 DEF NotJoined
<1> QED
  BY <1>1, <1>2, <1>5, SameLoads

(* Commit: the new message comes after what was passed.                      *)
LEMMA CommitJoins ==
    ASSUME Types, Collected, JInv, Waits, Distinct => Tracked, MultiThreadAssumption,
           NEW a \in DOMAIN pc, Commit(a)
    PROVE  JInv'
<1>1. /\ main = "collect" /\ UNCHANGED <<program, main, round>> /\ pc[a] \in Nat
      /\ DOMAIN pc' = DOMAIN pc
      /\ pc'[a] = pc[a] + 1 /\ \A y \in DOMAIN pc : y # a => pc'[y] = pc[y]
  BY AppThreadMoves DEF AppThread
<1>2. PICK n \in DOMAIN node : n = NodeOf[a]
  BY CodeFacts DEF Types
<1>3. PICK m \in Messages :
          /\ program.code[a][pc[a]].kind # "join"
          /\ m.num = <<a, round, pc[a]>>
          /\ Becoming(n, Append(node[n].queue, m), node[n].fin, node[n].other, node[n].subs,
                      node[n].at)
  BY <1>2, CommitBecomes
<1>4. /\ DOMAIN node' = DOMAIN node
      /\ \A k \in DOMAIN node : k # n => node'[k] = node[k]
      /\ node'[n].queue = Append(node[n].queue, m) /\ node'[n].other = node[n].other
      /\ node'[n].subs = node[n].subs
  BY <1>3 DEF Becoming, Types
<1>5. /\ Labels(Append(node[n].queue, m)) = Labels(node[n].queue) \cup {<<m.num, m.kind>>}
      /\ Len(Append(node[n].queue, m)) = Len(node[n].queue) + 1
      /\ Len(node[n].queue) \in Nat
  <2>1. node[n].queue \in Seq(Messages) /\ m \in Messages
    BY <1>3, NodeFields
  <2> QED
    BY <2>1, OneAppended
<1>6. node'[n].unfinished = node[n].unfinished + 1
  <2>1. PICK msg, v : v = [node[n] EXCEPT !.queue = Append(@, msg), !.unfinished = @ + 1]
                      /\ node' = [node EXCEPT ![n] = v]
    BY <1>2 DEF Commit
  <2>2. v.unfinished = node[n].unfinished + 1
    BY <2>1, NodeFields DEF NodeStates
  <2> QED
    BY <2>1, <2>2, CounterBecomes
<1>7. Counted'
  <2>1. PICK i, j, k \in Nat : /\ i = Len(node[n].queue) /\ j = Len(node[n].other)
                               /\ k = Len(node[n].subs)
    BY NodeFields
  <2>2. node[n].unfinished = i + j + k
    BY <1>1, <2>1 DEF JInv, Counted, Load
  <2>3. Load(n)' = (i + 1) + j + k
    BY <1>4, <1>5, <2>1 DEF Load
  <2>4. (i + 1) + j + k = i + j + k + 1
    BY Sums
  <2>5. (node[n].unfinished = Load(n))'
    BY <1>6, <2>2, <2>3, <2>4
  <2>6. \A l \in DOMAIN node : l # n => Load(l)' = Load(l) /\ node'[l] = node[l]
    BY <1>4 DEF Load
  <2> QED
    BY <1>1, <1>4, <2>5, <2>6 DEF JInv, Counted
<1>8. \A l \in DOMAIN node' : Sorted(l)'
  BY <1>4 DEF JInv, Sorted
<1>9. ASSUME Distinct'  PROVE  Joined'
  <2>0. Distinct
    BY <1>1, <1>9 DEF Distinct
  <2>1. ASSUME NEW l \in DOMAIN node, NEW x \in OnNode(l)
        PROVE  NotJoined(x[1])'
    <3>1. PICK y \in DOMAIN pc : y = x[1][1]
      BY <2>0, LabelOwners DEF Committed
    <3>2. x[1][3] \in Nat /\ NotJoined(x[1])
      BY <2>0, LabelOwners DEF Nums, JInv, Joined
    <3>3. CASE y = a
      <4>1. \A k \in DOMAIN program.code[a] : k < pc[a] + 1 => k < pc[a] \/ k = pc[a]
        BY <1>1, CodeFacts
      <4> QED
        BY <1>1, <1>3, <3>1, <3>2, <3>3, <4>1 DEF NotJoined
    <3>4. CASE y # a
      BY <1>1, <3>1, <3>2, <3>4 DEF NotJoined
    <3> QED
      BY <3>3, <3>4
  <2>2. NotJoined(m.num)'
    <3>1. \A k \in DOMAIN program.code[a] : ~(pc[a] < k /\ k < pc[a] + 1)
      BY <1>1, CodeFacts
    <3> QED
      BY <1>1, <1>3, <3>1 DEF NotJoined
  <2>3. ASSUME NEW l \in DOMAIN node, NEW x \in OnNode(l)'
        PROVE  x \in OnNode(l) \/ x[1] = m.num
    <3>1. CASE l = n
      <4>1. x \in OnNode(n) \cup {<<m.num, m.kind>>}
        BY <1>4, <1>5, <2>3, <3>1 DEF OnNode
      <4> QED
        BY <3>1, <4>1
    <3>2. CASE l # n
      BY <1>4, <2>3, <3>2 DEF OnNode
    <3> QED
      BY <3>1, <3>2
  <2> QED
    BY <1>4, <2>1, <2>2, <2>3 DEF Joined
<1> QED
  BY <1>7, <1>8, <1>9 DEF JInv

(* Every step keeps it.                                                      *)
LEMMA NextJInv ==
    ASSUME MultiThreadAssumption, IInv, JInv, [Next]_vars
    PROVE  JInv'
<1>0. Types /\ Sound /\ Collected /\ Waits /\ (Distinct => Tracked)
  BY DEF IInv, Sound
<1>1. CASE MainThread
  <2>1. program' = program
    BY <1>1 DEF MainThread, StartBackend, RunApp, AsCompleted, EndRound, JoinBackend, StopHandler
  <2>2. CASE StartBackend \/ AsCompleted \/ EndRound
    BY <2>1, <2>2, ElsewhereJoins
  <2>3. CASE RunApp
    BY <1>0, <2>1, <2>3, RunAppJoins
  <2>4. CASE JoinBackend
    BY <1>0, <2>4, JoinBackendJoins
  <2>5. CASE \E n \in DOMAIN node : StopHandler(n)
    BY <1>0, <2>5, HandlerJoins, NotEnded
  <2> QED
    BY <1>1, <2>2, <2>3, <2>4, <2>5 DEF MainThread
<1>2. CASE BackendThread
  <2>1. CASE RunSimulation \/ EndSimulation
    BY <2>1, ElsewhereJoins DEF RunSimulation, EndSimulation
  <2>2. CASE \E n \in DOMAIN node : StartHandler(n)
    BY <1>0, <2>2, HandlerJoins, NotEnded
  <2> QED
    BY <1>2, <2>1, <2>2 DEF BackendThread
<1>3. CASE LinkLayer
  BY <1>3, ElsewhereJoins DEF LinkLayer, DeliverPair, HandleEprResponse
<1>4. CASE \E a \in DOMAIN pc : AppThread(a)
  BY <1>0, <1>4, CommitJoins, JoinAllJoins DEF AppThread
<1>5. CASE \E w \in waiters : Waiter(w)
  BY <1>0, <1>5, WaiterJoins
<1>6. CASE \E n \in DOMAIN node : Handler(n)
  BY <1>0, <1>6, HandlerJoins, NotEnded
<1>7. CASE UNCHANGED vars
  <2>1. UNCHANGED <<program, main, round, pc, node>>
    BY <1>7 DEF vars, mainvars, apps
  <2> QED
    BY <2>1, SameLoads DEF NotJoined
<1> QED
  BY <1>1, <1>2, <1>3, <1>4, <1>5, <1>6, <1>7 DEF Next

(* It holds at the beginning, when nothing is anywhere.                      *)
LEMMA InitJInv ==
    ASSUME Init
    PROVE  JInv
<1>1. \A n \in DOMAIN node : /\ node[n].queue = <<>> /\ node[n].other = <<>>
                             /\ node[n].subs = <<>> /\ node[n].unfinished = 0
  BY DEF Init
<1>2. Labels(<<>>) = {} /\ Len(<<>>) = 0
  BY DEF Labels
<1>3. \A n \in DOMAIN node : Load(n) = 0 /\ OnNode(n) = {} /\ Sorted(n)
  <2>1. ASSUME NEW n \in DOMAIN node  PROVE  Load(n) = 0
    <3>1. Load(n) = 0 + 0 + 0
      BY <1>1, <1>2 DEF Load
    <3> QED
      BY <3>1
  <2>2. \A n \in DOMAIN node : OnNode(n) = {} /\ Sorted(n)
    BY <1>1, <1>2, Zenon DEF OnNode, Sorted
  <2> QED
    BY <2>1, <2>2
<1> QED
  BY <1>1, <1>3 DEF JInv, Counted, Joined

(* The counters of the queues are right, and what a program sent before a    *)
(* join that it has passed is over, unless equal messages are underway.      *)
THEOREM JoinInvariance == Spec => []JInv
<1>1. Init => JInv
  BY InitJInv
<1>2. IInv /\ JInv /\ [Next]_vars => JInv'
  BY MultiThreadAssumption, NextJInv
<1> QED
  BY <1>1, <1>2, Invariance, PTL DEF Spec

(* A stop message and a subroutine of one program on its node: the stop      *)
(* message is what the program is at, so the subroutine is of this round,    *)
(* and the program neither waits for it nor has passed a join since.         *)
LEMMA NoneBeforeStop ==
    ASSUME IInv, JInv, Distinct, MultiThreadAssumption, NEW n \in DOMAIN node,
           NEW i \in DOMAIN node[n].other, NEW j \in DOMAIN node[n].subs,
           NEW t, t = node[n].other[i], NEW s, s = node[n].subs[j],
           t.kind = "stop", t.app = s.app, WaitsForAll(program.code[t.app])
    PROVE  FALSE
<1>1. Types /\ Collected /\ Waits /\ Tracked /\ Held(n)
  BY DEF IInv, Sound, Tracked
<1>2. PICK w \in waiters : w.num = t.num /\ w.msg = Bytes(t)
  <2>1. <<2, i>> \in Slots(n) /\ Item(n, <<2, i>>) = t
    BY SlotFacts DEF Lane, Item
  <2> QED
    BY <1>1, <2>1 DEF Held, Awaited
<1>3. PICK v \in waiters : v.num = s.num /\ v.msg = Bytes(s)
  <2>1. <<3, j>> \in Slots(n) /\ Item(n, <<3, j>>) = s
    BY SlotFacts DEF Lane, Item
  <2> QED
    BY <1>1, <2>1 DEF Held, Awaited
<1>4. Due(w) /\ Due(v) /\ w.num \in Nums /\ v.num \in Nums
  BY <1>1, WaiterFacts DEF Waits
<1>5. <<s.num, s.kind>> \in OnNode(n) /\ s.kind = "subroutine"
  <2>1. <<s.num, s.kind>> \in Labels(node[n].subs)
    BY DEF Labels
  <2> QED
    BY <2>1 DEF JInv, Sorted, OnNode
<1>6. PICK a \in DOMAIN pc, p, q \in Nat :
          /\ a = w.app /\ a = v.app /\ a = t.app /\ p = w.num[3] /\ q = v.num[3]
  <2>1. w.app = t.app /\ v.app = s.app /\ w.app \in DOMAIN pc
    BY <1>1, <1>2, <1>3, <1>4, WaiterFacts DEF Due, Bytes
  <2>2. w.num[3] \in Nat /\ v.num[3] \in Nat
    BY <1>4 DEF Nums
  <2> QED
    BY <2>1, <2>2
<1> DEFINE code == program.code[a]
<1>7. /\ w.num[1] = a /\ v.num[1] = a
      /\ p \in DOMAIN code /\ q \in DOMAIN code
      /\ code[p].kind = "stop" /\ code[q].kind = "subroutine"
  <2>1. w.msg.kind = "stop" /\ v.msg.kind = "subroutine"
    BY <1>2, <1>3, <1>5 DEF Bytes
  <2>2. w.num[1] = a /\ p \in DOMAIN code
    BY <1>4, <1>6 DEF Due, Committed
  <2>3. v.num[1] = a /\ q \in DOMAIN code
    BY <1>4, <1>6 DEF Due, Committed
  <2>4. w.msg.kind = code[p].kind /\ v.msg.kind = code[q].kind
    <3>1. w.msg.kind = OpOf(w.num).kind /\ v.msg.kind = OpOf(v.num).kind
      BY <1>4 DEF Due
    <3>2. OpOf(w.num) = code[p] /\ OpOf(v.num) = code[q]
      BY <1>6, <2>2, <2>3 DEF OpOf
    <3> QED
      BY <3>1, <3>2
  <2> QED
    BY <2>1, <2>2, <2>3, <2>4
<1>8. /\ main = "collect" /\ w.num[2] = round /\ pc[a] = p + 1
  <2>1. code[p].block = TRUE
    BY <1>7, <1>1, OperationFacts DEF IsOp
  <2> QED
    BY <1>4, <1>6, <1>7, <2>1 DEF Due, OpOf
<1>9. code[q].block = FALSE
  <2>1. ASSUME code[q].block  PROVE  FALSE
    <3>1. pc[a] = q + 1
      BY <1>4, <1>6, <1>7, <2>1 DEF Due, OpOf
    <3>2. p = q
      BY <1>6, <1>8, <3>1
    <3> QED
      BY <1>7, <3>2
  <2>2. code[q].block \in BOOLEAN
    BY <1>7, <1>1, OperationFacts DEF IsOp
  <2> QED
    BY <2>1, <2>2
<1>10. v.num[2] = round
  <2>1. program.rounds = 1
    BY <1>7, <1>9 DEF Distinct
  <2>2. round = 0
    BY <1>1, <1>8, <2>1 DEF Collected, Types
  <2>3. v.num[2] \in Nat /\ (v.num[2] < round \/ v.num[2] = round)
    BY <1>4 DEF Due, Committed, Nums
  <2> QED
    BY <2>2, <2>3
<1>11. PICK k \in DOMAIN code : /\ q < k /\ code[k].kind = "join"
                                /\ \A l \in q .. k : code[l].kind # "stop"
  <2>1. WaitsForAll(code)
    BY <1>6
  <2>2. ~(\A l \in DOMAIN code :
            code[l].kind = "subroutine" /\ code[l].arg = code[q].arg => code[l].block)
    BY <1>7, <1>9
  <2> HIDE DEF code
  <2> QED
    BY <1>7, <2>1, <2>2 DEF WaitsForAll
<1>12. k < pc[a]
  <2>1. q < p + 1
    <3>1. q < pc[a] \/ v.num[2] < round
      BY <1>4, <1>6, <1>7 DEF Due, Committed
    <3>2. ~(v.num[2] < round)
      BY <1>1, <1>10 DEF Types
    <3> QED
      BY <1>8, <3>1, <3>2
  <2>2. p # q
    BY <1>7
  <2>3. k \in Nat
    BY <1>11, CodeFacts, <1>1
  <2>4. p =< k => p \in q .. k
    BY <1>6, <2>1, <2>3
  <2>5. ~(p =< k)
    BY <1>7, <1>11, <2>4
  <2> QED
    BY <1>6, <1>8, <2>3, <2>5
<1>13. NotJoined(s.num)
  BY <1>5 DEF JInv, Joined
<1> QED
  BY <1>3, <1>6, <1>7, <1>8, <1>10, <1>11, <1>12, <1>13 DEF NotJoined

(* A stop message overtakes no unfinished subroutine of a program that waits *)
(* for all of its own (nqasm/qnodeos.py takes other tasks first), unless     *)
(* equal messages are on their way at once; and, whatever the messages, the  *)
(* circuit of a request is set up from both ends until the circuits are      *)
(* reset (nqasm/netstack.py).                                                *)
THEOREM OrderKept == Spec => []((Distinct => InOrder) /\ CircuitsOpen)
<1>1. ASSUME IInv  PROVE  CircuitsOpen
  <2>1. ASSUME main # "end", NEW c \in creates
        PROVE  <<Remote(c.sck), Local(c.node, c.sck)>> \in circuits
    <3>1. SetUp(EndOf(c))
      BY <1>1, <2>1 DEF IInv, Sound, Requested, Requests, Ready
    <3> QED
      BY <3>1 DEF SetUp, EndOf, HasCircuit
  <2> QED
    BY <2>1 DEF CircuitsOpen
<1>2. ASSUME IInv, JInv, Distinct  PROVE  StopsLast
  <2>1. ASSUME NEW n \in DOMAIN node, NEW t \in ToSet(node[n].other),
               NEW s \in ToSet(node[n].subs),
               t.kind = "stop", t.app = s.app, WaitsForAll(program.code[t.app])
        PROVE  s.finished
    <3>1. PICK i \in DOMAIN node[n].other : t = node[n].other[i]
      BY DEF ToSet
    <3>2. PICK j \in DOMAIN node[n].subs : s = node[n].subs[j]
      BY DEF ToSet
    <3> QED
      BY <1>2, <2>1, <3>1, <3>2, MultiThreadAssumption, NoneBeforeStop
  <2> QED
    BY <2>1 DEF StopsLast
<1> QED
  BY <1>1, <1>2, Invariance, JoinInvariance, PTL DEF InOrder
=============================================================================
