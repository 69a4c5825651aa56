--------------------------- MODULE QNodeOS_proofs ---------------------------
(***************************************************************************)
(* Proofs about QNodeOS: for any number of runs, sockets and subroutines,  *)
(* and whether or not applications are cleared, each answer the Host takes *)
(* is its own run's, subroutines run on open sockets and existing memory,  *)
(* and nothing runs for an application that was stopped.                   *)
(***************************************************************************)
EXTENDS QNodeOS, QueueLemmas

\* The messages, by name.
InitMsg == [kind |-> "init"]
OpenMsg(a, i) == [kind |-> "open", app |-> a, socket |-> i]
SubrtMsg(a, k) == [kind |-> "subroutine", app |-> a, subrt |-> k]
StopMsg(a) == [kind |-> "stop", app |-> a]

UpTo(n) == [i \in 1 .. n |-> i]

Messages ==
    {InitMsg} \cup {OpenMsg(a, i) : a \in Apps, i \in Nat}
        \cup {SubrtMsg(a, k) : a \in Apps, k \in Nat} \cup {StopMsg(a) : a \in Apps}

\* The open_epr_socket calls for a's sockets after the first j of n.
Opens(n, a, j) == [i \in 1 .. n - j |-> OpenMsg(a, i + j)]

\* What is on its way to the handler while j of a's n sockets are open: those
\* calls, and then `rest`.
Stream(n, a, j, rest) == Opens(n, a, j) \o rest

-----------------------------------------------------------------------------
(* The inductive invariant: the phases of a run, and what is true in all of  *)
(* them.  The current application is the last one that the handler made.     *)

Current == counter - 1

Begun == NumTimes - pending

HostType ==
    host \in [at : {"start", "await_id", "program", "await_result"}, app : Apps \cup {NoApp}]

Types ==
    /\ sockets \in Nat
    /\ HostType
    /\ pending \in 0 .. NumTimes
    /\ counter \in 0 .. NumTimes
    /\ results \in Seq(Apps)
    /\ committed \in [Apps -> 0 .. NumSubrts]
    /\ waiting \in [Apps -> Seq(1 .. NumSubrts)]
    /\ executed \in [Apps -> Seq(1 .. NumSubrts)]
    /\ opened \in [Apps -> Seq(Nat)]

\* A program runs for the current application; the results are those of
\* applications that came before it, or of its own if no run is under way.
HostAndHandler ==
    /\ host.at \in {"program", "await_result"} => host.app = Current
    /\ \A i \in DOMAIN results : results[i] < counter
    /\ \A i \in DOMAIN results :
           host.at \in {"program", "await_result"} => results[i] < Current

\* Applications that were not made yet have no state.
Fresh ==
    \A a \in Apps : a >= counter =>
        committed[a] = 0 /\ executed[a] = <<>> /\ opened[a] = <<>>

\* The handler's applications, if the current one is registered and if it was
\* stopped.  Without clearing, they all stay.
Kept ==
    /\ memories = 0 .. Current
    /\ applications \in Seq(memories)
    /\ counter = 0 => applications = <<>>
    /\ counter > 0 => applications # <<>> /\ Head(applications) = 0

Registered ==
    IF ClearMemory THEN memories = {Current} /\ applications = <<Current>> ELSE Kept

Unregistered ==
    IF ClearMemory THEN memories = {} /\ applications = <<>> ELSE Kept

\* No subroutine waits or runs.
Quiet ==
    /\ handler = NoApp
    /\ toProcessor = <<>>
    /\ \A a \in Apps : waiting[a] = <<>>

\* The current application exists, and its memory saw n subroutines.
Live(n) ==
    /\ Current \in Apps
    /\ Registered
    /\ executed[Current] = UpTo(n)

\* Nothing is under way.
Idle ==
    /\ host.at = "start" /\ counter = Begun
    /\ Unregistered /\ Quiet
    /\ toHandler = <<>> /\ toHost = <<>>

\* The handler has only init_new_app left to do.
Starting ==
    /\ host.at = "await_id" /\ counter = Begun - 1
    /\ Unregistered /\ Quiet
    /\ toHandler = <<InitMsg>> /\ toHost = <<>>

\* The new application's ID is on its way.
Answered ==
    /\ host.at = "await_id" /\ counter = Begun
    /\ Live(0) /\ Quiet
    /\ \A i \in DOMAIN results : results[i] < Current
    /\ committed[Current] = 0 /\ opened[Current] = <<>>
    /\ toHandler = <<>> /\ toHost = <<[kind |-> "id", app |-> Current]>>

\* What follows the open_epr_socket calls, by what the Host did last.
LastSent ==
    CASE host.at = "start" -> <<StopMsg(Current)>>
      [] host.at = "await_id" -> <<StopMsg(Current), InitMsg>>
      [] host.at = "program" -> <<>>
      [] host.at = "await_result" -> <<SubrtMsg(Current, committed[Current])>>

\* j of the current application's sockets are open.
ServesFrom(j) ==
    /\ opened[Current] = UpTo(j)
    /\ toHandler = Stream(sockets, Current, j, LastSent)

\* The handler has sockets to open and then, perhaps, the current application
\* to stop or a subroutine of it to run.
Serving ==
    /\ counter = IF host.at = "await_id" THEN Begun - 1 ELSE Begun
    /\ Quiet
    /\ toHost = <<>>
    /\ IF host.at = "await_result"
         THEN committed[Current] > 0 /\ Live(committed[Current] - 1)
         ELSE Live(committed[Current])
    /\ \E j \in 0 .. sockets : ServesFrom(j)

\* The Host waits and every socket is open.
Waits ==
    /\ host.at = "await_result" /\ counter = Begun
    /\ committed[Current] > 0
    /\ opened[Current] = UpTo(sockets)
    /\ toHandler = <<>>

\* A subroutine is with the processor.
Executing ==
    /\ Waits
    /\ Live(committed[Current] - 1)
    /\ handler = Current
    /\ toProcessor = <<[app |-> Current, subrt |-> committed[Current]]>>
    /\ \A a \in Apps : waiting[a] = <<>>
    /\ toHost = <<>>

\* A subroutine waits behind the first application, which was not cleared.
Stuck ==
    /\ ~ClearMemory /\ Current > 0
    /\ Waits
    /\ Live(committed[Current] - 1)
    /\ handler = NoApp /\ toProcessor = <<>> /\ toHost = <<>>
    /\ waiting[0] = <<>>

\* The application's memory is on its way to the Host.
Finished ==
    /\ Waits
    /\ Live(committed[Current])
    /\ Quiet
    /\ toHost = <<[kind |-> "memory", app |-> Current]>>

Phase == Idle \/ Starting \/ Answered \/ Serving \/ Executing \/ Stuck \/ Finished

IInv == Types /\ HostAndHandler /\ Fresh /\ Phase

-----------------------------------------------------------------------------
(* Messages have the fields they are made with.                              *)
LEMMA Fields ==
    /\ InitMsg.kind = "init"
    /\ \A a, i : /\ OpenMsg(a, i).kind = "open" /\ OpenMsg(a, i).app = a
                 /\ OpenMsg(a, i).socket = i
    /\ \A a, k : /\ SubrtMsg(a, k).kind = "subroutine" /\ SubrtMsg(a, k).app = a
                 /\ SubrtMsg(a, k).subrt = k
    /\ \A a : StopMsg(a).kind = "stop" /\ StopMsg(a).app = a
BY DEF InitMsg, OpenMsg, SubrtMsg, StopMsg

(* One more element.                                                         *)
LEMMA UpToNext ==
    /\ UpTo(0) = <<>>
    /\ \A n \in Nat : /\ UpTo(n) \in Seq(Nat) /\ Len(UpTo(n)) = n
                      /\ Append(UpTo(n), n + 1) = UpTo(n + 1)
<1>1. UpTo(0) = <<>>
  BY DEF UpTo
<1>2. SUFFICES ASSUME NEW n \in Nat
               PROVE  /\ UpTo(n) \in Seq(Nat) /\ Len(UpTo(n)) = n
                      /\ Append(UpTo(n), n + 1) = UpTo(n + 1)
  BY <1>1
<1>3. UpTo(n) \in Seq(Nat) /\ Len(UpTo(n)) = n
  BY DEF UpTo
<1>4. UpTo(n + 1) \in Seq(Nat) /\ Len(UpTo(n + 1)) = n + 1
  BY DEF UpTo
<1> DEFINE longer == Append(UpTo(n), n + 1)
<1>5. /\ longer \in Seq(Nat) /\ Len(longer) = n + 1
      /\ \A i \in 1 .. n : longer[i] = UpTo(n)[i]
      /\ longer[n + 1] = n + 1
  BY <1>3, AppendProperties
<1> HIDE DEF longer
<1>6. \A i \in 1 .. n + 1 : longer[i] = UpTo(n + 1)[i]
  BY <1>5 DEF UpTo
<1>7. longer = UpTo(n + 1)
  BY <1>4, <1>5, <1>6, SeqEqual
<1> QED
  BY <1>3, <1>7 DEF longer

(* The open_epr_socket calls as the handler takes them.                      *)
LEMMA OpensNext ==
    ASSUME NEW n \in Nat, NEW a \in Apps, NEW j \in 0 .. n
    PROVE  /\ Opens(n, a, j) \in Seq(Messages)
           /\ j = n => Opens(n, a, j) = <<>>
           /\ j < n => /\ Opens(n, a, j) # <<>>
                       /\ Head(Opens(n, a, j)) = OpenMsg(a, j + 1)
                       /\ Tail(Opens(n, a, j)) = Opens(n, a, j + 1)
<1> DEFINE calls == Opens(n, a, j)
<1>1. \A i \in 1 .. n - j : OpenMsg(a, i + j) \in Messages
  BY DEF Messages
<1>2. calls \in Seq(Messages) /\ Len(calls) = n - j
  BY <1>1 DEF Opens
<1>3. \A i \in 1 .. n - j : calls[i] = OpenMsg(a, i + j)
  BY DEF Opens
<1>4. ASSUME j = n PROVE calls = <<>>
  BY <1>2, <1>4, EmptySeq
<1>5. ASSUME j < n
      PROVE  /\ calls # <<>>
             /\ Head(calls) = OpenMsg(a, j + 1)
             /\ Tail(calls) = Opens(n, a, j + 1)
  <2> DEFINE later == Opens(n, a, j + 1)
             rest == Tail(calls)
  <2>1. \A i \in 1 .. n - (j + 1) : OpenMsg(a, i + (j + 1)) \in Messages
    BY DEF Messages
  <2>2. later \in Seq(Messages) /\ Len(later) = n - (j + 1)
    BY <2>1, <1>5 DEF Opens
  <2>3. \A i \in 1 .. n - (j + 1) : later[i] = OpenMsg(a, (i + 1) + j)
    BY DEF Opens
  <2> HIDE DEF calls, later
  <2>4. calls # <<>> /\ 1 \in 1 .. n - j
    BY <1>2, <1>5
  <2>5. /\ rest \in Seq(Messages) /\ Len(rest) = n - j - 1
        /\ Head(calls) = calls[1]
        /\ \A i \in 1 .. n - (j + 1) : rest[i] = calls[i + 1]
    BY <2>4, <1>2, HeadTailProperties
  <2> HIDE DEF rest
  <2>6. Head(calls) = OpenMsg(a, j + 1)
    BY <2>4, <2>5, <1>3
  <2>7. \A i \in 1 .. n - (j + 1) : rest[i] = later[i]
    BY <2>5, <2>3, <1>3
  <2>8. rest = later
    BY <2>2, <2>5, <2>7, SeqEqual
  <2> QED
    BY <2>4, <2>6, <2>8 DEF rest, later
<1> QED
  BY <1>2, <1>4, <1>5

(* The same, with other messages behind them.                                *)
LEMMA StreamNext ==
    ASSUME NEW n \in Nat, NEW a \in Apps, NEW j \in 0 .. n, NEW rest \in Seq(Messages)
    PROVE  /\ Stream(n, a, j, rest) \in Seq(Messages)
           /\ j = n => Stream(n, a, j, rest) = rest
           /\ j < n => /\ Stream(n, a, j, rest) # <<>>
                       /\ Head(Stream(n, a, j, rest)) = OpenMsg(a, j + 1)
                       /\ Tail(Stream(n, a, j, rest)) = Stream(n, a, j + 1, rest)
<1> DEFINE calls == Opens(n, a, j)
           all == calls \o rest
<1>1. calls \in Seq(Messages)
  BY OpensNext
<1>2. all \in Seq(Messages)
  BY <1>1, ConcatProperties
<1>3. ASSUME j = n PROVE all = rest
  BY <1>3, OpensNext, ConcatEmptySeq
<1>4. ASSUME j < n
      PROVE  /\ all # <<>>
             /\ Head(all) = OpenMsg(a, j + 1)
             /\ Tail(all) = Opens(n, a, j + 1) \o rest
  <2>1. /\ calls # <<>>
        /\ Head(calls) = OpenMsg(a, j + 1)
        /\ Tail(calls) = Opens(n, a, j + 1)
    BY <1>4, OpensNext
  <2> HIDE DEF calls
  <2>2. all # <<>> /\ Head(all) = Head(calls) /\ Tail(all) = Tail(calls) \o rest
    BY <1>1, <2>1, TakeFirst
  <2> QED
    BY <2>1, <2>2
<1> QED
  BY <1>2, <1>3, <1>4 DEF Stream

(* A message that the Host sends is the last one.                            *)
LEMMA StreamAppend ==
    ASSUME NEW n \in Nat, NEW a \in Apps, NEW j \in 0 .. n, NEW rest \in Seq(Messages),
           NEW m \in Messages
    PROVE  Append(Stream(n, a, j, rest), m) = Stream(n, a, j, Append(rest, m))
<1>1. Opens(n, a, j) \in Seq(Messages)
  BY OpensNext
<1>2. Opens(n, a, j) \o Append(rest, m) = Append(Opens(n, a, j) \o rest, m)
  BY <1>1, AppendLast
<1> QED
  BY <1>2, Zenon DEF Stream

(* What GotAppId sends.                                                      *)
LEMMA StreamFirst ==
    ASSUME NEW n \in Nat, NEW a \in Apps
    PROVE  <<>> \o [i \in 1 .. n |-> [kind |-> "open", app |-> a, socket |-> i]]
               = Stream(n, a, 0, <<>>)
<1> DEFINE all == [i \in 1 .. n |-> [kind |-> "open", app |-> a, socket |-> i]]
<1>1. all = Opens(n, a, 0)
  BY DEF Opens, OpenMsg
<1> HIDE DEF all
<1>2. Opens(n, a, 0) \in Seq(Messages)
  BY OpensNext
<1>3. <<>> \o all = all \o <<>>
  BY <1>1, <1>2, ConcatEmptySeq
<1> QED
  BY <1>1, <1>3 DEF Stream, all

(* A sequence over a set is one over every larger set.                       *)
LEMMA LargerSet ==
    ASSUME NEW S, NEW T, S \subseteq T, NEW s \in Seq(S)
    PROVE  s \in Seq(T)
OBVIOUS

(* A dict's only key is popped.                                              *)
LEMMA PoppedOnly == \A a : Popped(<<a>>, a) = <<>>
<1> TAKE a
<1>1. \A i \in DOMAIN <<a>> : i = 1
  OBVIOUS
<1>2. (CHOOSE i \in DOMAIN <<a>> : <<a>>[i] = a) = 1
  BY <1>1
<1>3. RemoveAt(<<a>>, 1) = <<>>
  BY DEF RemoveAt
<1> QED
  BY <1>2, <1>3 DEF Popped

(* The first application in the table, if there is one, was handed out.      *)
LEMMA TableHead ==
    ASSUME IInv, (Registered /\ Current \in Apps) \/ Unregistered
    PROVE  applications # <<>> => Head(applications) \in Apps
<1>1. counter \in 0 .. NumTimes /\ NumTimes \in Nat \ {0}
  BY QNodeOSAssumption DEF IInv, Types, HostType
<1>2. CASE ClearMemory
  BY <1>2 DEF Registered, Unregistered
<1>3. CASE ~ClearMemory
  BY <1>1, <1>3 DEF Registered, Unregistered, Kept, Apps
<1> QED
  BY <1>2, <1>3

(* What the Host sent last can be followed by more.                          *)
LEMMA LastSentType ==
    ASSUME IInv, Current \in Apps
    PROVE  /\ LastSent \in Seq(Messages)
           /\ host.at = "start" => LastSent = <<StopMsg(Current)>>
           /\ host.at = "await_id" => LastSent = <<StopMsg(Current), InitMsg>>
           /\ host.at = "program" => LastSent = <<>>
           /\ host.at = "await_result" =>
                  LastSent = <<SubrtMsg(Current, committed[Current])>>
<1>1. /\ InitMsg \in Messages
      /\ \A a \in Apps : StopMsg(a) \in Messages
      /\ \A a \in Apps : \A k \in Nat : SubrtMsg(a, k) \in Messages
  BY DEF Messages
<1>2. committed[Current] \in Nat
  BY QNodeOSAssumption DEF IInv, Types, HostType
<1>3. host.at \in {"start", "await_id", "program", "await_result"}
  BY DEF IInv, Types, HostType
<1> QED
  BY <1>1, <1>2, <1>3 DEF LastSent

(* What each kind of message tells the handler of the phase.                 *)
LEMMA Taken ==
    ASSUME IInv, NEW kind, Takes(kind)
    PROVE  /\ handler = NoApp /\ toHandler' = Tail(toHandler)
           /\ \/ kind = "init" /\ Starting /\ toHandler' = <<>>
              \/ /\ kind = "open" /\ Serving
                 /\ \E j \in 0 .. sockets :
                       /\ j < sockets /\ ServesFrom(j)
                       /\ Head(toHandler) = OpenMsg(Current, j + 1)
                       /\ toHandler' = Stream(sockets, Current, j + 1, LastSent)
              \/ /\ kind = "stop" /\ Serving /\ host.at = "start"
                 /\ Head(toHandler) = StopMsg(Current) /\ toHandler' = <<>>
              \/ /\ kind = "stop" /\ Serving /\ host.at = "await_id"
                 /\ Head(toHandler) = StopMsg(Current) /\ toHandler' = <<InitMsg>>
              \/ /\ kind = "subroutine" /\ Serving /\ host.at = "await_result"
                 /\ opened[Current] = UpTo(sockets)
                 /\ Head(toHandler) = SubrtMsg(Current, committed[Current])
                 /\ toHandler' = <<>>
<1>1. /\ handler = NoApp /\ toHandler # <<>>
      /\ Head(toHandler).kind = kind /\ toHandler' = Tail(toHandler)
  BY DEF Takes
<1>2. CASE Starting
  <2>1. toHandler = <<InitMsg>>
    BY <1>2 DEF Starting
  <2>2. kind = "init" /\ Tail(toHandler) = <<>>
    BY <1>1, <2>1, Fields
  <2> QED
    BY <1>1, <1>2, <2>2
<1>3. CASE Serving
  <2>1. Current \in Apps /\ sockets \in Nat
    BY <1>3 DEF Serving, Live, IInv, Types
  <2>2. PICK j \in 0 .. sockets : ServesFrom(j)
    BY <1>3 DEF Serving
  <2>3. LastSent \in Seq(Messages)
    BY <2>1, LastSentType
  <2>4. CASE j < sockets
    <3>1. /\ Head(toHandler) = OpenMsg(Current, j + 1)
          /\ toHandler' = Stream(sockets, Current, j + 1, LastSent)
      BY <1>1, <2>1, <2>2, <2>3, <2>4, StreamNext DEF ServesFrom
    <3>2. kind = "open"
      BY <1>1, <3>1, Fields
    <3> QED
      BY <1>1, <1>3, <2>2, <2>4, <3>1, <3>2
  <2>5. CASE j = sockets
    <3>1. toHandler = LastSent /\ opened[Current] = UpTo(sockets)
      BY <2>1, <2>2, <2>3, <2>5, StreamNext DEF ServesFrom
    <3>2. host.at \in {"start", "await_id", "program", "await_result"}
      BY DEF IInv, Types, HostType
    <3>3. CASE host.at = "start"
      <4>1. toHandler = <<StopMsg(Current)>>
        BY <2>1, <3>1, <3>3, LastSentType
      <4>2. Head(toHandler) = StopMsg(Current) /\ Tail(toHandler) = <<>>
        BY <4>1
      <4> QED
        BY <1>1, <1>3, <3>3, <4>2, Fields
    <3>4. CASE host.at = "await_id"
      <4>1. toHandler = <<StopMsg(Current), InitMsg>>
        BY <2>1, <3>1, <3>4, LastSentType
      <4>2. Head(toHandler) = StopMsg(Current) /\ Tail(toHandler) = <<InitMsg>>
        BY <4>1
      <4> QED
        BY <1>1, <1>3, <3>4, <4>2, Fields
    <3>5. CASE host.at = "program"
      BY <1>1, <2>1, <3>1, <3>5, LastSentType
    <3>6. CASE host.at = "await_result"
      <4>1. toHandler = <<SubrtMsg(Current, committed[Current])>>
        BY <2>1, <3>1, <3>6, LastSentType
      <4>2. /\ Head(toHandler) = SubrtMsg(Current, committed[Current])
            /\ Tail(toHandler) = <<>>
        BY <4>1
      <4> QED
        BY <1>1, <1>3, <3>1, <3>6, <4>2, Fields
    <3> QED
      BY <3>2, <3>3, <3>4, <3>5, <3>6
  <2> QED
    BY <2>1, <2>4, <2>5
<1> QED
  BY <1>1, <1>2, <1>3 DEF IInv, Phase, Idle, Answered, Executing, Stuck, Finished, Waits

(* Where the Host may be when it stands at a given place.                    *)
LEMMA HostPhases ==
    ASSUME IInv
    PROVE  /\ host.at = "start" => Idle \/ Serving
           /\ host.at = "program" => Serving
           /\ host.at = "await_id" /\ toHost # <<>> => Answered
           /\ host.at = "await_result" /\ toHost # <<>> => Finished
           /\ Serving => Current \in Apps /\ sockets \in Nat
BY DEF IInv, Types, HostType, Phase, Idle, Starting, Answered, Serving, Executing, Stuck, Finished,
       Waits, Live

-----------------------------------------------------------------------------
(* Each operation of the Host keeps the inductive invariant.                 *)
LEMMA StartRunInv ==
    ASSUME IInv, StartRun
    PROVE  IInv'
<1>1. /\ host.at = "start" /\ pending > 0 /\ pending' = pending - 1
      /\ toHandler' = Append(toHandler, InitMsg)
      /\ host' = [at |-> "await_id", app |-> NoApp]
      /\ UNCHANGED <<sockets, results, committed, toHost, toProcessor, executed>>
      /\ UNCHANGED <<handler, counter, applications, waiting, memories, opened>>
  BY DEF StartRun, InitMsg, handlerVars
<1>2. Types'
  <2>1. HostType' /\ host'.at = "await_id"
    BY <1>1 DEF HostType
  <2>2. pending' \in 0 .. NumTimes
    BY <1>1, QNodeOSAssumption DEF IInv, Types
  <2> QED
    BY <1>1, <2>1, <2>2 DEF IInv, Types
<1>3. HostAndHandler' /\ Fresh'
  BY <1>1 DEF IInv, HostAndHandler, Fresh, Current
<1>4. /\ Current' = Current /\ Begun' = Begun + 1 /\ Begun \in Nat /\ counter \in Nat
      /\ Quiet' = Quiet /\ Unregistered' = Unregistered
      /\ \A n : Live(n)' = Live(n)
  BY <1>1, QNodeOSAssumption DEF IInv, Types, HostType, Current, Begun, Quiet, Registered, Unregistered, Kept, Live
<1>5. CASE Idle
  <2>1. toHandler' = <<InitMsg>>
    BY <1>1, <1>5 DEF Idle
  <2>2. host'.at = "await_id" /\ counter' = Begun' - 1 /\ toHost' = <<>>
    BY <1>1, <1>4, <1>5 DEF Idle
  <2>3. Quiet' /\ Unregistered'
    BY <1>4, <1>5 DEF Idle
  <2>4. Starting'
    BY <2>1, <2>2, <2>3 DEF Starting, InitMsg
  <2> QED
    BY <1>2, <1>3, <2>4 DEF IInv, Phase
<1>6. CASE Serving
  <2>1. Current \in Apps /\ sockets \in Nat
    BY <1>6, HostPhases
  <2>2. LastSent = <<StopMsg(Current)>> /\ LastSent \in Seq(Messages)
    BY <1>1, <2>1, LastSentType
  <2>3. LastSent' = Append(LastSent, InitMsg)
    BY <1>1, <1>4, <2>2 DEF LastSent, StopMsg, InitMsg
  <2>4. PICK j \in 0 .. sockets : ServesFrom(j)
    BY <1>6 DEF Serving
  <2>5. toHandler' = Stream(sockets, Current, j, LastSent')
    <3>1. InitMsg \in Messages
      BY DEF Messages
    <3>2. Append(Stream(sockets, Current, j, LastSent), InitMsg)
            = Stream(sockets, Current, j, Append(LastSent, InitMsg))
      BY <2>1, <2>2, <3>1, StreamAppend
    <3> QED
      BY <1>1, <2>3, <2>4, <3>2, Zenon DEF ServesFrom
  <2>6. ServesFrom(j)'
    BY <1>1, <1>4, <2>4, <2>5 DEF ServesFrom
  <2>7. Serving'
    BY <1>1, <1>4, <1>6, <2>6 DEF Serving
  <2> QED
    BY <1>2, <1>3, <2>7 DEF IInv, Phase
<1> QED
  BY <1>1, <1>5, <1>6, HostPhases

(* GotAppId: the host has its application's ID.                              *)
LEMMA GotAppIdInv ==
    ASSUME IInv, GotAppId
    PROVE  IInv'
<1>1. Answered /\ host.at = "await_id"
  BY HostPhases DEF GotAppId
<1>2. /\ Current \in Apps /\ sockets \in Nat
      /\ toHost = <<[kind |-> "id", app |-> Current]>> /\ toHandler = <<>>
  BY <1>1 DEF Answered, Live, IInv, Types
<1>3. Head(toHost).app = Current /\ Tail(toHost) = <<>>
  BY <1>2
<1>4. /\ host' = [at |-> "program", app |-> Current]
      /\ toHandler' = Stream(sockets, Current, 0, <<>>)
      /\ toHost' = <<>>
      /\ UNCHANGED <<sockets, pending, results, committed, toProcessor, executed>>
      /\ UNCHANGED <<handler, counter, applications, waiting, memories, opened>>
  BY <1>2, <1>3, StreamFirst DEF GotAppId, handlerVars
<1>5. Types'
  BY <1>2, <1>4 DEF IInv, Types, HostType
<1>6. /\ Current' = Current /\ Begun' = Begun /\ counter \in Nat
      /\ Quiet' = Quiet
      /\ \A n : Live(n)' = Live(n)
  BY <1>4, QNodeOSAssumption DEF IInv, Types, HostType, Current, Begun, Quiet, Registered, Unregistered, Kept, Live
<1>7. HostAndHandler' /\ Fresh'
  BY <1>1, <1>4, <1>6 DEF IInv, HostAndHandler, Fresh, Answered
<1>8. ServesFrom(0)'
  BY <1>1, <1>4, <1>6, UpToNext DEF ServesFrom, LastSent, Answered
<1>9. Serving'
  BY <1>1, <1>2, <1>4, <1>6, <1>8 DEF Answered, Serving
<1> QED
  BY <1>5, <1>7, <1>9 DEF IInv, Phase

(* Commit: the host sends the next message of its program.                   *)
LEMMA CommitInv ==
    ASSUME IInv, Commit
    PROVE  IInv'
<1>1. Serving /\ host.at = "program" /\ host.app = Current
  BY HostPhases DEF Commit, IInv, HostAndHandler
<1>2. Current \in Apps /\ sockets \in Nat
  BY <1>1, HostPhases
<1> DEFINE k == committed[Current] + 1
<1>3. /\ k \in 1 .. NumSubrts
      /\ committed' = [committed EXCEPT ![Current] = k]
      /\ toHandler' = Append(toHandler, SubrtMsg(Current, k))
      /\ host' = [host EXCEPT !.at = "await_result"]
      /\ UNCHANGED <<sockets, pending, results, toHost, toProcessor, executed>>
      /\ UNCHANGED <<handler, counter, applications, waiting, memories, opened>>
  BY <1>1, <1>2, QNodeOSAssumption DEF Commit, SubrtMsg, handlerVars, IInv, Types
<1> HIDE DEF k
<1>4. /\ host'.at = "await_result" /\ host'.app = Current
      /\ committed'[Current] = k /\ committed[Current] = k - 1
      /\ \A a \in Apps : a # Current => committed'[a] = committed[a]
  BY <1>1, <1>2, <1>3 DEF IInv, Types, HostType, k
<1>5. Types'
  <2>1. HostType'
    BY <1>3 DEF IInv, Types, HostType
  <2>2. committed' \in [Apps -> 0 .. NumSubrts]
    BY <1>2, <1>3, QNodeOSAssumption DEF IInv, Types
  <2> QED
    BY <1>3, <2>1, <2>2 DEF IInv, Types
<1>6. /\ Current' = Current /\ Begun' = Begun /\ counter \in Nat /\ Current < counter
      /\ Quiet' = Quiet
      /\ \A n : Live(n)' = Live(n)
  BY <1>3, QNodeOSAssumption DEF IInv, Types, HostType, Current, Begun, Quiet, Registered, Unregistered, Kept, Live
<1>7. HostAndHandler' /\ Fresh'
  BY <1>1, <1>3, <1>4, <1>6 DEF IInv, Types, HostType, HostAndHandler, Fresh, Apps
<1>8. PICK j \in 0 .. sockets : ServesFrom(j)
  BY <1>1 DEF Serving
<1>9. toHandler' = Stream(sockets, Current, j, LastSent')
  <2>1. LastSent' = <<SubrtMsg(Current, k)>>
    BY <1>4, <1>6 DEF LastSent
  <2>2. LastSent = <<>> /\ LastSent \in Seq(Messages)
    BY <1>1, <1>2, LastSentType
  <2>3. SubrtMsg(Current, k) \in Messages
    BY <1>2, <1>3 DEF Messages
  <2>4. Append(Stream(sockets, Current, j, LastSent), SubrtMsg(Current, k))
          = Stream(sockets, Current, j, Append(LastSent, SubrtMsg(Current, k)))
    BY <1>2, <2>2, <2>3, StreamAppend
  <2>5. Append(LastSent, SubrtMsg(Current, k)) = LastSent'
    BY <2>1, <2>2
  <2> QED
    BY <1>3, <1>8, <2>4, <2>5, Zenon DEF ServesFrom
<1>10. ServesFrom(j)'
  BY <1>3, <1>6, <1>8, <1>9 DEF ServesFrom
<1>11. Serving'
  BY <1>1, <1>3, <1>4, <1>6, <1>10 DEF Serving
<1> QED
  BY <1>5, <1>7, <1>11 DEF IInv, Phase

(* GotResult: the host takes the memory of its subroutine.                   *)
LEMMA GotResultInv ==
    ASSUME IInv, GotResult
    PROVE  IInv'
<1>1. Finished /\ host.at = "await_result" /\ host.app = Current
  BY HostPhases DEF GotResult, IInv, HostAndHandler
<1>2. /\ Current \in Apps /\ sockets \in Nat
      /\ toHost = <<[kind |-> "memory", app |-> Current]>> /\ toHandler = <<>>
      /\ opened[Current] = UpTo(sockets)
  BY <1>1 DEF Finished, Waits, Live, IInv, Types
<1>3. Tail(toHost) = <<>>
  BY <1>2
<1>4. /\ host' = [host EXCEPT !.at = "program"]
      /\ toHost' = <<>>
      /\ UNCHANGED <<sockets, pending, results, committed, toHandler, toProcessor, executed>>
      /\ UNCHANGED <<handler, counter, applications, waiting, memories, opened>>
  BY <1>3 DEF GotResult, handlerVars
<1>5. host'.at = "program" /\ host'.app = Current
  BY <1>1, <1>4 DEF IInv, Types, HostType
<1>6. Types'
  BY <1>4 DEF IInv, Types, HostType
<1>7. /\ Current' = Current /\ Begun' = Begun /\ counter \in Nat
      /\ Quiet' = Quiet
      /\ \A n : Live(n)' = Live(n)
  BY <1>4, QNodeOSAssumption DEF IInv, Types, HostType, Current, Begun, Quiet, Registered, Unregistered, Kept, Live
<1>8. HostAndHandler' /\ Fresh'
  BY <1>1, <1>4, <1>5, <1>7 DEF IInv, HostAndHandler, Fresh
<1>9. ServesFrom(sockets)'
  <2>1. LastSent' = <<>>
    BY <1>5 DEF LastSent
  <2>2. Stream(sockets, Current, sockets, <<>>) = <<>>
    <3>1. sockets \in 0 .. sockets /\ <<>> \in Seq(Messages)
      BY <1>2, EmptySeq
    <3> QED
      BY <1>2, <3>1, StreamNext
  <2> QED
    BY <1>2, <1>4, <1>7, <2>1, <2>2 DEF ServesFrom
<1>10. Serving'
  BY <1>1, <1>2, <1>4, <1>5, <1>7, <1>9 DEF Finished, Waits, Serving
<1> QED
  BY <1>6, <1>8, <1>10 DEF IInv, Phase

(* EndRun: the program's result is stored, its application stopped.          *)
LEMMA EndRunInv ==
    ASSUME IInv, EndRun
    PROVE  IInv'
<1>1. Serving /\ host.at = "program" /\ host.app = Current
  BY HostPhases DEF EndRun, IInv, HostAndHandler
<1>2. Current \in Apps /\ sockets \in Nat
  BY <1>1, HostPhases
<1>3. /\ results' = Append(results, Current)
      /\ toHandler' = Append(toHandler, StopMsg(Current))
      /\ host' = [host EXCEPT !.at = "start"]
      /\ UNCHANGED <<sockets, pending, committed, toHost, toProcessor, executed>>
      /\ UNCHANGED <<handler, counter, applications, waiting, memories, opened>>
  BY <1>1 DEF EndRun, StopMsg, handlerVars
<1>4. host'.at = "start"
  BY <1>3 DEF IInv, Types, HostType
<1>5. /\ results \in Seq(Apps) /\ results' \in Seq(Apps)
      /\ Len(results') = Len(results) + 1
      /\ \A i \in 1 .. Len(results) : results'[i] = results[i]
      /\ results'[Len(results) + 1] = Current
  BY <1>2, <1>3, AppendProperties DEF IInv, Types
<1>6. Types'
  <2>1. HostType'
    BY <1>3 DEF IInv, Types, HostType
  <2> QED
    BY <1>3, <1>5, <2>1 DEF IInv, Types
<1>7. /\ Current' = Current /\ Begun' = Begun /\ counter \in Nat /\ Current < counter
      /\ Quiet' = Quiet
      /\ \A n : Live(n)' = Live(n)
  BY <1>3, QNodeOSAssumption DEF IInv, Types, HostType, Current, Begun, Quiet, Registered, Unregistered, Kept, Live
<1>8. HostAndHandler' /\ Fresh'
  <2>1. \A i \in DOMAIN results' : results'[i] < counter
    <3>1. \A i \in 1 .. Len(results) : results[i] < counter
      BY <1>5 DEF IInv, HostAndHandler
    <3>2. Len(results) \in Nat
      BY <1>5
    <3> HIDE <1>3
    <3>3. DOMAIN results' = 1 .. Len(results) + 1
      BY <1>5
    <3>4. \A i \in 1 .. Len(results) + 1 : i \in 1 .. Len(results) \/ i = Len(results) + 1
      BY <3>2
    <3> QED
      BY <1>5, <1>7, <3>1, <3>3, <3>4
  <2> QED
    BY <1>3, <1>4, <2>1 DEF IInv, HostAndHandler, Fresh
<1>9. PICK j \in 0 .. sockets : ServesFrom(j)
  BY <1>1 DEF Serving
<1>10. toHandler' = Stream(sockets, Current, j, LastSent')
  <2>1. LastSent' = <<StopMsg(Current)>>
    BY <1>4, <1>7 DEF LastSent
  <2>2. LastSent = <<>> /\ LastSent \in Seq(Messages)
    BY <1>1, <1>2, LastSentType
  <2>3. StopMsg(Current) \in Messages
    BY <1>2 DEF Messages
  <2>4. Append(Stream(sockets, Current, j, LastSent), StopMsg(Current))
          = Stream(sockets, Current, j, Append(LastSent, StopMsg(Current)))
    BY <1>2, <2>2, <2>3, StreamAppend
  <2>5. Append(LastSent, StopMsg(Current)) = LastSent'
    BY <2>1, <2>2
  <2> QED
    BY <1>3, <1>9, <2>4, <2>5, Zenon DEF ServesFrom
<1>11. ServesFrom(j)'
  BY <1>3, <1>7, <1>9, <1>10 DEF ServesFrom
<1>12. Serving'
  BY <1>1, <1>3, <1>4, <1>7, <1>11 DEF Serving
<1> QED
  BY <1>6, <1>8, <1>12 DEF IInv, Phase

-----------------------------------------------------------------------------
(* So does each operation of the handler.                                    *)
LEMMA InitNewAppInv ==
    ASSUME IInv, InitNewApp
    PROVE  IInv'
<1>1. Starting /\ toHandler' = <<>>
  <2>1. Takes("init")
    BY DEF InitNewApp
  <2> QED
    BY <2>1, Taken
<1>2. /\ counter \in Apps /\ counter = Begun - 1 /\ counter \in Nat /\ Current = counter - 1
      /\ Unregistered /\ Quiet /\ toHost = <<>>
  <2>1. counter \in 0 .. NumTimes /\ pending \in 0 .. NumTimes /\ NumTimes \in Nat
    BY QNodeOSAssumption DEF IInv, Types
  <2>2. counter = Begun - 1 /\ Unregistered /\ Quiet /\ toHost = <<>>
    BY <1>1 DEF Starting
  <2>3. counter \in Apps
    BY <2>1, <2>2 DEF Begun, Apps
  <2> QED
    BY <2>1, <2>2, <2>3 DEF Current
<1>3. /\ counter' = counter + 1 /\ Current' = counter
      /\ memories' = memories \cup {counter}
      /\ applications' = Append(applications, counter)
      /\ toHost' = <<[kind |-> "id", app |-> counter]>>
      /\ RunPending(applications', waiting)
      /\ UNCHANGED <<sockets, host, pending, results, committed, opened, executed>>
  BY <1>2 DEF InitNewApp, hostVars, Current
<1>4. Registered' /\ applications' # <<>> /\ Head(applications') \in Apps
  <2>1. CASE ClearMemory
    <3>1. memories' = {counter} /\ applications' = <<counter>>
      BY <1>2, <1>3, <2>1 DEF Registered, Unregistered, Kept
    <3>2. Head(applications') = counter
      BY <3>1
    <3> QED
      BY <1>2, <1>3, <2>1, <3>1, <3>2 DEF Registered, Unregistered, Kept
  <2>2. CASE ~ClearMemory
    <3>1. /\ memories = 0 .. counter - 1 /\ memories' = 0 .. counter
          /\ applications \in Seq(memories')
      <4>1. memories = 0 .. counter - 1 /\ applications \in Seq(memories)
        BY <1>2, <2>2 DEF Registered, Unregistered, Kept
      <4>2. memories' = 0 .. counter
        <5>1. memories' = memories \cup {counter}
          BY <1>3
        <5> QED
          BY <1>2, <4>1, <5>1
      <4>3. memories \subseteq memories'
        BY <1>3
      <4> QED
        BY <4>1, <4>2, <4>3, LargerSet
    <3>2. counter \in memories'
      BY <1>2, <3>1
    <3> DEFINE longer == Append(applications, counter)
    <3>3. /\ longer \in Seq(memories') /\ longer # <<>>
          /\ Head(longer) = IF applications = <<>> THEN counter ELSE Head(applications)
      BY <3>1, <3>2, HeadTailAppend, AppendProperties, ZenonT(40)
    <3> HIDE DEF longer
    <3>4. Head(longer) = 0
      BY <1>2, <2>2, <3>3 DEF Registered, Unregistered, Kept
    <3>5. 0 \in Apps
      BY QNodeOSAssumption DEF Apps
    <3>6. applications' = longer
      BY <1>3 DEF longer
    <3>7. memories' = 0 .. Current' /\ counter' > 0
      BY <1>2, <1>3, <3>1
    <3> QED
      BY <1>3, <2>2, <3>3, <3>4, <3>5, <3>6, <3>7 DEF Registered, Unregistered, Kept
  <2> QED
    BY <2>1, <2>2
<1>5. handler' = NoApp /\ waiting' = waiting /\ toProcessor' = toProcessor
  <2>1. waiting[Head(applications')] = <<>>
    BY <1>2, <1>4 DEF Quiet
  <2> QED
    BY <1>3, <2>1 DEF RunPending
<1>6. /\ counter' = counter + 1 /\ Current' = counter
       /\ toHost' = <<[kind |-> "id", app |-> counter]>>
       /\ UNCHANGED <<sockets, host, pending, results, committed, opened, executed, waiting>>
  BY <1>3, <1>5
<1>7. Types'
  <2>1. counter' \in 0 .. NumTimes
    BY <1>2, <1>6, QNodeOSAssumption DEF Apps
  <2> QED
    BY <1>6, <2>1 DEF IInv, Types, HostType
<1>8. \A i \in DOMAIN results : results[i] < counter /\ results[i] < counter + 1
  <2> SUFFICES ASSUME NEW i \in DOMAIN results
               PROVE  results[i] < counter /\ results[i] < counter + 1
    OBVIOUS
  <2>1. results[i] \in Int /\ results[i] < counter
    BY DEF IInv, Types, HostAndHandler, Apps
  <2> QED
    BY <1>2, <2>1
<1>9. HostAndHandler' /\ Fresh'
  <2>1. host.at = "await_id"
    BY <1>1 DEF Starting
  <2>2. HostAndHandler'
    BY <1>6, <1>8, <2>1 DEF HostAndHandler
  <2> QED
    BY <1>2, <1>6, <2>2 DEF IInv, Fresh, Apps
<1>10. Live(0)' /\ committed'[counter] = 0 /\ opened'[counter] = <<>>
  <2>1. executed[counter] = <<>> /\ committed[counter] = 0 /\ opened[counter] = <<>>
    BY <1>2 DEF IInv, Fresh
  <2> QED
    BY <1>2, <1>4, <1>6, <2>1, UpToNext DEF Live
<1>11. Quiet'
  BY <1>2, <1>5 DEF Quiet
<1>12. Begun' = Begun /\ counter' = Begun'
  <2>1. pending \in Int /\ pending' = pending /\ NumTimes \in Int
    BY <1>6, QNodeOSAssumption DEF IInv, Types
  <2> QED
    BY <1>2, <1>6, <2>1 DEF Begun
<1>13. Answered'
  BY <1>1, <1>6, <1>8, <1>10, <1>11, <1>12 DEF Starting, Answered
<1> QED
  BY <1>7, <1>9, <1>13 DEF IInv, Phase

(* OpenEprSocket: the handler opens a socket of the application.             *)
LEMMA OpenEprSocketInv ==
    ASSUME IInv, OpenEprSocket
    PROVE  IInv'
<1>1. Takes("open")
  BY DEF OpenEprSocket
<1>2. PICK j \in 0 .. sockets :
           /\ Serving /\ j < sockets /\ ServesFrom(j)
           /\ Head(toHandler) = OpenMsg(Current, j + 1)
           /\ toHandler' = Stream(sockets, Current, j + 1, LastSent)
  BY <1>1, Taken
<1>3. Current \in Apps /\ sockets \in Nat /\ Registered /\ Quiet
  BY <1>2 DEF Serving, Live, IInv, Types
<1>4. Head(toHandler).app = Current /\ Head(toHandler).socket = j + 1
  BY <1>2, Fields
<1>5. /\ opened' = [opened EXCEPT ![Current] = Append(@, j + 1)]
      /\ RunPending(applications, waiting)
      /\ UNCHANGED <<sockets, host, pending, results, committed, toHost, counter, applications,
                     memories, executed>>
  BY <1>4 DEF OpenEprSocket, hostVars
<1>6. handler' = NoApp /\ waiting' = waiting /\ toProcessor' = toProcessor
  <2>1. applications = <<>> \/ waiting[Head(applications)] = <<>>
    BY <1>3, TableHead DEF Quiet
  <2> QED
    BY <1>5, <2>1 DEF RunPending
<1>7. opened[Current] = UpTo(j) /\ opened'[Current] = UpTo(j + 1)
  <2>1. opened[Current] = UpTo(j)
    BY <1>2 DEF ServesFrom
  <2>2. opened'[Current] = Append(UpTo(j), j + 1)
    BY <1>3, <1>5, <2>1 DEF IInv, Types
  <2> QED
    BY <2>1, <2>2, UpToNext
<1>8. /\ opened' \in [Apps -> Seq(Nat)]
      /\ \A a \in Apps : a # Current => opened'[a] = opened[a]
  <2> DEFINE more == Append(UpTo(j), j + 1)
  <2>1. opened' = [opened EXCEPT ![Current] = more]
    BY <1>3, <1>5, <1>7 DEF IInv, Types
  <2>2. more \in Seq(Nat)
    BY UpToNext
  <2> HIDE DEF more
  <2> QED
    BY <1>3, <2>1, <2>2 DEF IInv, Types
<1>9. Types'
  BY <1>5, <1>6, <1>8 DEF IInv, Types, HostType
<1>10. /\ Current' = Current /\ Begun' = Begun /\ counter \in Nat /\ Current < counter
       /\ Quiet'
       /\ \A n : Live(n)' = Live(n)
  BY <1>3, <1>5, <1>6, QNodeOSAssumption
    DEF IInv, Types, Current, Begun, Quiet, Registered, Unregistered, Kept, Live
<1>11. HostAndHandler' /\ Fresh'
  BY <1>5, <1>8, <1>10 DEF IInv, HostAndHandler, Fresh, Apps
<1>12. ServesFrom(j + 1)'
  BY <1>2, <1>5, <1>7, <1>10 DEF ServesFrom, LastSent
<1>13. Serving'
  <2>1. j + 1 \in 0 .. sockets'
    BY <1>2, <1>3, <1>5
  <2> QED
    BY <1>2, <1>5, <1>10, <1>12, <2>1 DEF Serving
<1> QED
  BY <1>9, <1>11, <1>13 DEF IInv, Phase

(* AddSubroutine: the handler queues a subroutine.                           *)
LEMMA AddSubroutineInv ==
    ASSUME IInv, AddSubroutine
    PROVE  IInv'
<1>1. Takes("subroutine")
  BY DEF AddSubroutine
<1> DEFINE k == committed[Current]
<1>2. /\ Serving /\ host.at = "await_result" /\ opened[Current] = UpTo(sockets)
      /\ Head(toHandler) = SubrtMsg(Current, k) /\ toHandler' = <<>>
  BY <1>1, Taken
<1>3. /\ Current \in Apps /\ sockets \in Nat /\ Registered /\ Quiet
      /\ k \in 1 .. NumSubrts /\ counter = Begun /\ Live(k - 1) /\ toHost = <<>>
  <2>1. Live(k - 1) /\ Quiet /\ k > 0 /\ counter = Begun /\ toHost = <<>>
    BY <1>2 DEF Serving
  <2>2. Current \in Apps /\ Registered
    BY <2>1 DEF Live
  <2>3. k \in 0 .. NumSubrts /\ sockets \in Nat
    BY <2>2 DEF IInv, Types
  <2> QED
    BY <2>1, <2>2, <2>3, QNodeOSAssumption
<1>4. Head(toHandler).app = Current /\ Head(toHandler).subrt = k
  BY <1>2, Fields
<1> DEFINE subrts == [waiting EXCEPT ![Current] = <<k>>]
<1>5. /\ RunPending(applications, subrts)
      /\ UNCHANGED <<sockets, host, pending, results, committed, toHost, counter, applications,
                     memories, opened, executed>>
  <2>1. waiting[Current] = <<>>
    BY <1>3 DEF Quiet
  <2>2. [waiting EXCEPT ![Current] = Append(@, k)] = subrts
    BY <1>3, <2>1 DEF IInv, Types
  <2> QED
    BY <1>4, <2>2 DEF AddSubroutine, hostVars
<1>6. /\ subrts \in [Apps -> Seq(1 .. NumSubrts)]
      /\ subrts[Current] = <<k>>
      /\ \A a \in Apps : a # Current => subrts[a] = <<>>
  <2>1. <<k>> \in Seq(1 .. NumSubrts)
    BY <1>3
  <2> QED
    BY <1>3, <2>1 DEF IInv, Types, Quiet
<1> HIDE DEF subrts
<1>7. /\ Current' = Current /\ Begun' = Begun /\ counter \in Nat
      /\ Live(k - 1)' = Live(k - 1)
      /\ HostAndHandler' = HostAndHandler /\ Fresh' = Fresh
  BY <1>5, QNodeOSAssumption
    DEF IInv, Types, Current, Begun, Registered, Unregistered, Kept, Live, HostAndHandler, Fresh
<1>8. Waits'
  BY <1>2, <1>3, <1>5, <1>7 DEF Waits
<1>9. CASE applications # <<>> /\ Head(applications) = Current
  <2>1. Last(<<k>>) = k /\ Front(<<k>>) = <<>>
    BY DEF Last, Front
  <2>2. /\ handler' = Current
        /\ toProcessor' = <<[app |-> Current, subrt |-> k]>>
        /\ waiting' = [subrts EXCEPT ![Current] = <<>>]
    <3>1. subrts[Head(applications)] = <<k>> /\ <<k>> # <<>> /\ toProcessor = <<>>
      BY <1>3, <1>6, <1>9 DEF Quiet
    <3>2. /\ handler' = Head(applications)
          /\ toProcessor' = Append(toProcessor, [app |-> Head(applications), subrt |-> Last(<<k>>)])
          /\ waiting' = [subrts EXCEPT ![Head(applications)] = Front(<<k>>)]
      <4>1. waiting' = [subrts EXCEPT ![Head(applications)] = Front(subrts[Head(applications)])]
        BY <1>5, <1>9, <3>1 DEF RunPending
      <4> QED
        BY <1>5, <1>9, <3>1, <4>1 DEF RunPending
    <3>3. Append(<<>>, [app |-> Current, subrt |-> k]) = <<[app |-> Current, subrt |-> k]>>
      OBVIOUS
    <3> QED
      BY <1>9, <2>1, <3>1, <3>2, <3>3, Zenon
  <2>3. \A a \in Apps : waiting'[a] = <<>>
    BY <1>3, <1>6, <2>2
  <2>4. waiting' \in [Apps -> Seq(1 .. NumSubrts)]
    BY <1>6, <2>2, EmptySeq
  <2>5. Executing'
    BY <1>3, <1>5, <1>7, <1>8, <2>2, <2>3 DEF Executing
  <2>6. Types'
    BY <1>5, <2>4 DEF IInv, Types, HostType
  <2> QED
    BY <1>7, <2>5, <2>6 DEF IInv, Phase
<1>10. CASE ~(applications # <<>> /\ Head(applications) = Current)
  <2>1. ~ClearMemory /\ Current > 0 /\ (applications # <<>> => Head(applications) = 0)
    BY <1>3, <1>7, <1>10, QNodeOSAssumption DEF Registered, Unregistered, Kept, Current, Apps
  <2>2. 0 \in Apps /\ subrts[0] = <<>>
    BY <1>3, <1>6, <2>1, QNodeOSAssumption DEF Apps
  <2>3. handler' = NoApp /\ waiting' = subrts /\ toProcessor' = <<>>
    BY <1>3, <1>5, <2>1, <2>2 DEF RunPending, Quiet
  <2>4. Stuck'
    BY <1>3, <1>5, <1>7, <1>8, <2>1, <2>2, <2>3 DEF Stuck
  <2>5. Types'
    BY <1>5, <1>6, <2>3 DEF IInv, Types, HostType
  <2> QED
    BY <1>7, <2>4, <2>5 DEF IInv, Phase
<1> QED
  BY <1>9, <1>10

(* StopApplication: the handler forgets the application.                     *)
LEMMA StopApplicationInv ==
    ASSUME IInv, StopApplication
    PROVE  IInv'
<1>1. Takes("stop")
  BY DEF StopApplication
<1>2. /\ Serving /\ Head(toHandler) = StopMsg(Current)
      /\ \/ host.at = "start" /\ toHandler' = <<>>
         \/ host.at = "await_id" /\ toHandler' = <<InitMsg>>
  BY <1>1, Taken
<1>3. Current \in Apps /\ Registered /\ Quiet /\ toHost = <<>>
  BY <1>2 DEF Serving, Live
<1>4. Head(toHandler).app = Current
  BY <1>2, Fields
<1>5. /\ IF ClearMemory
           THEN /\ memories' = memories \ {Current}
                /\ applications' = Popped(applications, Current)
           ELSE UNCHANGED <<memories, applications>>
      /\ RunPending(applications', waiting)
      /\ UNCHANGED <<sockets, host, pending, results, committed, toHost, counter, opened,
                     executed>>
  BY <1>4 DEF StopApplication, hostVars
<1>6. /\ Current' = Current /\ Begun' = Begun
      /\ HostAndHandler' = HostAndHandler /\ Fresh' = Fresh
  BY <1>5 DEF Current, Begun, HostAndHandler, Fresh
<1>7. Unregistered' /\ (applications' = <<>> \/ waiting[Head(applications')] = <<>>)
  <2>1. CASE ClearMemory
    <3>1. memories = {Current} /\ applications = <<Current>>
      BY <1>3, <2>1 DEF Registered, Unregistered, Kept
    <3>2. memories' = {} /\ applications' = <<>>
      BY <1>5, <2>1, <3>1, PoppedOnly
    <3> QED
      BY <2>1, <3>2 DEF Registered, Unregistered, Kept
  <2>2. CASE ~ClearMemory
    <3>1. memories' = memories /\ applications' = applications
      BY <1>5, <2>2
    <3>2. applications = <<>> \/ waiting[Head(applications)] = <<>>
      BY <1>3, TableHead DEF Quiet
    <3> QED
      BY <1>3, <1>5, <1>6, <2>2, <3>1, <3>2 DEF Registered, Unregistered, Kept
  <2> QED
    BY <2>1, <2>2
<1>8. handler' = NoApp /\ waiting' = waiting /\ toProcessor' = toProcessor
  BY <1>5, <1>7 DEF RunPending
<1>9. Types'
  BY <1>5, <1>8 DEF IInv, Types, HostType
<1>10. Quiet'
  BY <1>3, <1>8 DEF Quiet
<1>11. CASE host.at = "start" /\ toHandler' = <<>>
  <2>1. Idle'
    BY <1>2, <1>3, <1>5, <1>6, <1>7, <1>10, <1>11 DEF Serving, Idle
  <2> QED
    BY <1>6, <1>9, <2>1 DEF IInv, Phase
<1>12. CASE host.at = "await_id" /\ toHandler' = <<InitMsg>>
  <2>1. Starting'
    BY <1>2, <1>3, <1>5, <1>6, <1>7, <1>10, <1>12 DEF Serving, Starting, InitMsg
  <2> QED
    BY <1>6, <1>9, <2>1 DEF IInv, Phase
<1> QED
  BY <1>2, <1>11, <1>12

(* Only one phase has a subroutine at the processor.                         *)
LEMMA ProcessorBusy ==
    ASSUME IInv, toProcessor # <<>>
    PROVE  /\ Executing /\ host.app = Current
           /\ Current \in Apps /\ committed[Current] \in 1 .. NumSubrts
<1>1. Executing /\ host.app = Current
  BY DEF IInv, HostAndHandler, Phase, Idle, Starting, Answered, Serving, Quiet, Executing,
         Stuck, Finished, Waits
<1>2. Current \in Apps /\ committed[Current] > 0
  BY <1>1 DEF Executing, Waits, Live
<1>3. committed[Current] \in 0 .. NumSubrts
  BY <1>2 DEF IInv, Types
<1> QED
  BY <1>1, <1>2, <1>3, QNodeOSAssumption

(* SubroutineDone: the handler sends the memory to the host.                 *)
LEMMA SubroutineDoneInv ==
    ASSUME IInv, SubroutineDone
    PROVE  IInv'
<1> DEFINE k == committed[Current]
<1>1. Executing /\ host.app = Current /\ Current \in Apps /\ k \in 1 .. NumSubrts
  BY ProcessorBusy DEF SubroutineDone
<1>2. /\ toProcessor = <<[app |-> Current, subrt |-> k]>> /\ handler = Current
      /\ \A a \in Apps : waiting[a] = <<>>
      /\ toHost = <<>> /\ Waits /\ Live(k - 1)
  BY <1>1 DEF Executing
<1>3. /\ Head(toProcessor).app = Current /\ Head(toProcessor).subrt = k
      /\ Tail(toProcessor) = <<>>
  BY <1>2
<1>4. /\ executed' = [executed EXCEPT ![Current] = Append(@, k)]
      /\ toHost' = <<[kind |-> "memory", app |-> Current]>>
      /\ toProcessor' = <<>> /\ handler' = NoApp
      /\ UNCHANGED <<sockets, host, pending, results, committed, toHandler, counter,
                     applications, waiting, memories, opened>>
  <2>1. waiting[handler] = <<>> /\ Append(toHost, [kind |-> "memory", app |-> Current])
            = <<[kind |-> "memory", app |-> Current]>>
    BY <1>1, <1>2
  <2> QED
    BY <1>3, <2>1 DEF SubroutineDone, hostVars
<1>5. executed[Current] = UpTo(k - 1) /\ executed'[Current] = UpTo(k)
  <2>1. executed[Current] = UpTo(k - 1)
    BY <1>2 DEF Live
  <2>2. executed'[Current] = Append(UpTo(k - 1), k)
    BY <1>1, <1>4, <2>1 DEF IInv, Types
  <2>3. k - 1 \in Nat /\ (k - 1) + 1 = k
    BY <1>1
  <2>4. Append(UpTo(k - 1), (k - 1) + 1) = UpTo((k - 1) + 1)
    BY <2>3, UpToNext
  <2> QED
    BY <2>1, <2>2, <2>3, <2>4
<1>6. /\ executed' \in [Apps -> Seq(1 .. NumSubrts)]
      /\ \A a \in Apps : a # Current => executed'[a] = executed[a]
  <2> DEFINE more == Append(executed[Current], k)
  <2>1. executed' = [executed EXCEPT ![Current] = more]
    BY <1>1, <1>4 DEF IInv, Types
  <2>2. more \in Seq(1 .. NumSubrts)
    BY <1>1 DEF IInv, Types
  <2> HIDE DEF more
  <2> QED
    BY <1>1, <2>1, <2>2 DEF IInv, Types
<1>7. Types'
  BY <1>4, <1>6 DEF IInv, Types, HostType
<1>8. /\ Current' = Current /\ Begun' = Begun /\ counter \in Nat /\ Current < counter
      /\ Registered' = Registered /\ Waits' = Waits
  BY <1>4, QNodeOSAssumption DEF IInv, Types, Current, Begun, Registered, Unregistered, Kept, Waits
<1>9. HostAndHandler' /\ Fresh'
  BY <1>1, <1>4, <1>6, <1>8 DEF IInv, HostAndHandler, Fresh, Apps
<1>10. Live(k)' /\ Quiet'
  BY <1>1, <1>2, <1>4, <1>5, <1>8 DEF Live, Quiet
<1>11. Finished'
  BY <1>2, <1>4, <1>8, <1>10 DEF Finished
<1> QED
  BY <1>7, <1>9, <1>11 DEF IInv, Phase

-----------------------------------------------------------------------------
(* The inductive invariant holds in every reachable state.                   *)
LEMMA InitIInv == Init => IInv
<1> SUFFICES ASSUME Init PROVE IInv
  OBVIOUS
<1>1. NumTimes \in Nat \ {0} /\ NumSockets \in Nat /\ NumSubrts \in Nat
  BY QNodeOSAssumption
<1>2. Types
  <2>1. HostType
    BY DEF Init, HostType
  <2>2. \A S : <<>> \in Seq(S)
    BY EmptySeq
  <2>3. /\ waiting \in [Apps -> Seq(1 .. NumSubrts)]
        /\ executed \in [Apps -> Seq(1 .. NumSubrts)]
        /\ opened \in [Apps -> Seq(Nat)]
        /\ results \in Seq(Apps)
    BY <2>2 DEF Init
  <2>4. /\ sockets \in Nat /\ pending \in 0 .. NumTimes /\ counter \in 0 .. NumTimes
        /\ committed \in [Apps -> 0 .. NumSubrts]
    BY <1>1 DEF Init
  <2> QED
    BY <2>1, <2>3, <2>4 DEF Types
<1>3. HostAndHandler /\ Fresh
  BY DEF Init, HostAndHandler, Fresh
<1>4. Unregistered
  <2>1. memories = {} /\ applications = <<>> /\ counter = 0 /\ Current = -1
    BY DEF Init, Current
  <2>2. 0 .. Current = {} /\ applications \in Seq(memories)
    BY <2>1, EmptySeq
  <2> QED
    BY <2>1, <2>2 DEF Unregistered, Kept
<1>5. Idle
  <2>1. Quiet
    BY DEF Init, Quiet
  <2>2. counter = Begun
    BY <1>1 DEF Init, Begun
  <2> QED
    BY <1>4, <2>1, <2>2 DEF Init, Idle
<1> QED
  BY <1>2, <1>3, <1>5 DEF IInv, Phase

(* Every step preserves the inductive invariant.                             *)
LEMMA NextIInv == IInv /\ [Next]_vars => IInv'
<1> SUFFICES ASSUME IInv, [Next]_vars PROVE IInv'
  OBVIOUS
<1>1. CASE StartRun
  BY <1>1, StartRunInv
<1>2. CASE GotAppId
  BY <1>2, GotAppIdInv
<1>3. CASE Commit
  BY <1>3, CommitInv
<1>4. CASE GotResult
  BY <1>4, GotResultInv
<1>5. CASE EndRun
  BY <1>5, EndRunInv
<1>6. CASE InitNewApp
  BY <1>6, InitNewAppInv
<1>7. CASE OpenEprSocket
  BY <1>7, OpenEprSocketInv
<1>8. CASE AddSubroutine
  BY <1>8, AddSubroutineInv
<1>9. CASE StopApplication
  BY <1>9, StopApplicationInv
<1>10. CASE SubroutineDone
  BY <1>10, SubroutineDoneInv
<1>11. CASE UNCHANGED vars
  <2>1. /\ UNCHANGED <<sockets, host, pending, results, committed, toHandler, toHost>>
        /\ UNCHANGED <<handler, counter, applications, waiting, memories, opened>>
        /\ UNCHANGED <<toProcessor, executed>>
    BY <1>11 DEF vars, hostVars, handlerVars
  <2>2. Types' /\ HostAndHandler' /\ Fresh'
    BY <2>1 DEF IInv, Types, HostType, HostAndHandler, Fresh, Current
  <2>3. /\ Current' = Current /\ Begun' = Begun /\ Registered' = Registered
        /\ Unregistered' = Unregistered /\ Quiet' = Quiet /\ LastSent' = LastSent
    BY <2>1 DEF Current, Begun, Registered, Unregistered, Kept, Quiet, LastSent
  <2>4. /\ \A n : Live(n)' = Live(n)
        /\ \A j : ServesFrom(j)' = ServesFrom(j)
        /\ Waits' = Waits
    BY <2>1, <2>3 DEF Live, ServesFrom, Waits
  <2>5. Phase'
    BY <2>1, <2>3, <2>4 DEF IInv, Phase, Idle, Starting, Answered, Serving, Executing, Stuck,
                            Finished
  <2> QED
    BY <2>2, <2>5 DEF IInv
<1> QED
  BY <1>1, <1>2, <1>3, <1>4, <1>5, <1>6, <1>7, <1>8, <1>9, <1>10, <1>11
    DEF Next, Host, Handler

(* The inductive invariant holds in every state of every behaviour.          *)
THEOREM Invariance == Spec => []IInv
BY InitIInv, NextIInv, PTL DEF Spec

-----------------------------------------------------------------------------
(* Every variable stays within its type.                                     *)
THEOREM TypeCorrect == Spec => []TypeOK
<1>1. IInv => TypeOK
  <2> SUFFICES ASSUME IInv PROVE TypeOK
    OBVIOUS
  <2>1. /\ HostType /\ pending \in 0 .. NumTimes /\ counter \in 0 .. NumTimes
        /\ \A a \in Apps : waiting[a] \in Seq(1 .. NumSubrts)
        /\ \A a \in Apps : executed[a] \in Seq(1 .. NumSubrts)
    BY DEF IInv, Types
  <2>2. /\ host.at \in {"start", "await_id", "program", "await_result"}
        /\ host.app \in Apps \cup {NoApp}
    BY <2>1 DEF HostType
  <2>3. /\ (Registered /\ Current \in Apps) \/ Unregistered
        /\ host.at \in {"program", "await_result"} => host.app \in Apps
        /\ handler = NoApp \/ (handler = Current /\ Current \in Apps)
    <3>1. (Registered /\ Current \in Apps) \/ (Unregistered /\ host.at \in {"start", "await_id"})
      <4>1. Idle \/ Starting => Unregistered /\ host.at \in {"start", "await_id"}
        BY DEF Idle, Starting
      <4>2. \A n : Live(n) => Registered /\ Current \in Apps
        BY DEF Live
      <4>3. Answered \/ Executing \/ Stuck \/ Finished => Registered /\ Current \in Apps
        BY <4>2 DEF Answered, Executing, Stuck, Finished
      <4>4. Serving => Registered /\ Current \in Apps
        BY <4>2 DEF Serving
      <4> QED
        BY <4>1, <4>3, <4>4 DEF IInv, Phase
    <3>2. handler = NoApp \/ (handler = Current /\ Executing)
      <4>1. Idle \/ Starting \/ Answered \/ Finished => Quiet
        BY DEF Idle, Starting, Answered, Finished
      <4>2. Serving => Quiet
        BY DEF Serving
      <4>3. Executing => handler = Current
        BY DEF Executing
      <4>4. Stuck => handler = NoApp
        BY DEF Stuck
      <4> QED
        BY <4>1, <4>2, <4>3, <4>4 DEF IInv, Phase, Quiet
    <3>3. Executing => Current \in Apps
      BY DEF Executing, Live
    <3>4. host.at \in {"program", "await_result"} => host.app = Current
      BY DEF IInv, HostAndHandler
    <3> QED
      BY <3>1, <3>2, <3>3, <3>4
  <2>4. memories \subseteq Apps /\ ToSet(applications) \subseteq memories
    <3>1. 0 .. Current \subseteq Apps
      BY <2>1, QNodeOSAssumption DEF Current, Apps
    <3>2. CASE ClearMemory
      <4>1. \/ Current \in Apps /\ memories = {Current} /\ applications = <<Current>>
            \/ memories = {} /\ applications = <<>>
        BY <2>3, <3>2 DEF Registered, Unregistered
      <4>2. ToSet(<<Current>>) = {Current} /\ ToSet(<<>>) = {}
        BY DEF ToSet
      <4> QED
        BY <4>1, <4>2
    <3>3. CASE ~ClearMemory
      <4>1. memories = 0 .. Current /\ applications \in Seq(memories)
        BY <2>3, <3>3 DEF Registered, Unregistered, Kept
      <4>2. ToSet(applications) \subseteq memories
        <5>1. \A i \in DOMAIN applications : applications[i] \in memories
          <6>1. applications \in Seq(memories)
            BY <4>1
          <6> QED
            BY <6>1
        <5> QED
          BY <5>1 DEF ToSet
      <4> QED
        BY <3>1, <4>1, <4>2
    <3> QED
      BY <3>2, <3>3
  <2> QED
    BY <2>1, <2>2, <2>3, <2>4 DEF TypeOK
<1> QED
  BY <1>1, Invariance, PTL

(* The ID that the Host takes is its own run's, and a result is its           *)
(* application's memory after exactly the subroutines it committed.           *)
THEOREM AnswersBelongToTheRun == Spec => []AnswersMatch
<1>1. IInv => AnswersMatch
  <2> SUFFICES ASSUME IInv PROVE AnswersMatch
    OBVIOUS
  <2>1. ASSUME host.at = "await_id", toHost # <<>>
        PROVE  Head(toHost) = [kind |-> "id", app |-> NumTimes - pending - 1]
    <3>1. Answered
      BY <2>1, HostPhases
    <3>2. toHost = <<[kind |-> "id", app |-> Current]>> /\ Current = NumTimes - pending - 1
      BY <3>1 DEF Answered, Current, Begun
    <3> QED
      BY <3>2
  <2>2. ASSUME host.at = "await_result", toHost # <<>>
        PROVE  Head(toHost) = [kind |-> "memory", app |-> host.app]
    <3>1. Finished /\ host.app = Current
      BY <2>2, HostPhases DEF IInv, HostAndHandler
    <3>2. toHost = <<[kind |-> "memory", app |-> Current]>>
      BY <3>1 DEF Finished
    <3> QED
      BY <3>1, <3>2
  <2>3. ASSUME host.at = "program"
        PROVE  toHost = <<>> /\ executed[host.app] = [i \in 1 .. committed[host.app] |-> i]
    <3>1. Serving /\ host.app = Current
      BY <2>3, HostPhases DEF IInv, HostAndHandler
    <3>2. toHost = <<>> /\ executed[Current] = UpTo(committed[Current])
      BY <2>3, <3>1 DEF Serving, Live
    <3> QED
      BY <3>1, <3>2 DEF UpTo
  <2> QED
    BY <2>1, <2>2, <2>3 DEF AnswersMatch
<1> QED
  BY <1>1, Invariance, PTL

(* When a subroutine reaches the processor its memory exists and all its      *)
(* sockets are open.                                                          *)
THEOREM SubroutinesFindTheirSockets == Spec => []ReadyToExecute
<1>1. IInv => ReadyToExecute
  <2> SUFFICES ASSUME IInv, NEW i \in DOMAIN toProcessor
               PROVE  /\ toProcessor[i].app \in memories
                      /\ opened[toProcessor[i].app] = [k \in 1 .. sockets |-> k]
    BY DEF ReadyToExecute
  <2>1. toProcessor # <<>>
    OBVIOUS
  <2>2. Executing /\ Current \in Apps
    BY <2>1, ProcessorBusy
  <2>3. toProcessor = <<[app |-> Current, subrt |-> committed[Current]]>>
    BY <2>2 DEF Executing
  <2>4. toProcessor[i].app = Current
    BY <2>3
  <2>5. Current \in memories
    <3>1. Registered
      BY <2>2 DEF Executing, Live
    <3> QED
      BY <2>2, <3>1 DEF Registered, Kept, Apps
  <2>6. opened[Current] = UpTo(sockets)
    BY <2>2 DEF Executing, Waits
  <2> QED
    BY <2>4, <2>5, <2>6 DEF UpTo
<1> QED
  BY <1>1, Invariance, PTL

(* Nothing runs on the memory of an application whose run has ended.          *)
THEOREM StoppedStayStopped == Spec => NoneAfterStop
<1>1. IInv /\ [Next]_vars =>
          [\A a \in ToSet(results) : executed'[a] = executed[a]]_vars
  <2> SUFFICES ASSUME IInv, Next, NEW a \in ToSet(results)
               PROVE  executed'[a] = executed[a]
    OBVIOUS
  <2>1. CASE SubroutineDone
    <3>1. /\ Executing /\ host.app = Current /\ Current \in Apps /\ host.at = "await_result"
      BY <2>1, ProcessorBusy DEF SubroutineDone, Executing, Waits
    <3>2. Head(toProcessor).app = Current
      BY <3>1 DEF Executing
    <3>3. \A i \in DOMAIN results : results[i] \in Int /\ results[i] < Current
      <4>1. \A i \in DOMAIN results : results[i] \in Apps
        BY DEF IInv, Types
      <4>2. \A i \in DOMAIN results : results[i] < Current
        BY <3>1 DEF IInv, HostAndHandler
      <4> QED
        BY <4>1, <4>2 DEF Apps
    <3>4. a # Current
      BY <3>1, <3>3 DEF ToSet, Apps
    <3>5. executed' = [executed EXCEPT ![Current] = Append(@, Head(toProcessor).subrt)]
      BY <2>1, <3>2 DEF SubroutineDone
    <3> QED
      BY <3>4, <3>5 DEF IInv, Types
  <2>2. CASE ~SubroutineDone
    BY <2>2 DEF Next, Host, Handler, StartRun, GotAppId, Commit, GotResult, EndRun, InitNewApp,
                OpenEprSocket, AddSubroutine, StopApplication
  <2> QED
    BY <2>1, <2>2
<1> QED
  BY <1>1, Invariance, PTL DEF Spec, NoneAfterStop
=============================================================================
