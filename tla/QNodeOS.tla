------------------------------ MODULE QNodeOS -------------------------------
(***************************************************************************)
(* How the Host, the QNodeOS handler and the QNodeOS processor of one node *)
(* run a program the requested number of times (sim/stack/host.py,         *)
(* connection.py, handler.py, processor.py).                               *)
(*                                                                         *)
(* The three are separate protocols that exchange messages through FIFO    *)
(* ports (see PortListener).  Each run registers an application, opens its *)
(* EPR sockets without waiting for an answer, commits subroutines and      *)
(* waits for each one's result, and stops the application without waiting. *)
(* So the stop of one run and the start of the next are in flight at once. *)
(* A subroutine's result is no copy: it is the application's memory object.*)
(***************************************************************************)
EXTENDS Integers, Sequences, SequencesExt

CONSTANTS
    NumTimes,       \* Host._num_pending at the start
    NumSockets,     \* bound: EPR sockets a program names in its ProgramMeta
    NumSubrts,      \* bound: subroutines a run commits
    ClearMemory     \* Handler._should_clear_memory

ASSUME QNodeOSAssumption ==
    /\ NumTimes \in Nat \ {0} /\ NumSockets \in Nat /\ NumSubrts \in Nat
    /\ ClearMemory \in BOOLEAN

Apps == 0 .. NumTimes - 1       \* IDs that Handler._app_counter hands out
NoApp == -1

VARIABLES
    sockets,        \* the program's EPR sockets; never changes
    host,           \* where Host.run is suspended, and its run's application
    pending,        \* Host._num_pending
    results,        \* Host._program_results: the runs' applications
    committed,      \* committed[a]: subroutines that a's run committed
    toHandler,      \* messages to the handler
    toHost,         \* messages to the Host
    handler,        \* the application whose subroutine the handler waits for
    counter,        \* Handler._app_counter
    applications,   \* Handler._applications: a dict, in order of insertion
    waiting,        \* waiting[a]: RunningApp._pending_subroutines
    memories,       \* Qnos.app_memories: its keys
    opened,         \* opened[a]: Netstack._epr_sockets[a]
    toProcessor,    \* subroutines sent to the processor
    executed        \* executed[a]: the subroutines a's memory has seen

hostVars == <<host, pending, results, committed>>
handlerVars == <<handler, counter, applications, waiting, memories, opened>>
vars == <<sockets, hostVars, toHandler, toHost, handlerVars, toProcessor, executed>>

Init ==
    /\ sockets \in 0 .. NumSockets
    /\ host = [at |-> "start", app |-> NoApp]
    /\ pending = NumTimes
    /\ results = <<>>
    /\ committed = [a \in Apps |-> 0]
    /\ toHandler = <<>>
    /\ toHost = <<>>
    /\ handler = NoApp
    /\ counter = 0
    /\ applications = <<>>
    /\ waiting = [a \in Apps |-> <<>>]
    /\ memories = {}
    /\ opened = [a \in Apps |-> <<>>]
    /\ toProcessor = <<>>
    /\ executed = [a \in Apps |-> <<>>]

-----------------------------------------------------------------------------
(* The Host and the program it runs.                                         *)

StartRun ==
    /\ host.at = "start"
    /\ pending > 0
    /\ pending' = pending - 1
    /\ toHandler' = Append(toHandler, [kind |-> "init"])
    /\ host' = [at |-> "await_id", app |-> NoApp]
    /\ UNCHANGED <<sockets, results, committed, toHost, handlerVars, toProcessor, executed>>

\* The answer is taken for the ID, whatever it is; the sockets are opened.
GotAppId ==
    /\ host.at = "await_id"
    /\ toHost # <<>>
    /\ LET a == Head(toHost).app
       IN  /\ host' = [at |-> "program", app |-> a]
           /\ toHandler' = toHandler \o
                  [i \in 1 .. sockets |-> [kind |-> "open", app |-> a, socket |-> i]]
    /\ toHost' = Tail(toHost)
    /\ UNCHANGED <<sockets, pending, results, committed, handlerVars, toProcessor, executed>>

\* Mutant: `block` is honoured, so the Host does not wait for the result.
CommitNoWait ==
    LET a == host.app
    IN  /\ host.at = "program"
        /\ committed[a] < NumSubrts
        /\ committed' = [committed EXCEPT ![a] = @ + 1]
        /\ toHandler' = Append(toHandler,
               [kind |-> "subroutine", app |-> a, subrt |-> committed[a] + 1])
        /\ UNCHANGED <<sockets, host, pending, results, toHost, handlerVars, toProcessor,
                       executed>>

\* flush with pending operations, or commit_subroutine.  (A flush with nothing
\* pending does nothing.)
Commit ==
    LET a == host.app
    IN  /\ host.at = "program"
        /\ committed[a] < NumSubrts
        /\ committed' = [committed EXCEPT ![a] = @ + 1]
        /\ toHandler' = Append(toHandler,
               [kind |-> "subroutine", app |-> a, subrt |-> committed[a] + 1])
        /\ host' = [host EXCEPT !.at = "await_result"]
        /\ UNCHANGED <<sockets, pending, results, toHost, handlerVars, toProcessor,
                       executed>>

GotResult ==
    /\ host.at = "await_result"
    /\ toHost # <<>>
    /\ toHost' = Tail(toHost)
    /\ host' = [host EXCEPT !.at = "program"]
    /\ UNCHANGED <<sockets, pending, results, committed, toHandler, handlerVars,
                   toProcessor, executed>>

\* The program returns: its result is stored, the application stopped.
EndRun ==
    /\ host.at = "program"
    /\ results' = Append(results, host.app)
    /\ toHandler' = Append(toHandler, [kind |-> "stop", app |-> host.app])
    /\ host' = [host EXCEPT !.at = "start"]
    /\ UNCHANGED <<sockets, pending, committed, toHost, handlerVars, toProcessor, executed>>

-----------------------------------------------------------------------------
(* The handler: it takes one message, then runs every pending subroutine of  *)
(* the next application.                                                     *)

\* Mutant: next_subroutine looks at the last subroutine without popping it.
RunPendingPeeks(apps, subrts) ==
    IF apps # <<>> /\ subrts[Head(apps)] # <<>>
      THEN LET a == Head(apps)
           IN  /\ handler' = a
               /\ toProcessor' = Append(toProcessor, [app |-> a, subrt |-> Last(subrts[a])])
               /\ waiting' = subrts
      ELSE /\ handler' = NoApp
           /\ waiting' = subrts
           /\ UNCHANGED toProcessor

\* assign_processor for the next application's last pending subroutine, if
\* there is one.  `_next_app` looks at the first application only.
RunPending(apps, subrts) ==
    IF apps # <<>> /\ subrts[Head(apps)] # <<>>
      THEN LET a == Head(apps)
           IN  /\ handler' = a
               /\ toProcessor' = Append(toProcessor, [app |-> a, subrt |-> Last(subrts[a])])
               /\ waiting' = [subrts EXCEPT ![a] = Front(@)]
      ELSE /\ handler' = NoApp
           /\ waiting' = subrts
           /\ UNCHANGED toProcessor

Takes(kind) ==
    /\ handler = NoApp
    /\ toHandler # <<>>
    /\ Head(toHandler).kind = kind
    /\ toHandler' = Tail(toHandler)

InitNewApp ==
    /\ Takes("init")
    /\ counter' = counter + 1
    /\ memories' = memories \cup {counter}
    /\ applications' = Append(applications, counter)
    /\ toHost' = Append(toHost, [kind |-> "id", app |-> counter])
    /\ RunPending(applications', waiting)
    /\ UNCHANGED <<sockets, hostVars, opened, executed>>

\* Mutant: an application has room for one socket only.
OpenEprSocketOverwrites ==
    /\ Takes("open")
    /\ LET msg == Head(toHandler)
       IN  opened' = [opened EXCEPT ![msg.app] = <<msg.socket>>]
    /\ RunPending(applications, waiting)
    /\ UNCHANGED <<sockets, hostVars, toHost, counter, applications, memories, executed>>

OpenEprSocket ==
    /\ Takes("open")
    /\ LET msg == Head(toHandler)
       IN  opened' = [opened EXCEPT ![msg.app] = Append(@, msg.socket)]
    /\ RunPending(applications, waiting)
    /\ UNCHANGED <<sockets, hostVars, toHost, counter, applications, memories, executed>>

AddSubroutine ==
    /\ Takes("subroutine")
    /\ LET msg == Head(toHandler)
       IN  RunPending(applications, [waiting EXCEPT ![msg.app] = Append(@, msg.subrt)])
    /\ UNCHANGED <<sockets, hostVars, toHost, counter, applications, memories, opened,
                   executed>>

\* `_applications.pop(a)`: the others keep their order.  (Each application is
\* stopped once, so the key is there.)
Popped(apps, a) == RemoveAt(apps, CHOOSE i \in DOMAIN apps : apps[i] = a)

\* Mutant: the memory goes, the application stays.
StopApplicationKeepsApp ==
    /\ Takes("stop")
    /\ LET a == Head(toHandler).app
       IN  memories' = IF ClearMemory THEN memories \ {a} ELSE memories
    /\ RunPending(applications, waiting)
    /\ UNCHANGED <<sockets, hostVars, toHost, counter, applications, opened, executed>>

\* Mutant: the application goes, the memory stays.
StopApplicationKeepsMemory ==
    /\ Takes("stop")
    /\ LET a == Head(toHandler).app
       IN  applications' = IF ClearMemory
                             THEN Popped(applications, a)
                             ELSE applications
    /\ RunPending(applications', waiting)
    /\ UNCHANGED <<sockets, hostVars, toHost, counter, memories, opened, executed>>

StopApplication ==
    /\ Takes("stop")
    /\ LET a == Head(toHandler).app
       IN  IF ClearMemory
             THEN /\ memories' = memories \ {a}
                  /\ applications' = Popped(applications, a)
             ELSE UNCHANGED <<memories, applications>>
    /\ RunPending(applications', waiting)
    /\ UNCHANGED <<sockets, hostVars, toHost, counter, opened, executed>>

\* The processor executes a subroutine on its application's memory; the handler
\* passes the memory to the Host and looks for more of that application.
SubroutineDone ==
    /\ toProcessor # <<>>
    /\ LET a == Head(toProcessor).app
       IN  /\ a \in memories
           /\ executed' = [executed EXCEPT ![a] = Append(@, Head(toProcessor).subrt)]
           /\ toHost' = Append(toHost, [kind |-> "memory", app |-> a])
           /\ IF waiting[handler] # <<>>
                THEN /\ toProcessor' = <<[app |-> handler, subrt |-> Last(waiting[handler])]>>
                     /\ waiting' = [waiting EXCEPT ![handler] = Front(@)]
                     /\ UNCHANGED handler
                ELSE /\ toProcessor' = Tail(toProcessor)
                     /\ handler' = NoApp
                     /\ UNCHANGED waiting
    /\ UNCHANGED <<sockets, hostVars, toHandler, counter, applications, memories, opened>>

Handler == InitNewApp \/ OpenEprSocket \/ AddSubroutine \/ StopApplication

Host == StartRun \/ GotAppId \/ Commit \/ GotResult \/ EndRun

Next == Host \/ Handler \/ SubroutineDone

Spec == Init /\ [][Next]_vars

\* The simulator runs until no event is left; every subroutine ends, and so
\* does the program after finitely many of them.
FairSpec == Spec /\ WF_vars(Next)

-----------------------------------------------------------------------------
(* Correctness.                                                              *)

\* Every variable stays within its type.
TypeOK ==
    /\ host.at \in {"start", "await_id", "program", "await_result"}
    /\ host.app \in Apps \cup {NoApp}
    /\ host.at \in {"program", "await_result"} => host.app \in Apps
    /\ pending \in 0 .. NumTimes
    /\ handler \in Apps \cup {NoApp}
    /\ counter \in 0 .. NumTimes
    /\ memories \subseteq Apps /\ ToSet(applications) \subseteq memories
    /\ \A a \in Apps : waiting[a] \in Seq(1 .. NumSubrts)
    /\ \A a \in Apps : executed[a] \in Seq(1 .. NumSubrts)

\* What the Host takes for an application ID is the ID of its own run, and what
\* it takes for a result is its application's memory, after exactly the
\* subroutines it committed, in that order: the memory is shared, so a result
\* would be wrong if anything ran on it before the program reads it.
AnswersMatch ==
    /\ host.at = "await_id" /\ toHost # <<>> =>
          Head(toHost) = [kind |-> "id", app |-> NumTimes - pending - 1]
    /\ host.at = "await_result" /\ toHost # <<>> =>
          Head(toHost) = [kind |-> "memory", app |-> host.app]
    /\ host.at = "program" =>
          /\ toHost = <<>>
          /\ executed[host.app] = [i \in 1 .. committed[host.app] |-> i]

\* When a subroutine reaches the processor, its application's memory exists
\* (execute_subroutine asserts it) and all its EPR sockets are open
\* (handle_create_request asserts it), although nobody waited for either.
ReadyToExecute ==
    \A i \in DOMAIN toProcessor :
        /\ toProcessor[i].app \in memories
        /\ opened[toProcessor[i].app] = [k \in 1 .. sockets |-> k]

\* A stopped application never runs again, although its stop is still in flight
\* when the next run starts.
NoneAfterStop ==
    [][\A a \in ToSet(results) : executed'[a] = executed[a]]_vars

\* enqueue_program: "Queue a program to be run the given number of times."
AllRunsEnd == <>(Len(results) = NumTimes)

\* In the end no application or memory is left behind.
AllCleaned == <>[](memories = {} /\ applications = <<>>)
=============================================================================
