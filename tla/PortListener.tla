---------------------------- MODULE PortListener ----------------------------
(***************************************************************************)
(* A PortListener and the protocol that receives through it                *)
(* (sim/stack/common.py).  Every message channel of the stack, Host to     *)
(* Handler, Handler to Processor, Processor to Netstack and Netstack to    *)
(* its peers, ends in such a pair.                                         *)
(*                                                                         *)
(* The simulator keeps the events of the current instant in a queue and    *)
(* handles them one by one; a protocol that yields on an event also wakes  *)
(* for one that was scheduled before it yielded.  Each message that enters *)
(* the port is an event; when the listener has read the port and yielded   *)
(* once for every message it read, it schedules a signal, and the receiver *)
(* that waits for that signal takes one message from the buffer.           *)
(***************************************************************************)
EXTENDS Integers, Sequences, FiniteSets

CONSTANT MaxMsgs        \* bound: messages sent

ASSUME PortListenerAssumption == MaxMsgs \in Nat

VARIABLES
    sent,       \* messages sent so far; they are numbered 1, 2, ...
    rx,         \* the port's input queue
    buffer,     \* PortListener._buffer
    toYield,    \* input events the listener still has to yield on (counter - 1)
    events,     \* the simulator's queue of pending events
    receiver,   \* "waiting": in await_signal; "busy": suspended elsewhere;
                \* "IndexError": it popped from an empty buffer
    taken,      \* the last message it took from the buffer, to use or to flush
    crowded     \* the receiver was woken by something else, or the sender sent
                \* again, while messages of the same instant were being handled

vars == <<sent, rx, buffer, toYield, events, receiver, taken, crowded>>

Init ==
    /\ sent = 0
    /\ rx = <<>>
    /\ buffer = <<>>
    /\ toYield = 0
    /\ events = <<>>
    /\ receiver = "waiting"
    /\ taken = 0
    /\ crowded = FALSE

Handles(event) ==
    /\ receiver # "IndexError"
    /\ events # <<>>
    /\ Head(events) = event

Pending(event) == {i \in DOMAIN events : events[i] = event}

\* The protocol at the other end runs and sends k messages (tx_output).
Send(k) ==
    /\ receiver # "IndexError"
    /\ sent + k =< MaxMsgs
    /\ sent' = sent + k
    /\ rx' = rx \o [i \in 1 .. k |-> sent + i]
    /\ events' = events \o [i \in 1 .. k |-> "input"]
    /\ crowded' = (crowded \/ Pending("input") # {})
    /\ UNCHANGED <<buffer, toYield, receiver, taken>>

\* Mutant of ReadInputs: a signal for each event, without counting (as the
\* listener of run/singlethread/protocols.py does).
ReadInputsNoCount ==
    /\ Handles("input")
    /\ rx' = <<>>
    /\ buffer' = buffer \o rx
    /\ events' = Append(Tail(events), "signal")
    /\ UNCHANGED <<sent, toYield, receiver, taken, crowded>>

\* Mutant of ReadInputs: what was read replaces what was in the buffer.
ReadInputsOverwrites ==
    /\ Handles("input")
    /\ toYield = 0
    /\ rx' = <<>>
    /\ buffer' = rx
    /\ toYield' = Len(rx) - 1
    /\ events' = Tail(events) \o IF Len(rx) = 1 THEN <<"signal">> ELSE <<>>
    /\ UNCHANGED <<sent, receiver, taken, crowded>>

\* PortListener.run, awake for new input: read all of it.
ReadInputs ==
    /\ Handles("input")
    /\ toYield = 0
    /\ rx' = <<>>
    /\ buffer' = buffer \o rx
    /\ \/ /\ Len(rx) > 1
          /\ toYield' = Len(rx) - 1
          /\ events' = Tail(events)
       \/ /\ Len(rx) =< 1
          /\ events' = Append(Tail(events), "signal")
          /\ UNCHANGED toYield
    /\ UNCHANGED <<sent, receiver, taken, crowded>>

\* Mutant of YieldInput: it stops yielding one event too early and goes back
\* to waiting for input without a signal.
YieldInputSilent ==
    /\ Handles("input")
    /\ toYield > 0
    /\ toYield' = toYield - 1
    /\ events' = Tail(events)
    /\ UNCHANGED <<sent, rx, buffer, receiver, taken, crowded>>

\* It yields on the other events of the messages it read, then signals.
YieldInput ==
    /\ Handles("input")
    /\ toYield > 0
    /\ toYield' = toYield - 1
    /\ events' = Tail(events) \o IF toYield = 1 THEN <<"signal">> ELSE <<>>
    /\ UNCHANGED <<sent, rx, buffer, receiver, taken, crowded>>

-----------------------------------------------------------------------------
(* The receiver: what ComponentProtocol._receive_msg makes of a protocol.    *)

\* It runs with buffer b until it is suspended: it takes k more messages without
\* waiting (a flush takes them all), and goes on to wait for a signal, if it has
\* emptied the buffer, or for something else.
RunsWith(b, last) ==
    \E k \in 0 .. Len(b) :
        /\ taken' = IF k = 0 THEN last ELSE b[k]
        /\ buffer' = SubSeq(b, k + 1, Len(b))
        /\ receiver' \in IF k = Len(b) THEN {"waiting", "busy"} ELSE {"busy"}

\* The signal arrives: the waiting receiver pops a message without looking
\* whether there is one.  A busy receiver does not hear the signal.
Signalled ==
    /\ Handles("signal")
    /\ events' = Tail(events)
    /\ \/ /\ receiver = "waiting"
          /\ buffer # <<>>
          /\ RunsWith(Tail(buffer), Head(buffer))
       \/ /\ receiver = "waiting"
          /\ buffer = <<>>
          /\ receiver' = "IndexError"
          /\ UNCHANGED <<buffer, taken>>
       \/ /\ receiver = "busy"
          /\ UNCHANGED <<buffer, receiver, taken>>
    /\ UNCHANGED <<sent, rx, toYield, crowded>>

\* What the busy receiver waits for happens: the end of a gate, the result of a
\* pair, a message of another listener.
Elsewhere ==
    /\ receiver = "busy"
    /\ Pending("other") = {}
    /\ events' = Append(events, "other")
    /\ crowded' = (crowded \/ events # <<>>)
    /\ UNCHANGED <<sent, rx, buffer, toYield, receiver, taken>>

Resume ==
    /\ Handles("other")
    /\ events' = Tail(events)
    /\ RunsWith(buffer, taken)
    /\ UNCHANGED <<sent, rx, toYield, crowded>>

Next ==
    \/ \E k \in 1 .. MaxMsgs : Send(k)
    \/ ReadInputs \/ YieldInput \/ Signalled \/ Elsewhere \/ Resume

Spec == Init /\ [][Next]_vars

-----------------------------------------------------------------------------
(* Correctness.                                                              *)

\* The listener's count is right, however the messages fall into instants: one
\* event is still to come for each message it has not read and for each it has
\* read but not yielded on, and while it yields it has not signalled yet.
CountIsRight ==
    /\ Cardinality(Pending("input")) = Len(rx) + toYield
    /\ toYield >= 0

\* A receiver never sleeps on a message: if it waits for a signal and there is
\* a message in its buffer, the signal is still to come.
Noticed ==
    (receiver = "waiting" /\ buffer # <<>>) => toYield > 0 \/ Pending("signal") # {}

\* The messages not yet received are the last ones sent, in order, so none is
\* lost, doubled or overtaken.
NothingLost ==
    LET queue == buffer \o rx
    IN  /\ \A i \in DOMAIN queue : queue[i] = sent - Len(queue) + i
        /\ taken = sent - Len(queue)

\* However many messages are sent at once, the receiver never pops from an empty
\* buffer, as long as nothing else wakes it, and its sender does not run again,
\* while they are being handled.
FailsOnlyWhenCrowded == receiver = "IndexError" => crowded
=============================================================================
