------------------------ MODULE PortListener_proofs ------------------------
(***************************************************************************)
(* Proofs about PortListener: for any number of messages, however they     *)
(* fall into instants and whatever else wakes the receiver, the listener   *)
(* counts right, no message is lost, doubled, overtaken or slept on, and   *)
(* the receiver pops from an empty buffer only after a crowded instant.    *)
(***************************************************************************)
EXTENDS PortListener, QueueLemmas

Events == {"input", "signal", "other"}

TypeOK ==
    /\ sent \in Nat
    /\ rx \in Seq(Nat)
    /\ buffer \in Seq(Nat)
    /\ toYield \in Nat
    /\ events \in Seq(Events)
    /\ receiver \in {"waiting", "busy", "IndexError"}
    /\ taken \in Int
    /\ crowded \in BOOLEAN

\* What the queue of events looks like as long as no instant was crowded: only
\* its head may be anything but an input event; what is pending is one batch,
\* either all unread or all read; and a signal at the head, or one that the
\* listener has still to send, is for a message in the buffer.
Uncrowded ==
    ~crowded =>
        /\ receiver # "IndexError"
        /\ \A i \in DOMAIN events : i > 1 => events[i] = "input"
        /\ rx = <<>> \/ toYield = 0
        /\ toYield > 0 => events[1] = "input" /\ buffer # <<>>
        /\ events # <<>> /\ events[1] = "signal" => buffer # <<>>

IInv ==
    /\ TypeOK
    /\ CountIsRight
    /\ Noticed
    /\ NothingLost
    /\ Uncrowded

-----------------------------------------------------------------------------
(* The numbers of the messages in two queues b and r, given the last number  *)
(* before them and the last one of all.                                      *)
Consecutive(b, r, last, n) ==
    /\ \A i \in 1 .. Len(b) : b[i] = last + i
    /\ \A i \in 1 .. Len(r) : r[i] = last + Len(b) + i
    /\ n = last + Len(b) + Len(r)

\* What NothingLost says of the buffer and the port.
Numbered(b, r, last, n) ==
    LET queue == b \o r
    IN  /\ \A i \in DOMAIN queue : queue[i] = n - Len(queue) + i
        /\ last = n - Len(queue)

(* The two say the same.                                                     *)
LEMMA ConsecutiveQueues ==
    ASSUME NEW b \in Seq(Nat), NEW r \in Seq(Nat), NEW last \in Int, NEW n \in Nat
    PROVE  Numbered(b, r, last, n) <=> Consecutive(b, r, last, n)
<1> DEFINE queue == b \o r
<1>1. /\ Len(queue) = Len(b) + Len(r)
      /\ DOMAIN queue = 1 .. Len(b) + Len(r)
      /\ Len(b) \in Nat /\ Len(r) \in Nat
      /\ \A i \in 1 .. Len(b) : queue[i] = b[i]
      /\ \A i \in 1 .. Len(r) : queue[Len(b) + i] = r[i]
  OBVIOUS
<1> HIDE DEF queue
<1>2. ASSUME Consecutive(b, r, last, n), NEW i \in DOMAIN queue
      PROVE  queue[i] = n - Len(queue) + i
  <2>1. CASE i =< Len(b)
    BY <1>1, <1>2, <2>1 DEF Consecutive
  <2>2. CASE i > Len(b)
    <3>1. i - Len(b) \in 1 .. Len(r) /\ i = Len(b) + (i - Len(b))
      BY <1>1, <2>2
    <3>2. queue[i] = r[i - Len(b)]
      BY <1>1, <3>1
    <3>3. QED
      BY <1>1, <1>2, <3>1, <3>2 DEF Consecutive
  <2>3. QED
    BY <1>1, <2>1, <2>2
<1>3. ASSUME \A i \in DOMAIN queue : queue[i] = n - Len(queue) + i,
             last = n - Len(queue)
      PROVE  Consecutive(b, r, last, n)
  <2>1. ASSUME NEW i \in 1 .. Len(b)
        PROVE  b[i] = last + i
    <3>1. i \in DOMAIN queue /\ queue[i] = b[i]
      BY <1>1
    <3>2. QED
      BY <1>3, <3>1
  <2>2. ASSUME NEW i \in 1 .. Len(r)
        PROVE  r[i] = last + Len(b) + i
    <3>1. Len(b) + i \in DOMAIN queue /\ queue[Len(b) + i] = r[i]
      BY <1>1
    <3>2. queue[Len(b) + i] = n - Len(queue) + (Len(b) + i)
      BY <1>3, <3>1
    <3>3. QED
      BY <1>1, <1>3, <3>1, <3>2
  <2>3. n = last + Len(b) + Len(r)
    BY <1>1, <1>3
  <2>4. QED
    BY <2>1, <2>2, <2>3 DEF Consecutive
<1>4. QED
  BY <1>1, <1>2, <1>3 DEF Consecutive, Numbered, queue

(* A receiver that runs with buffer b takes the messages in their order, and *)
(* goes on to wait for a signal only when it leaves the buffer empty.        *)
LEMMA RunsWithFacts ==
    ASSUME NEW b \in Seq(Nat), NEW last \in Int, rx \in Seq(Nat), sent \in Nat,
           Consecutive(b, rx, last, sent), RunsWith(b, last)
    PROVE  /\ buffer' \in Seq(Nat)
           /\ taken' \in Int
           /\ receiver' \in {"waiting", "busy"}
           /\ receiver' = "waiting" => buffer' = <<>>
           /\ Consecutive(buffer', rx, taken', sent)
<1>1. PICK k \in 0 .. Len(b) :
        /\ taken' = IF k = 0 THEN last ELSE b[k]
        /\ buffer' = SubSeq(b, k + 1, Len(b))
        /\ receiver' \in IF k = Len(b) THEN {"waiting", "busy"} ELSE {"busy"}
  BY DEF RunsWith
<1>2. /\ buffer' \in Seq(Nat)
      /\ Len(buffer') = Len(b) - k
      /\ \A i \in 1 .. Len(b) - k : buffer'[i] = b[k + i]
  BY <1>1
<1>3. taken' = last + k
  <2>1. k \in Nat /\ (k = 0 \/ k \in 1 .. Len(b))
    BY <1>1
  <2>2. \A i \in 1 .. Len(b) : b[i] = last + i
    BY DEF Consecutive
  <2>3. QED
    BY <1>1, <2>1, <2>2
<1>4. receiver' = "waiting" => buffer' = <<>>
  BY <1>1, <1>2
<1>5. Consecutive(buffer', rx, taken', sent)
  <2>1. /\ \A i \in 1 .. Len(b) : b[i] = last + i
        /\ \A i \in 1 .. Len(rx) : rx[i] = last + Len(b) + i
        /\ sent = last + Len(b) + Len(rx)
    BY DEF Consecutive
  <2>2. Len(b) \in Nat /\ Len(rx) \in Nat /\ k \in Nat
    BY <1>1
  <2>3. ASSUME NEW i \in 1 .. Len(buffer')
        PROVE  buffer'[i] = taken' + i
    <3>1. k + i \in 1 .. Len(b) /\ i \in 1 .. Len(b) - k
      BY <1>2, <2>2
    <3>2. b[k + i] = last + (k + i)
      BY <2>1, <3>1
    <3>3. QED
      BY <1>2, <1>3, <2>2, <3>1, <3>2
  <2>4. ASSUME NEW i \in 1 .. Len(rx)
        PROVE  rx[i] = taken' + Len(buffer') + i
    <3>1. rx[i] = last + Len(b) + i
      BY <2>1
    <3>2. taken' + Len(buffer') = last + Len(b)
      BY <1>2, <1>3, <2>2
    <3>3. QED
      BY <3>1, <3>2
  <2>5. sent = taken' + Len(buffer') + Len(rx)
    BY <1>2, <1>3, <2>1, <2>2
  <2>6. QED
    BY <2>3, <2>4, <2>5 DEF Consecutive
<1>6. QED
  BY <1>1, <1>2, <1>3, <1>4, <1>5

-----------------------------------------------------------------------------
(* The queue of events.                                                      *)

(* The events that are pending, as a count in the queue.                     *)
LEMMA PendingCounted ==
    \A e : Cardinality(Pending(e)) = Count(events, e)
BY DEF Pending, Count, Occurrences

(* The next event is the head of the queue; handling it leaves the tail.     *)
LEMMA HandledEvent ==
    ASSUME TypeOK, NEW e \in Events, Handles(e)
    PROVE  /\ Len(events) \in Nat /\ Len(events) > 0 /\ events # <<>>
           /\ events[1] = e
           /\ Tail(events) \in Seq(Events)
           /\ Len(Tail(events)) = Len(events) - 1
           /\ \A i \in 1 .. Len(events) - 1 : Tail(events)[i] = events[i + 1]
           /\ \A x : Count(Tail(events), x)
                        = Count(events, x) - (IF e = x THEN 1 ELSE 0)
<1>1. events \in Seq(Events) /\ events # <<>> /\ Head(events) = e
  BY DEF TypeOK, Handles
<1>2. \A x : Count(Tail(events), x) = Count(events, x) - (IF e = x THEN 1 ELSE 0)
  BY <1>1, CountTail
<1>3. QED
  BY <1>1, <1>2

(* When all events are input events there are as many as the queue is long.  *)
LEMMA OnlyInputs ==
    ASSUME NEW s \in Seq(Events), \A i \in DOMAIN s : s[i] = "input"
    PROVE  Count(s, "input") = Len(s)
<1>1. Occurrences(s, "input") = 1 .. Len(s)
  BY DEF Occurrences
<1>2. Cardinality(1 .. Len(s)) = Len(s)
  <2>1. Len(s) \in Nat /\ 1 \in Int
    OBVIOUS
  <2>2. QED
    BY <2>1, FS_Interval, SMTT(30)
<1>3. QED
  BY <1>1, <1>2, Zenon DEF Count

-----------------------------------------------------------------------------
(* One lemma per action: it preserves the inductive invariant.               *)

(* Send: a message and its event are added.                                  *)
LEMMA SendInv ==
    ASSUME IInv, NEW k \in 1 .. MaxMsgs, Send(k)
    PROVE  IInv'
<1> DEFINE batch == [i \in 1 .. k |-> sent + i]
<1>0. /\ sent \in Nat /\ rx \in Seq(Nat) /\ buffer \in Seq(Nat)
      /\ toYield \in Nat /\ events \in Seq(Events) /\ taken \in Int
      /\ k \in Nat /\ k > 0
  BY PortListenerAssumption DEF IInv, TypeOK
<1>1. /\ batch \in Seq(Nat) /\ Len(batch) = k
      /\ \A i \in 1 .. k : batch[i] = sent + i
  BY <1>0
<1>2. /\ rx' \in Seq(Nat) /\ Len(rx') = Len(rx) + k
      /\ \A i \in 1 .. Len(rx) : rx'[i] = rx[i]
      /\ \A i \in Len(rx) + 1 .. Len(rx) + k : rx'[i] = batch[i - Len(rx)]
  BY <1>0, <1>1 DEF Send
<1>3. /\ sent' = sent + k
      /\ UNCHANGED <<buffer, toYield, receiver, taken>>
  BY DEF Send
<1>4. events' = events \o [i \in 1 .. k |-> "input"] /\ "input" \in Events
  BY DEF Send, Events
<1>5. /\ events' \in Seq(Events)
      /\ Len(events') = Len(events) + k
      /\ \A i \in 1 .. Len(events) : events'[i] = events[i]
      /\ \A i \in Len(events) + 1 .. Len(events) + k : events'[i] = "input"
      /\ \A e : Count(events', e) = Count(events, e) + (IF "input" = e THEN k ELSE 0)
  <2>1. /\ events' \in Seq(Events)
        /\ Len(events') = Len(events) + k
        /\ \A i \in 1 .. Len(events) : events'[i] = events[i]
        /\ \A i \in Len(events) + 1 .. Len(events) + k : events'[i] = "input"
    BY <1>0, <1>4
  <2>2. Followed(events, events', "input", k)
    BY <2>1 DEF Followed
  <2>3. \A e : Count(events', e) = Count(events, e) + (IF "input" = e THEN k ELSE 0)
    BY <1>0, <2>1, <2>2, CountBatch
  <2>4. QED
    BY <2>1, <2>3
<1>6. crowded' = (crowded \/ Count(events, "input") # 0) /\ crowded' \in BOOLEAN
  <2>1. Pending("input") = Occurrences(events, "input")
    BY DEF Pending, Occurrences
  <2>2. QED
    BY <1>0, <2>1, CountType DEF Send, IInv, TypeOK
<1>7. TypeOK'
  BY <1>0, <1>2, <1>3, <1>5, <1>6 DEF IInv, TypeOK
<1>8. Count(events, "input") = Len(rx) + toYield
  BY PendingCounted DEF IInv, CountIsRight
<1>9. CountIsRight'
  <2>1. Count(events', "input") = Len(rx') + toYield'
    BY <1>0, <1>2, <1>3, <1>5, <1>8
  <2>2. Pending("input")' = Occurrences(events', "input")
    BY DEF Pending, Occurrences
  <2>3. QED
    BY <1>0, <1>3, <2>1, <2>2 DEF CountIsRight, Count
<1>10. Noticed'
  <2>1. Pending("signal") \subseteq Pending("signal")'
    <3>1. /\ DOMAIN events = 1 .. Len(events) /\ Len(events) \in Nat
          /\ DOMAIN events' = 1 .. Len(events) + k
      BY <1>0, <1>5
    <3>2. ASSUME NEW i \in DOMAIN events
          PROVE  i \in DOMAIN events' /\ events'[i] = events[i]
      BY <1>0, <1>5, <3>1
    <3>3. QED
      BY <3>2 DEF Pending
  <2>2. QED
    BY <1>3, <2>1 DEF IInv, Noticed
<1>11. NothingLost'
  <2>1. Consecutive(buffer, rx, taken, sent)
    BY <1>0, ConsecutiveQueues DEF IInv, NothingLost, Numbered
  <2>2. ASSUME NEW i \in 1 .. Len(rx')
        PROVE  rx'[i] = taken + Len(buffer) + i
    <3>1. CASE i =< Len(rx)
      BY <1>0, <1>2, <2>1, <3>1 DEF Consecutive
    <3>2. CASE i > Len(rx)
      <4>1. i \in Len(rx) + 1 .. Len(rx) + k /\ i - Len(rx) \in 1 .. k
        BY <1>0, <1>2, <3>2
      <4>2. rx'[i] = sent + (i - Len(rx))
        BY <1>1, <1>2, <4>1
      <4>3. QED
        BY <1>0, <2>1, <4>1, <4>2 DEF Consecutive
    <3>3. QED
      BY <1>0, <1>2, <3>1, <3>2
  <2>3. Consecutive(buffer', rx', taken', sent')
    BY <1>0, <1>2, <1>3, <2>1, <2>2 DEF Consecutive
  <2>4. QED
    <3>1. Numbered(buffer', rx', taken', sent')
      BY <1>7, <2>3, ConsecutiveQueues DEF TypeOK
    <3>2. QED
      BY <3>1, Zenon DEF Numbered, NothingLost
<1>12. Uncrowded'
  <2> SUFFICES ASSUME ~crowded'
               PROVE  Uncrowded'
    BY DEF Uncrowded
  <2>1. ~crowded /\ Count(events, "input") = 0
    BY <1>6
  <2>2. toYield = 0 /\ rx = <<>>
    BY <1>0, <1>8, <2>1
  <2>3. \A i \in DOMAIN events : events[i] # "input"
    <3>1. Occurrences(events, "input") = {}
      BY <1>0, <2>1, CountType
    <3>2. QED
      BY <3>1 DEF Occurrences
  <2>4. Len(events) =< 1
    <3>1. \A i \in DOMAIN events : i > 1 => events[i] = "input"
      BY <2>1 DEF IInv, Uncrowded
    <3>2. DOMAIN events = 1 .. Len(events) /\ Len(events) \in Nat
      BY <1>0
    <3>3. \A i \in 1 .. Len(events) : ~(i > 1)
      BY <2>3, <3>1, <3>2
    <3>4. QED
      BY <3>2, <3>3
  <2>5. events'[1] = "signal" => events # <<>> /\ events[1] = "signal"
    BY <1>0, <1>5, <2>4
  <2>6. \A i \in DOMAIN events' : i > 1 => events'[i] = "input"
    BY <1>0, <1>5, <2>4
  <2>7. QED
    BY <1>3, <2>1, <2>2, <2>5, <2>6 DEF IInv, Uncrowded
<1>13. QED
  BY <1>7, <1>9, <1>10, <1>11, <1>12 DEF IInv

(* The listener reads one batch; in an uncrowded state it is all there is.   *)
LEMMA ReadInputsInv ==
    ASSUME IInv, ReadInputs
    PROVE  IInv'
<1> DEFINE rest == Tail(events)
<1>0. /\ sent \in Nat /\ rx \in Seq(Nat) /\ buffer \in Seq(Nat)
      /\ events \in Seq(Events) /\ taken \in Int /\ crowded \in BOOLEAN
      /\ receiver \in {"waiting", "busy", "IndexError"}
      /\ Len(rx) \in Nat
  BY DEF IInv, TypeOK
<1>1. /\ Handles("input") /\ toYield = 0
      /\ rx' = <<>> /\ buffer' = buffer \o rx
      /\ UNCHANGED <<sent, receiver, taken, crowded>>
  BY DEF ReadInputs
<1>2. /\ Len(events) \in Nat /\ Len(events) > 0 /\ events[1] = "input"
      /\ rest \in Seq(Events)
      /\ Len(rest) = Len(events) - 1
      /\ \A i \in 1 .. Len(events) - 1 : rest[i] = events[i + 1]
      /\ Count(rest, "input") = Count(events, "input") - 1
  BY <1>1, HandledEvent DEF IInv, Events
<1>3. Count(events, "input") = Len(rx)
  BY <1>0, <1>1, PendingCounted DEF IInv, CountIsRight
<1>4. Len(rx) > 0
  <2>1. 1 \in Occurrences(events, "input")
    BY <1>0, <1>2 DEF Occurrences
  <2>2. QED
    BY <1>0, <1>3, <2>1, CountType
<1>5. /\ buffer' \in Seq(Nat) /\ buffer' # <<>>
      /\ Len(buffer') = Len(buffer) + Len(rx)
  BY <1>0, <1>1, <1>4
<1>6. \/ /\ Len(rx) > 1
         /\ toYield' = Len(rx) - 1
         /\ events' = rest
      \/ /\ Len(rx) = 1
         /\ toYield' = 0
         /\ events' = Append(rest, "signal")
  <2>1. \/ /\ Len(rx) > 1
           /\ toYield' = Len(rx) - 1
           /\ events' = rest
        \/ /\ Len(rx) =< 1
           /\ events' = Append(rest, "signal")
           /\ toYield' = toYield
    BY Zenon DEF ReadInputs
  <2>2. Len(rx) =< 1 => Len(rx) = 1
    <3>1. PICK n \in Nat : n = Len(rx)
      BY <1>0
    <3>2. QED
      BY <1>4, <3>1
  <2>3. QED
    BY <1>1, <2>1, <2>2, Zenon
<1> HIDE DEF rest
<1>7. TypeOK'
  <2>1. events' \in Seq(Events)
    BY <1>2, <1>6 DEF Events
  <2>2. toYield' \in Nat /\ rx' \in Seq(Nat)
    BY <1>0, <1>1, <1>6
  <2>3. QED
    BY <1>0, <1>1, <1>5, <2>1, <2>2 DEF TypeOK
<1>8. CountIsRight'
  <2>1. Count(events', "input") = Len(rx) - 1
    <3>1. CASE events' = rest
      BY <1>0, <1>2, <1>3, <3>1
    <3>2. CASE events' = Append(rest, "signal")
      <4>1. events' \in Seq(Events) /\ Followed(rest, events', "signal", 1)
        BY <1>2, <3>2 DEF Followed, Events
      <4>2. Count(events', "input") = Count(rest, "input")
        BY <1>2, <4>1, CountBatch, CountType
      <4>3. QED
        BY <1>0, <1>2, <1>3, <4>2
    <3>3. QED
      BY <1>6, <3>1, <3>2
  <2>2. Pending("input")' = Occurrences(events', "input")
    BY DEF Pending, Occurrences
  <2>3. Len(rx') = 0 /\ toYield' = Len(rx) - 1
    <3>1. CASE Len(rx) = 1
      BY <1>1, <1>6, <3>1
    <3>2. CASE Len(rx) # 1
      BY <1>1, <1>6, <3>2
    <3>3. QED
      BY <3>1, <3>2
  <2>4. QED
    BY <1>0, <1>4, <2>1, <2>2, <2>3 DEF CountIsRight, Count
<1>9. Noticed'
  <2>1. CASE Len(rx) > 1
    <3>1. toYield' = Len(rx) - 1
      BY <1>6, <2>1
    <3>2. QED
      BY <1>0, <2>1, <3>1 DEF Noticed
  <2>2. CASE Len(rx) = 1
    <3>1. events' = Append(rest, "signal")
      BY <1>6, <2>2
    <3>2. Len(events) \in DOMAIN events' /\ events'[Len(events)] = "signal"
      BY <1>2, <3>1
    <3>3. QED
      BY <3>2 DEF Noticed, Pending
  <2>3. QED
    BY <1>6, <2>1, <2>2
<1>10. NothingLost'
  <2>1. Consecutive(buffer, rx, taken, sent)
    BY <1>0, ConsecutiveQueues DEF IInv, NothingLost, Numbered
  <2>2. buffer' \o rx' = buffer \o rx
    BY <1>0, <1>1, <1>5
  <2>3. QED
    BY <1>1, <2>2 DEF IInv, NothingLost
<1>11. Uncrowded'
  <2> SUFFICES ASSUME ~crowded'
               PROVE  Uncrowded'
    BY DEF Uncrowded
  <2>1. ~crowded
    BY <1>1
  <2>2. receiver' # "IndexError" /\ rx' = <<>>
    BY <1>1, <2>1 DEF IInv, Uncrowded
  <2>3. /\ DOMAIN events = 1 .. Len(events)
        /\ \A i \in 1 .. Len(events) : events[i] = "input"
    <3>1. \A i \in DOMAIN events : i > 1 => events[i] = "input"
      BY <2>1 DEF IInv, Uncrowded
    <3>2. DOMAIN events = 1 .. Len(events)
      BY <1>0
    <3>3. QED
      BY <1>2, <3>1, <3>2
  <2>4. Len(events) = Len(rx)
    BY <1>0, <1>3, <2>3, OnlyInputs
  <2>5. CASE Len(rx) > 1
    <3>1. \A i \in 1 .. Len(events) - 1 : rest[i] = "input"
      BY <1>2, <2>3
    <3>2. /\ \A i \in DOMAIN events' : events'[i] = "input"
          /\ 1 \in DOMAIN events'
      BY <1>2, <1>6, <2>4, <2>5, <3>1
    <3>3. QED
      BY <1>5, <2>2, <3>2 DEF Uncrowded
  <2>6. CASE Len(rx) = 1
    <3>1. Len(events') = 1 /\ DOMAIN events' = 1 .. 1
      BY <1>2, <1>6, <2>4, <2>6
    <3>2. \A i \in DOMAIN events' : ~(i > 1)
      BY <3>1
    <3>3. QED
      BY <1>5, <1>6, <2>2, <2>6, <3>2 DEF Uncrowded
  <2>7. QED
    BY <1>6, <2>5, <2>6
<1>12. QED
  BY <1>7, <1>8, <1>9, <1>10, <1>11 DEF IInv

(* YieldInput: the listener waits for one more event, or signals.            *)
LEMMA YieldInputInv ==
    ASSUME IInv, YieldInput
    PROVE  IInv'
<1> DEFINE rest == Tail(events)
<1>0. /\ sent \in Nat /\ rx \in Seq(Nat) /\ buffer \in Seq(Nat)
      /\ toYield \in Nat /\ toYield > 0
      /\ events \in Seq(Events) /\ taken \in Int /\ crowded \in BOOLEAN
      /\ receiver \in {"waiting", "busy", "IndexError"}
      /\ Len(rx) \in Nat
  BY DEF IInv, TypeOK, YieldInput
<1>1. /\ Handles("input") /\ toYield' = toYield - 1
      /\ UNCHANGED <<sent, rx, buffer, receiver, taken, crowded>>
  BY DEF YieldInput
<1>2. /\ Len(events) \in Nat /\ Len(events) > 0 /\ events[1] = "input"
      /\ rest \in Seq(Events)
      /\ Len(rest) = Len(events) - 1
      /\ \A i \in 1 .. Len(events) - 1 : rest[i] = events[i + 1]
      /\ Count(rest, "input") = Count(events, "input") - 1
  BY <1>1, HandledEvent DEF IInv, Events
<1>3. Count(events, "input") = Len(rx) + toYield
  BY PendingCounted DEF IInv, CountIsRight
<1>4. \/ toYield > 1 /\ events' = rest
      \/ toYield = 1 /\ events' = Append(rest, "signal")
  <2>1. events' = rest \o IF toYield = 1 THEN <<"signal">> ELSE <<>>
    BY DEF YieldInput
  <2> HIDE DEF rest
  <2>2. CASE toYield = 1
    BY <1>2, <2>1, <2>2
  <2>3. CASE toYield # 1
    BY <1>0, <1>2, <2>1, <2>3
  <2>4. QED
    BY <2>2, <2>3
<1> HIDE DEF rest
<1>5. TypeOK'
  <2>1. events' \in Seq(Events)
    BY <1>2, <1>4 DEF Events
  <2>2. QED
    BY <1>0, <1>1, <2>1 DEF TypeOK
<1>6. CountIsRight'
  <2>1. Count(events', "input") = Len(rx) + toYield - 1
    <3>1. CASE events' = rest
      BY <1>0, <1>2, <1>3, <3>1
    <3>2. CASE events' = Append(rest, "signal")
      <4>1. events' \in Seq(Events) /\ Followed(rest, events', "signal", 1)
        BY <1>2, <3>2 DEF Followed, Events
      <4>2. Count(events', "input") = Count(rest, "input")
        BY <1>2, <4>1, CountBatch, CountType
      <4>3. QED
        BY <1>0, <1>2, <1>3, <4>2
    <3>3. QED
      BY <1>4, <3>1, <3>2
  <2>2. Pending("input")' = Occurrences(events', "input")
    BY DEF Pending, Occurrences
  <2>3. QED
    BY <1>0, <1>1, <2>1, <2>2 DEF CountIsRight, Count
<1>7. Noticed'
  <2>1. CASE toYield > 1
    BY <1>0, <1>1, <2>1 DEF Noticed
  <2>2. CASE toYield = 1
    <3>1. Len(events) \in DOMAIN events' /\ events'[Len(events)] = "signal"
      BY <1>2, <1>4, <2>2
    <3>2. QED
      BY <3>1 DEF Noticed, Pending
  <2>3. QED
    BY <1>4, <2>1, <2>2
<1>8. NothingLost'
  BY <1>1 DEF IInv, NothingLost
<1>9. Uncrowded'
  <2> SUFFICES ASSUME ~crowded'
               PROVE  Uncrowded'
    BY DEF Uncrowded
  <2>1. ~crowded
    BY <1>1
  <2>2. receiver' # "IndexError" /\ rx' = <<>> /\ buffer' # <<>>
    BY <1>0, <1>1, <2>1 DEF IInv, Uncrowded
  <2>3. /\ DOMAIN events = 1 .. Len(events)
        /\ \A i \in 1 .. Len(events) : events[i] = "input"
    <3>1. \A i \in DOMAIN events : i > 1 => events[i] = "input"
      BY <2>1 DEF IInv, Uncrowded
    <3>2. events[1] = "input"
      BY <1>2
    <3>3. DOMAIN events = 1 .. Len(events) /\ Len(events) \in Nat
      BY <1>0
    <3>4. QED
      BY <3>1, <3>2, <3>3
  <2>4. Len(events) = toYield
    <3>1. Len(rx) = 0
      BY <1>1, <2>2
    <3>2. QED
      <4>1. Len(events) = Len(rx) + toYield
        BY <1>0, <1>3, <2>3, OnlyInputs
      <4>2. QED
        BY <1>0, <3>1, <4>1
  <2>5. CASE toYield > 1
    <3>1. \A i \in 1 .. Len(events) - 1 : rest[i] = "input"
      BY <1>2, <2>3
    <3>2. /\ \A i \in DOMAIN events' : events'[i] = "input"
          /\ 1 \in DOMAIN events'
      BY <1>2, <1>4, <2>4, <2>5, <3>1
    <3>3. QED
      BY <2>2, <3>2 DEF Uncrowded
  <2>6. CASE toYield = 1
    <3>1. Len(events') = 1 /\ DOMAIN events' = 1 .. 1
      BY <1>2, <1>4, <2>4, <2>6
    <3>2. \A i \in DOMAIN events' : ~(i > 1)
      BY <3>1
    <3>3. QED
      BY <1>1, <2>2, <2>6, <3>2 DEF Uncrowded
  <2>7. QED
    BY <1>4, <2>5, <2>6
<1>10. QED
  BY <1>5, <1>6, <1>7, <1>8, <1>9 DEF IInv

(* Only the queue of events and what the receiver holds change: what is left *)
(* to show is that the receiver sleeps on nothing and pops from nothing.     *)
LEMMA ReceiverInv ==
    ASSUME IInv, NEW e \in {"signal", "other"}, Handles(e),
           events' = Tail(events),
           UNCHANGED <<sent, rx, toYield, crowded>>,
           buffer' \in Seq(Nat), taken' \in Int,
           receiver' \in {"waiting", "busy", "IndexError"},
           Consecutive(buffer', rx, taken', sent),
           e = "other" => receiver' # "IndexError",
           receiver' = "IndexError" => buffer = <<>>,
           receiver' = "waiting" => buffer' = <<>>
    PROVE  IInv'
<1> DEFINE rest == Tail(events)
<1>0. /\ sent \in Nat /\ rx \in Seq(Nat) /\ toYield \in Nat
      /\ events \in Seq(Events) /\ crowded \in BOOLEAN
  BY DEF IInv, TypeOK
<1>1. /\ Len(events) \in Nat /\ Len(events) > 0 /\ events # <<>>
      /\ events[1] = e
      /\ rest \in Seq(Events)
      /\ Len(rest) = Len(events) - 1
      /\ \A i \in 1 .. Len(events) - 1 : rest[i] = events[i + 1]
      /\ Count(rest, "input") = Count(events, "input")
  <2>1. e \in Events /\ e # "input"
    BY DEF Events
  <2>2. Count(events, "input") \in Nat
    BY <1>0, CountType
  <2>3. Count(rest, "input") = Count(events, "input") - 0
    BY <2>1, HandledEvent DEF IInv
  <2>4. QED
    BY <2>1, <2>2, <2>3, HandledEvent DEF IInv
<1>2. events' = rest
  OBVIOUS
<1> HIDE DEF rest
<1>3. TypeOK'
  BY <1>0, <1>1, <1>2 DEF TypeOK
<1>4. CountIsRight'
  <2>1. Pending("input")' = Occurrences(events', "input")
    BY DEF Pending, Occurrences
  <2>2. Count(events', "input") = Len(rx) + toYield
    BY <1>1, <1>2, PendingCounted DEF IInv, CountIsRight
  <2>3. QED
    BY <1>0, <2>1, <2>2 DEF CountIsRight, Count
<1>5. Noticed'
  BY DEF Noticed
<1>6. NothingLost'
  <2>1. /\ buffer' \in Seq(Nat) /\ rx' \in Seq(Nat)
        /\ taken' \in Int /\ sent' \in Nat
    BY <1>3 DEF TypeOK
  <2>2. Consecutive(buffer', rx', taken', sent')
    OBVIOUS
  <2>3. QED
    <3>1. Numbered(buffer', rx', taken', sent')
      BY <2>1, <2>2, ConsecutiveQueues
    <3>2. QED
      BY <3>1, Zenon DEF Numbered, NothingLost
<1>7. Uncrowded'
  <2> SUFFICES ASSUME ~crowded'
               PROVE  Uncrowded'
    BY DEF Uncrowded
  <2>1. ~crowded
    OBVIOUS
  <2>2. /\ \A i \in DOMAIN events : i > 1 => events[i] = "input"
        /\ rx' = <<>> \/ toYield' = 0
    BY <2>1 DEF IInv, Uncrowded
  <2>3. toYield' = 0
    <3>1. toYield > 0 => events[1] = "input"
      BY <2>1 DEF IInv, Uncrowded
    <3>2. QED
      BY <1>0, <1>1, <3>1
  <2>4. receiver' # "IndexError"
    BY <1>1, <2>1 DEF IInv, Uncrowded
  <2>5. \A i \in DOMAIN events' : events'[i] = "input"
    <3>1. DOMAIN events = 1 .. Len(events) /\ DOMAIN rest = 1 .. Len(events) - 1
      BY <1>0, <1>1
    <3>2. \A i \in 1 .. Len(events) - 1 : i + 1 \in DOMAIN events /\ i + 1 > 1
      BY <1>1, <3>1
    <3>3. QED
      BY <1>1, <1>2, <2>2, <3>1, <3>2
  <2>6. events' # <<>> => events'[1] = "input"
    <3>1. events' # <<>> => 1 \in DOMAIN events'
      BY <1>1, <1>2
    <3>2. QED
      BY <2>5, <3>1
  <2>7. QED
    BY <1>0, <2>2, <2>3, <2>4, <2>5, <2>6 DEF Uncrowded
<1>8. QED
  BY <1>3, <1>4, <1>5, <1>6, <1>7 DEF IInv

(* A message and its signal: the buffer of an uncrowded state is not empty.  *)
LEMMA SignalledInv ==
    ASSUME IInv, Signalled
    PROVE  IInv'
<1>0. /\ sent \in Nat /\ rx \in Seq(Nat) /\ buffer \in Seq(Nat)
      /\ toYield \in Nat /\ taken \in Int
      /\ Consecutive(buffer, rx, taken, sent)
  BY ConsecutiveQueues DEF IInv, TypeOK, NothingLost, Numbered
<1>1. /\ Handles("signal")
      /\ events' = Tail(events)
      /\ UNCHANGED <<sent, rx, toYield, crowded>>
  BY DEF Signalled
<1>2. CASE receiver = "waiting" /\ buffer # <<>>
           /\ RunsWith(Tail(buffer), Head(buffer))
  <2> DEFINE b == Tail(buffer)
             last == Head(buffer)
  <2>1. /\ b \in Seq(Nat) /\ last \in Int
        /\ last = buffer[1] /\ Len(b) = Len(buffer) - 1
        /\ \A i \in 1 .. Len(buffer) - 1 : b[i] = buffer[i + 1]
        /\ Len(buffer) \in Nat /\ Len(buffer) > 0
    BY <1>0, <1>2
  <2>2. RunsWith(b, last)
    BY <1>2
  <2> HIDE DEF b, last
  <2>3. Consecutive(b, rx, last, sent)
    <3>1. /\ \A i \in 1 .. Len(buffer) : buffer[i] = taken + i
          /\ \A i \in 1 .. Len(rx) : rx[i] = taken + Len(buffer) + i
          /\ sent = taken + Len(buffer) + Len(rx)
      BY <1>0 DEF Consecutive
    <3>2. last = taken + 1
      BY <1>0, <2>1, <3>1
    <3>3. ASSUME NEW i \in 1 .. Len(b)
          PROVE  b[i] = last + i
      <4>1. i + 1 \in 1 .. Len(buffer)
        BY <2>1
      <4>2. b[i] = taken + (i + 1)
        BY <2>1, <3>1, <4>1
      <4>3. QED
        BY <1>0, <3>2, <4>2
    <3>4. last + Len(b) = taken + Len(buffer)
      BY <1>0, <2>1, <3>2
    <3>5. QED
      BY <3>1, <3>3, <3>4 DEF Consecutive
  <2>4. /\ buffer' \in Seq(Nat) /\ taken' \in Int
        /\ receiver' \in {"waiting", "busy"}
        /\ receiver' = "waiting" => buffer' = <<>>
        /\ Consecutive(buffer', rx, taken', sent)
    BY <1>0, <2>1, <2>2, <2>3, RunsWithFacts
  <2>5. QED
    BY <1>1, <2>4, ReceiverInv
<1>3. CASE receiver = "waiting" /\ buffer = <<>>
           /\ receiver' = "IndexError" /\ UNCHANGED <<buffer, taken>>
  BY <1>0, <1>1, <1>3, ReceiverInv
<1>4. CASE receiver = "busy" /\ UNCHANGED <<buffer, receiver, taken>>
  BY <1>0, <1>1, <1>4, ReceiverInv
<1>5. QED
  BY <1>2, <1>3, <1>4, Zenon DEF Signalled

(* Resume: the busy receiver goes on and may take messages.                  *)
LEMMA ResumeInv ==
    ASSUME IInv, Resume
    PROVE  IInv'
<1>1. /\ sent \in Nat /\ rx \in Seq(Nat) /\ buffer \in Seq(Nat)
      /\ taken \in Int
      /\ Consecutive(buffer, rx, taken, sent)
  BY ConsecutiveQueues DEF IInv, TypeOK, NothingLost, Numbered
<1>2. /\ Handles("other")
      /\ events' = Tail(events)
      /\ RunsWith(buffer, taken)
      /\ UNCHANGED <<sent, rx, toYield, crowded>>
  BY DEF Resume
<1>3. /\ buffer' \in Seq(Nat) /\ taken' \in Int
      /\ receiver' \in {"waiting", "busy"}
      /\ receiver' = "waiting" => buffer' = <<>>
      /\ Consecutive(buffer', rx, taken', sent)
  BY <1>1, <1>2, RunsWithFacts
<1>4. QED
  BY <1>2, <1>3, ReceiverInv

(* Something else wakes the receiver: the instant is crowded unless nothing  *)
(* was pending.                                                              *)
LEMMA ElsewhereInv ==
    ASSUME IInv, Elsewhere
    PROVE  IInv'
<1>0. /\ rx \in Seq(Nat) /\ toYield \in Nat
      /\ events \in Seq(Events) /\ crowded \in BOOLEAN
      /\ Len(events) \in Nat
  BY DEF IInv, TypeOK
<1>1. /\ receiver = "busy"
      /\ events' = Append(events, "other")
      /\ crowded' = (crowded \/ events # <<>>)
      /\ UNCHANGED <<sent, rx, buffer, toYield, receiver, taken>>
  BY DEF Elsewhere
<1>2. events' \in Seq(Events) /\ Followed(events, events', "other", 1)
  BY <1>0, <1>1 DEF Followed, Events
<1>3. Count(events', "input") = Count(events, "input")
  BY <1>0, <1>2, CountBatch, CountType
<1>4. TypeOK'
  BY <1>0, <1>1, <1>2 DEF IInv, TypeOK
<1>5. CountIsRight'
  <2>1. Pending("input")' = Occurrences(events', "input")
    BY DEF Pending, Occurrences
  <2>2. Count(events', "input") = Len(rx) + toYield
    BY <1>3, PendingCounted DEF IInv, CountIsRight
  <2>3. QED
    BY <1>0, <1>1, <2>1, <2>2 DEF CountIsRight, Count
<1>6. Noticed' /\ NothingLost'
  BY <1>1 DEF IInv, Noticed, NothingLost
<1>7. Uncrowded'
  <2> SUFFICES ASSUME ~crowded'
               PROVE  Uncrowded'
    BY DEF Uncrowded
  <2>1. ~crowded /\ events = <<>>
    BY <1>0, <1>1
  <2>2. events' = <<"other">>
    BY <1>1, <2>1
  <2>3. toYield' = 0
    <3>1. Count(events, "input") = 0
      BY <2>1, CountEmpty
    <3>2. Len(rx) + toYield = 0 /\ Len(rx) \in Nat
      BY <1>0, <3>1, PendingCounted DEF IInv, CountIsRight
    <3>3. QED
      BY <1>0, <1>1, <3>2
  <2>4. events'[1] = "other" /\ \A i \in DOMAIN events' : ~(i > 1)
    BY <2>2
  <2>5. QED
    BY <1>1, <2>3, <2>4 DEF Uncrowded
<1>8. QED
  BY <1>4, <1>5, <1>6, <1>7 DEF IInv

-----------------------------------------------------------------------------
(* The inductive invariant holds initially and in every step.                *)

(* No message and no event at first.                                         *)
LEMMA InitIInv == Init => IInv
<1> SUFFICES ASSUME Init
             PROVE  IInv
  OBVIOUS
<1>1. Pending("input") = {}
  BY DEF Init, Pending
<1>2. CountIsRight
  BY <1>1, FS_EmptySet DEF Init, CountIsRight
<1>3. QED
  <2>1. TypeOK /\ Noticed
    <3>1. <<>> \in Seq(Nat) /\ <<>> \in Seq(Events)
      OBVIOUS
    <3>2. sent \in Nat /\ toYield \in Nat /\ taken \in Int
      BY DEF Init
    <3>3. QED
      BY <3>1, <3>2, Zenon DEF Init, TypeOK, Noticed
  <2>2. NothingLost
    <3>1. Consecutive(buffer, rx, taken, sent)
      BY DEF Init, Consecutive
    <3>2. Numbered(buffer, rx, taken, sent)
      BY <2>1, <3>1, ConsecutiveQueues DEF TypeOK
    <3>3. QED
      BY <3>2, Zenon DEF Numbered, NothingLost
  <2>3. Uncrowded
    BY DEF Init, Uncrowded
  <2>4. QED
    BY <1>2, <2>1, <2>2, <2>3 DEF IInv

(* Every step preserves the inductive invariant.                             *)
LEMMA NextIInv == IInv /\ [Next]_vars => IInv'
<1> SUFFICES ASSUME IInv, [Next]_vars
             PROVE  IInv'
  OBVIOUS
<1>1. CASE \E k \in 1 .. MaxMsgs : Send(k)
  BY <1>1, SendInv
<1>2. CASE ReadInputs
  BY <1>2, ReadInputsInv
<1>3. CASE YieldInput
  BY <1>3, YieldInputInv
<1>4. CASE Signalled
  BY <1>4, SignalledInv
<1>5. CASE Elsewhere
  BY <1>5, ElsewhereInv
<1>6. CASE Resume
  BY <1>6, ResumeInv
<1>7. CASE UNCHANGED vars
  BY <1>7 DEF vars, IInv, TypeOK, CountIsRight, Noticed, NothingLost, Uncrowded,
              Pending
<1>8. QED
  BY <1>1, <1>2, <1>3, <1>4, <1>5, <1>6, <1>7 DEF Next

(* The inductive invariant of a port listener and its receiver.              *)
THEOREM Invariance == Spec => []IInv
BY InitIInv, NextIInv, PTL DEF Spec

(* PortListener.run's counter: however many messages of however many instants *)
(* it reads at once, the input events still to come are those of the messages *)
(* unread and of those it has still to yield on.                              *)
THEOREM ListenerCounts == Spec => []CountIsRight
<1>1. IInv => CountIsRight
  BY DEF IInv
<1>2. QED
  BY <1>1, Invariance, PTL

(* A protocol in _receive_msg never sleeps on a message in its buffer: the    *)
(* signal for it is still to come.                                            *)
THEOREM NoMessageSleptOn == Spec => []Noticed
<1>1. IInv => Noticed
  BY DEF IInv
<1>2. QED
  BY <1>1, Invariance, PTL

(* Through a port and its listener's buffer no message is lost, doubled or    *)
(* overtaken.                                                                 *)
THEOREM Fifo == Spec => []NothingLost
<1>1. IInv => NothingLost
  BY DEF IInv
<1>2. QED
  BY <1>1, Invariance, PTL

(* The pop of _receive_msg finds a message, unless the receiver was woken, or *)
(* the sender sent again, while messages of the same instant were handled.    *)
THEOREM PopsFromFull == Spec => []FailsOnlyWhenCrowded
<1>1. IInv => FailsOnlyWhenCrowded
  BY DEF IInv, Uncrowded, FailsOnlyWhenCrowded
<1>2. QED
  BY <1>1, Invariance, PTL
=============================================================================
