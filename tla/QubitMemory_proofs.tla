------------------------- MODULE QubitMemory_proofs -------------------------
(***************************************************************************)
(* Proofs about QubitMemory: for any number of qubits and applications,    *)
(* any program and any interleaving of processor, network stack and        *)
(* handler, no physical qubit is ever held twice, and every held one is    *)
(* marked allocated.  Compiled programs moreover lose no qubit, and with   *)
(* one open application the network stack misses no wakeup.                *)
(***************************************************************************)
EXTENDS QubitMemory, FiniteSetTheorems, WellFoundedInduction, TLAPS

(* A non-empty set of physical qubit IDs has a least element, so the         *)
(* allocator's scan for the lowest free ID returns a member of the set.      *)
LEMMA MinInSet ==
    ASSUME NEW S, S \subseteq Phys, S # {}
    PROVE  Min(S) \in S
<1>1. S \subseteq Nat
  BY QubitMemoryAssumption DEF Phys
<1>2. PICK x \in S : \A y \in S : ~(<<y, x>> \in OpToRel(<, Nat))
  BY <1>1, NatLessThanWellFounded, WFMin
<1>3. ASSUME NEW y \in Nat, NEW z \in Nat, y < z
      PROVE  <<y, z>> \in OpToRel(<, Nat)
  BY <1>3, Zenon DEF OpToRel
<1>4. \A y \in S : x =< y
  <2>1. SUFFICES ASSUME NEW y \in S, y < x
                 PROVE  FALSE
    BY <1>1
  <2>2. QED
    BY <1>1, <1>2, <1>3, <2>1
<1>5. QED
  BY <1>4 DEF Min

(* The constants as the SMT solver needs them, with CommQubits kept opaque.  *)
LEMMA ConstantFacts ==
    /\ CommQubits \subseteq Phys
    /\ 0 \in Phys /\ 0 \in Virt
    /\ None \notin Phys
BY QubitMemoryAssumption DEF CommQubits, Phys, Virt, None

-----------------------------------------------------------------------------
(* One lemma per action: it preserves the inductive invariant.               *)

(* Raising an exception changes nothing but `fault`.                         *)
LEMMA RaiseInv ==
    ASSUME IInv, fault' \in Faults,
           UNCHANGED <<allocated, app, mapping, nstk, req, reserved, freed, meas>>
    PROVE  IInv'
BY DEF IInv, TypeOK, NoSharing, HeldIsAllocated, Bookkeeping,
       InFlight, Reserved, MoveTarget, MoveSource

(* InitNewApp: an application's unit module is made.                         *)
LEMMA InitNewAppInv ==
    ASSUME IInv, NEW a \in Apps, InitNewApp(a)
    PROVE  IInv'
BY DEF IInv, TypeOK, NoSharing, HeldIsAllocated, Bookkeeping, InitNewApp,
       InFlight, Reserved, MoveTarget, MoveSource

(* The freed qubits are mapped for the stopping application only, hence for  *)
(* nobody else and not in flight.                                            *)
LEMMA StopApplicationInv ==
    ASSUME IInv, NEW a \in Apps, StopApplication(a)
    PROVE  IInv'
<1>0. mapping \in [Apps -> [Virt -> Phys \cup {None}]]
  BY DEF IInv, TypeOK
<1>0a. ClearMemory => mapping' = [mapping EXCEPT ![a] = [v \in Virt |-> None]]
  BY DEF StopApplication
<1>0b. ClearMemory => mapping' \in [Apps -> [Virt -> Phys \cup {None}]]
  BY <1>0, <1>0a
<1> USE ConstantFacts DEF IInv, TypeOK, NoSharing, HeldIsAllocated, Bookkeeping,
        StopApplication, InFlight, Reserved, MoveTarget, MoveSource
<1>1. CASE ClearMemory
  <2>1. mapping' \in [Apps -> [Virt -> Phys \cup {None}]]
    BY <1>1, <1>0b
  <2>2. TypeOK'
    BY <1>1, <2>1
  <2>3. \A b \in Apps, w \in Virt : mapping'[b][w] # None =>
           b # a /\ mapping'[b][w] = mapping[b][w]
    BY <1>1
  <2>4. QED
    BY <1>1, <2>2, <2>3
<1>2. CASE ~ClearMemory
  BY <1>2
<1>3. QED
  BY <1>1, <1>2

(* Mapping a virtual qubit to a qubit that was free.                         *)
LEMMA QAllocInv ==
    ASSUME IInv, NEW a \in Apps, NEW v \in Virt, QAlloc(a, v)
    PROVE  IInv'
<1>1. CASE Allocatable(v) # {}
  <2> DEFINE p == Min(Allocatable(v))
  <2>1. p \in Phys \ allocated
    <3>1. Allocatable(v) \subseteq Phys \ allocated
      BY ConstantFacts DEF Allocatable, FreeOf
    <3>2. QED
      BY <1>1, <3>1, MinInSet
  <2>2. /\ allocated' = allocated \cup {p}
        /\ mapping' = [mapping EXCEPT ![a][v] = p]
        /\ UNCHANGED <<app, nstk, req, reserved, freed, meas, fault>>
    BY <1>1 DEF QAlloc
  <2> HIDE DEF p
  <2> USE ConstantFacts DEF IInv, TypeOK, NoSharing, HeldIsAllocated, Bookkeeping,
          InFlight, Reserved, MoveTarget, MoveSource
  <2>3. TypeOK'
    BY <2>1, <2>2
  <2>4. \A b \in Apps, w \in Virt :
           mapping'[b][w] = IF b = a /\ w = v THEN p ELSE mapping[b][w]
    BY <2>2
  <2>5. NoSharing'
    BY <2>1, <2>2, <2>4
  <2>6. HeldIsAllocated'
    BY <2>1, <2>2, <2>4
  <2>7. Bookkeeping'
    BY <2>1, <2>2, <2>4
  <2>8. QED
    BY <2>3, <2>5, <2>6, <2>7
<1>2. CASE Allocatable(v) = {}
  BY <1>2, RaiseInv DEF QAlloc, Raise, Faults
<1>3. QED
  BY <1>1, <1>2

(* A freed qubit was mapped for its owner only.                              *)
LEMMA QFreeInv ==
    ASSUME IInv, NEW a \in Apps, NEW v \in Virt, QFree(a, v)
    PROVE  IInv'
<1>1. CASE mapping[a][v] # None
  <2>1. /\ mapping' = [mapping EXCEPT ![a][v] = None]
        /\ allocated' = allocated \ {mapping[a][v]}
        /\ freed' = freed + 1
        /\ UNCHANGED <<app, nstk, req, reserved, meas, fault>>
    BY <1>1 DEF QFree
  <2> USE ConstantFacts DEF IInv, TypeOK, NoSharing, HeldIsAllocated, Bookkeeping,
          InFlight, Reserved, MoveTarget, MoveSource
  <2>2. TypeOK'
    BY <2>1
  <2>3. \A b \in Apps, w \in Virt :
           mapping'[b][w] = IF b = a /\ w = v THEN None ELSE mapping[b][w]
    BY <2>1
  <2>4. NoSharing'
    BY <2>1, <2>3
  <2>5. HeldIsAllocated'
    BY <1>1, <2>1, <2>3
  <2>6. Bookkeeping'
    <3>1. meas.pc = "move_out" => meas.old # mapping[a][v]
      BY DEF QFree, CanExecute
    <3>2. QED
      BY <2>1, <2>3, <3>1
  <2>7. QED
    BY <2>2, <2>4, <2>5, <2>6
<1>2. CASE mapping[a][v] = None
  BY <1>2, RaiseInv DEF QFree, Raise, Faults
<1>3. QED
  BY <1>1, <1>2

(* A measurement starts: the electron is taken for the carbon, or a free     *)
(* qubit is taken for the electron.                                          *)
LEMMA MeasCarbonInv ==
    ASSUME IInv, NEW a \in Apps, NEW v \in Virt, MeasCarbon(a, v)
    PROVE  IInv'
<1> DEFINE old == mapping[a][v]
           new == Min(FreeOf(Phys))
<1> USE ConstantFacts DEF IInv, TypeOK, NoSharing, HeldIsAllocated, Bookkeeping,
        InFlight, Reserved, MoveTarget, MoveSource
<1>1. /\ old \in allocated \ {0}
      /\ old # None
      /\ old \in Phys
      /\ meas.pc = "idle"
  BY DEF MeasCarbon, CanExecute
<1>2. CASE 0 \notin allocated
  <2>1. /\ allocated' = allocated \cup {0}
        /\ mapping' = [mapping EXCEPT ![a][v] = 0]
        /\ meas' = [pc |-> "move_in", app |-> a, virt |-> v,
                    old |-> old, new |-> None]
        /\ UNCHANGED <<app, nstk, req, reserved, freed, fault>>
    BY <1>2 DEF MeasCarbon
  <2>2. \A b \in Apps, w \in Virt :
           mapping'[b][w] = IF b = a /\ w = v THEN 0 ELSE mapping[b][w]
    BY <2>1
  <2>3. TypeOK'
    BY <1>1, <2>1 DEF Measurements
  <2>4. NoSharing'
    BY <1>1, <1>2, <2>1, <2>2
  <2>5. HeldIsAllocated'
    BY <1>1, <2>1, <2>2
  <2>6. Bookkeeping'
    BY <2>1
  <2>7. QED
    BY <2>3, <2>4, <2>5, <2>6
<1>3. CASE 0 \in allocated /\ FreeOf(Phys) # {}
  <2>1. new \in Phys \ allocated
    BY <1>3, MinInSet DEF FreeOf
  <2>2. /\ allocated' = allocated \cup {new}
        /\ meas' = [pc |-> "move_out", app |-> a, virt |-> v,
                    old |-> old, new |-> new]
        /\ UNCHANGED <<app, mapping, nstk, req, reserved, freed, fault>>
    BY <1>3 DEF MeasCarbon
  <2> HIDE DEF new
  <2>3. TypeOK'
    BY <1>1, <2>1, <2>2 DEF Measurements
  <2>4. NoSharing'
    BY <1>1, <2>1, <2>2
  <2>5. HeldIsAllocated'
    BY <1>1, <2>1, <2>2
  <2>6. Bookkeeping'
    BY <1>1, <2>1, <2>2
  <2>7. QED
    BY <2>3, <2>4, <2>5, <2>6
<1>4. CASE 0 \in allocated /\ FreeOf(Phys) = {}
  BY <1>4, RaiseInv DEF MeasCarbon, Raise, Faults
<1>5. QED
  BY <1>2, <1>3, <1>4

(* The electron's owner gets the fresh qubit, the measured carbon's the      *)
(* electron; the carbon itself is from now on held by the move alone.        *)
LEMMA MeasMovedOutInv ==
    ASSUME IInv, MeasMovedOut
    PROVE  IInv'
<1> USE ConstantFacts DEF IInv, TypeOK, NoSharing, HeldIsAllocated, Bookkeeping,
        InFlight, Reserved, MoveTarget, MoveSource
<1>1. CASE HoldersOf(0) # {}
  <2>1. PICK h \in HoldersOf(0) :
           /\ mapping' = [mapping EXCEPT ![h[1]][h[2]] = meas.new,
                                         ![meas.app][meas.virt] = 0]
           /\ meas' = [meas EXCEPT !.pc = "move_in", !.new = None]
           /\ UNCHANGED <<allocated, app, nstk, req, reserved, freed, fault>>
    BY <1>1 DEF MeasMovedOut
  <2>2. /\ h[1] \in Apps /\ h[2] \in Virt
        /\ mapping[h[1]][h[2]] = 0
        /\ meas.pc = "move_out"
        /\ meas.app \in Apps /\ meas.virt \in Virt
        /\ meas.new \in Phys /\ meas.old \in Phys
    BY DEF HoldersOf, MeasMovedOut, Measurements
  <2>3. \A b \in Apps, w \in Virt :
           mapping'[b][w] = IF b = meas.app /\ w = meas.virt THEN 0
                            ELSE IF b = h[1] /\ w = h[2] THEN meas.new
                            ELSE mapping[b][w]
    BY <2>1, <2>2
  <2>4. meas'.pc = "move_in" /\ meas'.old = meas.old /\ meas' \in Measurements
    BY <2>1, <2>2 DEF Measurements
  <2>5. TypeOK'
    BY <2>1, <2>2, <2>4
  <2>5a. /\ \A b \in Apps, w \in Virt :
              /\ mapping[b][w] # meas.new
              /\ mapping[b][w] = 0 => b = h[1] /\ w = h[2]
              /\ mapping[b][w] = meas.old => b = meas.app /\ w = meas.virt
              /\ mapping[b][w] # None => mapping[b][w] # reserved
        /\ meas.new # reserved /\ meas.old # reserved /\ reserved # 0
        /\ meas.old # meas.new /\ meas.old # 0 /\ meas.new # 0
        /\ None \notin {0, meas.old, meas.new}
        /\ {0, meas.old, meas.new} \subseteq allocated
    BY <2>2
  <2>5b. InFlight' = Reserved \cup {meas.old}
    BY <2>1, <2>4
  <2>5c. None \notin Phys /\ NoSharing
    BY DEF None
  <2> HIDE DEF IInv, TypeOK, NoSharing, HeldIsAllocated, Bookkeeping,
           InFlight, Reserved, MoveTarget, MoveSource
  <2>6. NoSharing'
    <3>1. ASSUME NEW b \in Apps, NEW c \in Apps, NEW w \in Virt, NEW x \in Virt,
                 mapping'[b][w] # None, mapping'[b][w] = mapping'[c][x]
          PROVE  b = c /\ w = x
      BY <2>2, <2>3, <2>5a, <2>5c, <3>1 DEF NoSharing
    <3>2. \A b \in Apps, w \in Virt : mapping'[b][w] \notin InFlight'
      BY <2>3, <2>5a, <2>5b DEF Reserved
    <3>3. reserved' \notin MoveTarget' \cup MoveSource'
      BY <2>1, <2>4, <2>5a DEF MoveTarget, MoveSource
    <3>4. QED
      BY <3>1, <3>2, <3>3 DEF NoSharing
  <2>7. HeldIsAllocated'
    <3>1. Reserved \subseteq allocated /\ \A b \in Apps, w \in Virt :
             mapping[b][w] \in allocated \cup {None}
      BY DEF IInv, HeldIsAllocated, InFlight
    <3>2. QED
      <4>1. allocated' = allocated
        BY <2>1
      <4>2. \A b \in Apps, w \in Virt : mapping'[b][w] \in allocated \cup {None}
        BY <2>3, <2>5a, <3>1
      <4>3. InFlight' \subseteq allocated
        BY <2>5a, <2>5b, <3>1
      <4>4. QED
        BY <4>1, <4>2, <4>3 DEF HeldIsAllocated
  <2>8. Bookkeeping'
    BY <2>1, <2>4 DEF IInv, Bookkeeping
  <2>9. QED
    BY <2>5, <2>6, <2>7, <2>8 DEF IInv
<1>2. CASE HoldersOf(0) = {}
  BY <1>2, RaiseInv DEF MeasMovedOut, Raise, Faults
<1>3. QED
  BY <1>1, <1>2

(* MeasMovedIn: the qubit to measure is at the communication position.       *)
LEMMA MeasMovedInInv ==
    ASSUME IInv, MeasMovedIn
    PROVE  IInv'
<1> USE ConstantFacts DEF IInv, TypeOK, NoSharing, HeldIsAllocated, Bookkeeping,
        InFlight, Reserved, MoveTarget, MoveSource
<1>1. /\ meas'.pc = "idle" /\ meas' \in Measurements
      /\ allocated' = allocated \ {meas.old}
      /\ UNCHANGED <<app, mapping, nstk, req, reserved, fault>>
  BY DEF MeasMovedIn, Measurements
<1>2. meas.old \notin Reserved /\ \A a \in Apps, v \in Virt : mapping[a][v] # meas.old
  BY DEF MeasMovedIn
<1>3. TypeOK'
  BY <1>1 DEF MeasMovedIn
<1>4. NoSharing' /\ HeldIsAllocated' /\ Bookkeeping'
  BY <1>1, <1>2
<1>5. QED
  BY <1>3, <1>4

-----------------------------------------------------------------------------
(* The network stack.                                                        *)

(* StartRequest: the network stack begins a request.                         *)
LEMMA StartRequestInv ==
    ASSUME IInv, NEW r \in NewRequests, StartRequest(r)
    PROVE  IInv'
<1>1. CASE r.role = "create" => HasMemory(r.app)
  <2>1. /\ nstk = "idle" /\ nstk' = "handshake" /\ req' = r
        /\ UNCHANGED <<allocated, app, mapping, reserved, freed, meas, fault>>
    BY <1>1 DEF StartRequest
  <2>2. req' \in Requests /\ req'.left > 0
    BY <2>1 DEF NewRequests
  <2>3. QED
    BY <2>1, <2>2 DEF IInv, TypeOK, NoSharing, HeldIsAllocated, Bookkeeping,
           InFlight, Reserved, MoveTarget, MoveSource
<1>2. CASE r.role = "create" /\ ~HasMemory(r.app)
  BY <1>2, RaiseInv DEF StartRequest, Raise, Faults
<1>3. QED
  BY <1>1, <1>2

(* AllocateCommOrWait reserves a communication qubit that was free, or none. *)
LEMMA AllocateCommFacts ==
    ASSUME TypeOK, AllocateCommOrWait(allocated)
    PROVE  /\ reserved' \in (CommQubits \ allocated) \cup {None}
           /\ allocated' = allocated \cup ({reserved'} \ {None})
           /\ nstk' \in {"ck_pair", "ck_wait"}
           /\ nstk' = "ck_pair" <=> reserved' # None
<1>1. CASE CommQubits \ allocated # {}
  <2> DEFINE p == Min(CommQubits \ allocated)
  <2>1. p \in CommQubits \ allocated /\ p # None
    BY <1>1, MinInSet, ConstantFacts
  <2>2. allocated' = allocated \cup {p} /\ reserved' = p /\ nstk' = "ck_pair"
    BY <1>1 DEF AllocateCommOrWait
  <2> QED
    BY <2>1, <2>2
<1>2. CASE CommQubits \ allocated = {}
  BY <1>2 DEF AllocateCommOrWait
<1>3. QED
  BY <1>1, <1>2

(* Reserving a free communication qubit, or none, when none was reserved.    *)
LEMMA ReserveInv ==
    ASSUME IInv, reserved = None,
           reserved' \in (CommQubits \ allocated) \cup {None},
           allocated' = allocated \cup ({reserved'} \ {None}),
           nstk' \in {"idle", "ck_pair", "ck_wait", "md_pair"},
           nstk' \in {"ck_pair", "md_pair"} <=> reserved' # None,
           req' \in Requests, nstk' # "idle" => req'.left > 0,
           freed' \in Nat,
           UNCHANGED <<app, mapping, meas, fault>>
    PROVE  IInv'
<1> USE ConstantFacts DEF IInv, TypeOK, NoSharing, HeldIsAllocated, Bookkeeping,
        InFlight, Reserved, MoveTarget, MoveSource
<1>1. TypeOK'
  OBVIOUS
<1>2. NoSharing'
  OBVIOUS
<1>3. HeldIsAllocated'
  OBVIOUS
<1>4. Bookkeeping'
  OBVIOUS
<1>5. QED
  BY <1>1, <1>2, <1>3, <1>4

(* PeerReady: the peer has answered.                                         *)
LEMMA PeerReadyInv ==
    ASSUME IInv, PeerReady
    PROVE  IInv'
<1>1. reserved = None /\ TypeOK /\ req.left > 0 /\ req \in Requests
  BY DEF PeerReady, IInv, Bookkeeping, TypeOK
<1>2. CASE req.type = "CK" /\ (req.role = "create" => HasMemory(req.app))
  <2>1. AllocateCommOrWait(allocated) /\ UNCHANGED <<app, mapping, req, freed, meas, fault>>
    BY <1>2 DEF PeerReady
  <2>2. freed' \in Nat /\ req' = req
    BY <1>1, <2>1 DEF TypeOK
  <2>3. QED
    BY <1>1, <2>1, <2>2, AllocateCommFacts, ReserveInv
<1>3. CASE req.type = "CK" /\ req.role = "create" /\ ~HasMemory(req.app)
  BY <1>3, RaiseInv DEF PeerReady, Raise, Faults
<1>4. CASE req.type = "MD" /\ FreeOf(CommQubits) # {}
  <2> DEFINE p == Min(FreeOf(CommQubits))
  <2>1. p \in CommQubits \ allocated /\ p # None
    BY <1>4, MinInSet, ConstantFacts DEF FreeOf
  <2>2. /\ allocated' = allocated \cup {p} /\ reserved' = p /\ nstk' = "md_pair"
        /\ UNCHANGED <<app, mapping, req, freed, meas, fault>>
    BY <1>4 DEF PeerReady
  <2>3. freed' \in Nat /\ req' = req
    BY <1>1, <2>2 DEF TypeOK
  <2> HIDE DEF p
  <2>4. QED
    BY <1>1, <2>1, <2>2, <2>3, ReserveInv
<1>5. CASE req.type = "MD" /\ FreeOf(CommQubits) = {}
  BY <1>5, RaiseInv DEF PeerReady, Raise, Faults
<1>6. QED
  BY <1>1, <1>2, <1>3, <1>4, <1>5 DEF Requests, Types

(* HandleFreed: a waiting request is told that a qubit is free.              *)
LEMMA HandleFreedInv ==
    ASSUME IInv, HandleFreed
    PROVE  IInv'
<1>1. freed' \in Nat /\ req' \in Requests /\ req' = req
  BY DEF HandleFreed, IInv, TypeOK
<1>2. CASE nstk = "ck_wait"
  <2>1. reserved = None /\ req.left > 0 /\ TypeOK
    BY <1>2 DEF IInv, Bookkeeping
  <2>2. AllocateCommOrWait(allocated) /\ UNCHANGED <<app, mapping, req, meas, fault>>
    BY <1>2 DEF HandleFreed
  <2>3. QED
    BY <1>1, <2>1, <2>2, AllocateCommFacts, ReserveInv
<1>3. CASE nstk # "ck_wait"
  BY <1>1, <1>3 DEF HandleFreed, IInv, TypeOK, NoSharing, HeldIsAllocated,
         Bookkeeping, InFlight, Reserved, MoveTarget, MoveSource
<1>4. QED
  BY <1>2, <1>3

(* A delivered pair's qubit stops being reserved and becomes mapped; the     *)
(* qubit reserved for the next pair, if any, was free.                       *)
LEMMA PairDeliveredInv ==
    ASSUME IInv, NEW v \in Virt, PairDelivered(v)
    PROVE  IInv'
<1>1. CASE req.role = "recv" => HasMemory(req.app)
  <2>1. /\ nstk = "ck_pair" /\ req.app \in Apps /\ req.left \in 1 .. MaxPairs
        /\ reserved \in CommQubits /\ reserved \in Phys /\ reserved # None
        /\ mapping' = [mapping EXCEPT ![req.app][v] = reserved]
        /\ req' = [req EXCEPT !.left = @ - 1]
        /\ UNCHANGED <<app, freed, meas, fault>>
    <3>1. nstk = "ck_pair" /\ req \in Requests
      BY DEF PairDelivered, IInv, TypeOK
    <3>2. reserved \in CommQubits /\ reserved # None /\ req.left > 0
      BY <3>1 DEF IInv, Bookkeeping
    <3>3. req.app \in Apps /\ req.left \in 1 .. MaxPairs
      BY <3>1, <3>2, QubitMemoryAssumption DEF Requests
    <3>4. /\ mapping' = [mapping EXCEPT ![req.app][v] = reserved]
          /\ req' = [req EXCEPT !.left = @ - 1]
          /\ UNCHANGED <<app, freed, meas, fault>>
      BY <1>1 DEF PairDelivered, NextPair
    <3>5. QED
      BY <3>1, <3>2, <3>3, <3>4, ConstantFacts
  <2>2. req' \in Requests /\ req'.left = req.left - 1
    BY <2>1, QubitMemoryAssumption DEF IInv, TypeOK, Requests
  <2>3. /\ reserved' \in (CommQubits \ allocated) \cup {None}
        /\ allocated' = allocated \cup ({reserved'} \ {None})
        /\ nstk' \in {"idle", "ck_pair", "ck_wait"}
        /\ nstk' = "ck_pair" <=> reserved' # None
        /\ nstk' # "idle" => req'.left > 0
    <3>1. CASE req.left > 1
      <4>1. TypeOK /\ AllocateCommOrWait(allocated)
        BY <1>1, <3>1 DEF PairDelivered, IInv
      <4>2. req'.left > 0
        BY <2>1, <2>2, <3>1
      <4>3. QED
        BY <4>1, <4>2, AllocateCommFacts
    <3>2. CASE ~(req.left > 1)
      BY <1>1, <2>1, <2>2, <3>2 DEF PairDelivered
    <3>3. QED
      BY <3>1, <3>2
  <2>4. \A b \in Apps, w \in Virt :
           mapping'[b][w] = IF b = req.app /\ w = v THEN reserved ELSE mapping[b][w]
    BY <2>1 DEF IInv, TypeOK
  <2> USE ConstantFacts DEF IInv, TypeOK, NoSharing, HeldIsAllocated, Bookkeeping,
          InFlight, Reserved, MoveTarget, MoveSource
  <2>5. TypeOK'
    BY <2>1, <2>2, <2>3
  <2>6. NoSharing'
    BY <2>1, <2>3, <2>4
  <2>7. HeldIsAllocated'
    BY <2>1, <2>3, <2>4
  <2>8. Bookkeeping'
    BY <2>1, <2>2, <2>3, <2>4
  <2>9. QED
    BY <2>5, <2>6, <2>7, <2>8
<1>2. CASE req.role = "recv" /\ ~HasMemory(req.app)
  BY <1>2, RaiseInv DEF PairDelivered, Raise, Faults
<1>3. QED
  BY <1>1, <1>2

(* The qubit of a measured pair is free again, so there is one for the next. *)
LEMMA PairMeasuredInv ==
    ASSUME IInv, PairMeasured
    PROVE  IInv'
<1>1. /\ nstk = "md_pair" /\ req.left \in Nat /\ req.left \in 1 .. MaxPairs
      /\ reserved \in CommQubits /\ reserved \in Phys /\ reserved # None
  <2>1. nstk = "md_pair" /\ req \in Requests
    BY DEF PairMeasured, IInv, TypeOK
  <2>2. reserved \in CommQubits /\ reserved # None /\ req.left > 0
    BY <2>1 DEF IInv, Bookkeeping
  <2>3. req.left \in Nat /\ req.left \in 1 .. MaxPairs
    BY <2>1, <2>2, QubitMemoryAssumption DEF Requests
  <2>4. QED
    BY <2>1, <2>2, <2>3, ConstantFacts
<1>2. CASE req.left > 1
  <2> DEFINE rest == allocated \ {reserved}
             p == Min(CommQubits \ rest)
  <2>1. p \in CommQubits \ rest /\ p # None /\ p \in Phys
    BY <1>1, MinInSet, ConstantFacts
  <2>2. /\ allocated' = (allocated \ {reserved}) \cup {p} /\ reserved' = p
        /\ req' = [req EXCEPT !.left = @ - 1]
        /\ UNCHANGED <<app, mapping, nstk, freed, meas, fault>>
    <3>1. ~(req.left =< 1)
      BY <1>1, <1>2
    <3>2. /\ allocated' = rest \cup {p} /\ reserved' = p
          /\ NextPair /\ UNCHANGED <<app, mapping, nstk, freed, meas, fault>>
      BY <3>1 DEF PairMeasured
    <3>3. QED
      BY <3>2 DEF NextPair
  <2>3. p = reserved \/ p \notin allocated
    BY <2>1
  <2> HIDE DEF p
  <2>4. req' \in Requests /\ req'.left = req.left - 1
    BY <1>1, <2>2, QubitMemoryAssumption DEF IInv, TypeOK, Requests
  <2> USE ConstantFacts DEF IInv, TypeOK, NoSharing, HeldIsAllocated, Bookkeeping,
          InFlight, Reserved, MoveTarget, MoveSource
  <2>5. TypeOK'
    BY <2>1, <2>2, <2>4
  <2>6. NoSharing'
    BY <2>1, <2>2, <2>3
  <2>7. HeldIsAllocated'
    BY <1>1, <2>1, <2>2, <2>3
  <2>8. Bookkeeping'
    BY <1>1, <1>2, <2>1, <2>2, <2>3, <2>4
  <2>9. QED
    BY <2>5, <2>6, <2>7, <2>8
<1>3. CASE ~(req.left > 1) /\ HasMemory(req.app)
  <2>1. /\ allocated' = allocated \ {reserved} /\ reserved' = None /\ nstk' = "idle"
        /\ req' = [req EXCEPT !.left = @ - 1]
        /\ UNCHANGED <<app, mapping, freed, meas, fault>>
    BY <1>1, <1>3 DEF PairMeasured, NextPair
  <2>2. req' \in Requests
    BY <1>1, <2>1, QubitMemoryAssumption DEF IInv, TypeOK, Requests
  <2> USE ConstantFacts DEF IInv, TypeOK, NoSharing, HeldIsAllocated, Bookkeeping,
          InFlight, Reserved, MoveTarget, MoveSource
  <2>3. TypeOK' /\ NoSharing'
    BY <1>1, <2>1, <2>2
  <2>4. HeldIsAllocated' /\ Bookkeeping'
    BY <1>1, <2>1
  <2>5. QED
    BY <2>3, <2>4
<1>4. CASE ~(req.left > 1) /\ ~HasMemory(req.app)
  BY <1>1, <1>4, RaiseInv DEF PairMeasured, Raise, Faults
<1>5. QED
  BY <1>2, <1>3, <1>4

-----------------------------------------------------------------------------
LEMMA InitInv == Init => IInv
BY ConstantFacts, QubitMemoryAssumption
   DEF Init, IInv, TypeOK, NoSharing, HeldIsAllocated, Bookkeeping, InFlight,
       Reserved, MoveTarget, MoveSource, Requests, Roles, Types, Measurements

(* The inductive invariant holds in every reachable state: type correctness, *)
(* exclusive ownership of qubits and their being marked allocated.           *)
THEOREM Invariance == Spec => []IInv
<1>1. Init => IInv
  BY InitInv
<1>2. IInv /\ [Next]_vars => IInv'
  <2> SUFFICES ASSUME IInv, [Next]_vars
               PROVE  IInv'
    OBVIOUS
  <2>1. CASE Handler
    BY <2>1, InitNewAppInv, StopApplicationInv DEF Handler
  <2>2. CASE Processor
    BY <2>2, QAllocInv, QFreeInv, MeasCarbonInv, MeasMovedOutInv, MeasMovedInInv
       DEF Processor
  <2>3. CASE Netstack
    BY <2>3, StartRequestInv, PeerReadyInv, HandleFreedInv, PairDeliveredInv,
       PairMeasuredInv DEF Netstack
  <2>4. CASE UNCHANGED vars
    BY <2>4 DEF vars, IInv, TypeOK, NoSharing, HeldIsAllocated, Bookkeeping,
           InFlight, Reserved, MoveTarget, MoveSource
  <2>5. QED
    BY <2>1, <2>2, <2>3, <2>4 DEF Next
<1>3. QED
  BY <1>1, <1>2, PTL DEF Spec

(* Every variable keeps its type: the handlers never leave a qubit, request  *)
(* or suspended measurement outside the values the code can represent.       *)
THEOREM TypeCorrect == Spec => []TypeOK
BY Invariance, PTL DEF IInv

(* No physical qubit is held by two virtual qubits, by a virtual qubit and a *)
(* pair in the making or a move, or by two of those.                         *)
THEOREM ExclusiveQubits == Spec => []NoSharing
BY Invariance, PTL DEF IInv

(* Every held qubit is marked allocated: no allocation returns it, and       *)
(* freeing it never raises KeyError.                                         *)
THEOREM FreesAreLegal == Spec => []HeldIsAllocated
BY Invariance, PTL DEF IInv

-----------------------------------------------------------------------------
(* Compiled programs lose no qubit.                                          *)

(* What makes NoLeak inductive: the application of the request in progress   *)
(* is open, and so is the one that measures, whose carbon is still mapped    *)
(* while the electron is moved out.                                          *)
Attended ==
    /\ nstk # "idle" => app[req.app] = "open"
    /\ meas.pc = "move_out" =>
          app[meas.app] = "open" /\ mapping[meas.app][meas.virt] = meas.old

(* A virtual qubit of an application with a memory is physical qubit p.      *)
Maps(p) == \E a \in Apps, v \in Virt : HasMemory(a) /\ mapping[a][v] = p

Accounted == \A p \in allocated : p \in InFlight \/ Maps(p)

Kept == IInv /\ Attended /\ (fault = "none" => Accounted)

LEMMA HoldersMap == (fault = "none" => Accounted) => NoLeak
<1>1. ASSUME NEW p, Maps(p)
      PROVE  HoldersOf(p) # {}
  <2>1. PICK a \in Apps, v \in Virt : HasMemory(a) /\ mapping[a][v] = p
    BY <1>1 DEF Maps
  <2>2. <<a, v>> \in HoldersOf(p)
    BY <2>1 DEF HoldersOf
  <2> QED
    BY <2>2
<1> QED
  BY <1>1 DEF NoLeak, Accounted

(* An exception ends the simulation: nothing else changes.                   *)
LEMMA RaiseKept ==
    ASSUME Kept, fault' \in Faults,
           UNCHANGED <<allocated, app, mapping, nstk, req, reserved, freed, meas>>
    PROVE  Kept'
<1>1. IInv'
  BY RaiseInv DEF Kept
<1>2. Attended'
  BY DEF Kept, Attended
<1> QED
  BY <1>1, <1>2 DEF Kept, Faults

(* The handler opens an application, or frees what a stopped one still maps. *)
LEMMA HandlerKept ==
    ASSUME Compiled, Kept, fault = "none", NEW a \in Apps,
           InitNewApp(a) \/ StopApplication(a)
    PROVE  Kept'
<1>1. IInv'
  BY InitNewAppInv, StopApplicationInv DEF Kept
<1>2. /\ app \in [Apps -> {"new", "open", "kept", "gone"}]
      /\ mapping \in [Apps -> [Virt -> Phys \cup {None}]]
  BY DEF Kept, IInv, TypeOK
<1>3. Attended'
  <2>1. req.app \in Apps /\ meas.pc = "idle" /\ UNCHANGED <<nstk, req, meas>>
    BY DEF InitNewApp, StopApplication, Kept, IInv, TypeOK, Requests
  <2>2. nstk # "idle" => app'[req.app] = "open"
    <3>1. CASE InitNewApp(a)
      BY <1>2, <2>1, <3>1 DEF InitNewApp, Kept, Attended
    <3>2. CASE StopApplication(a)
      <4>1. nstk # "idle" => req.app # a
        BY <3>2 DEF StopApplication, Busy
      <4> QED
        BY <1>2, <2>1, <3>2, <4>1 DEF StopApplication, Kept, Attended
    <3> QED
      BY <3>1, <3>2
  <2> QED
    BY <2>1, <2>2 DEF Attended
<1>4. /\ InFlight' = InFlight
      /\ meas' = meas
  BY DEF InitNewApp, StopApplication, InFlight, Reserved, MoveTarget, MoveSource
<1>5. ASSUME NEW p \in allocated', p \notin InFlight'
      PROVE  Maps(p)'
  <2>1. p \in allocated
    BY DEF InitNewApp, StopApplication
  <2>2. PICK b \in Apps, w \in Virt : HasMemory(b) /\ mapping[b][w] = p
    BY <1>4, <1>5, <2>1 DEF Kept, Accounted, Maps
  <2>3. CASE b = a
    <3>1. StopApplication(a)
      BY <2>2, <2>3 DEF InitNewApp, HasMemory
    <3>2. ~ClearMemory
      BY <2>2, <2>3, <3>1 DEF StopApplication
    <3> QED
      BY <1>2, <2>2, <2>3, <3>1, <3>2 DEF StopApplication, Maps, HasMemory
  <2>4. CASE b # a
    <3>1. app'[b] = app[b] /\ mapping'[b] = mapping[b]
      BY <1>2, <2>4 DEF InitNewApp, StopApplication
    <3> QED
      BY <2>2, <3>1 DEF Maps, HasMemory
  <2> QED
    BY <2>3, <2>4
<1> QED
  BY <1>1, <1>3, <1>5 DEF Kept, Accounted

(* An unmapped virtual qubit is mapped to a fresh physical one.              *)
LEMMA QAllocKept ==
    ASSUME Compiled, Kept, fault = "none", NEW a \in Apps, NEW v \in Virt, QAlloc(a, v)
    PROVE  Kept'
<1>1. CASE Allocatable(v) # {}
  <2> DEFINE p == Min(Allocatable(v))
  <2>1. /\ allocated' = allocated \cup {p}
        /\ mapping' = [mapping EXCEPT ![a][v] = p]
        /\ UNCHANGED <<app, nstk, req, reserved, freed, meas, fault>>
        /\ mapping[a][v] = None /\ app[a] = "open" /\ meas.pc = "idle"
    BY <1>1 DEF QAlloc, CanExecute
  <2> HIDE DEF p
  <2>2. IInv' /\ None \notin Phys
    BY QAllocInv, ConstantFacts DEF Kept
  <2>3. \A b \in Apps, w \in Virt :
           mapping'[b][w] = IF b = a /\ w = v THEN p ELSE mapping[b][w]
    BY <2>1 DEF Kept, IInv, TypeOK
  <2>4. Attended'
    BY <2>1 DEF Kept, Attended
  <2>5. InFlight' = InFlight
    BY <2>1 DEF InFlight, Reserved, MoveTarget, MoveSource
  <2>6. ASSUME NEW q \in allocated', q \notin InFlight'
        PROVE  Maps(q)'
    <3>1. CASE q = p
      BY <2>1, <2>3, <3>1 DEF Maps, HasMemory
    <3>2. CASE q # p
      <4>1. q \in allocated /\ q # None
        BY <2>1, <2>2, <3>2 DEF Kept, IInv, TypeOK
      <4>2. PICK b \in Apps, w \in Virt : HasMemory(b) /\ mapping[b][w] = q
        BY <2>5, <2>6, <4>1 DEF Kept, Accounted, Maps
      <4> QED
        BY <2>1, <2>3, <4>1, <4>2 DEF Maps, HasMemory
    <3> QED
      BY <3>1, <3>2
  <2> QED
    BY <2>2, <2>4, <2>6 DEF Kept, Accounted
<1>2. CASE Allocatable(v) = {}
  BY <1>2, RaiseKept DEF QAlloc, Raise, Faults
<1> QED
  BY <1>1, <1>2

(* A freed qubit is neither allocated nor mapped any more.                   *)
LEMMA QFreeKept ==
    ASSUME Compiled, Kept, fault = "none", NEW a \in Apps, NEW v \in Virt, QFree(a, v)
    PROVE  Kept'
<1>1. /\ mapping' = [mapping EXCEPT ![a][v] = None]
      /\ allocated' = allocated \ {mapping[a][v]}
      /\ UNCHANGED <<app, nstk, req, reserved, meas, fault>>
      /\ meas.pc = "idle"
  BY DEF QFree, CanExecute
<1>2. IInv'
  BY QFreeInv DEF Kept
<1>3. \A b \in Apps, w \in Virt :
         mapping'[b][w] = IF b = a /\ w = v THEN None ELSE mapping[b][w]
  BY <1>1 DEF Kept, IInv, TypeOK
<1>4. Attended'
  BY <1>1 DEF Kept, Attended
<1>5. InFlight' = InFlight
  BY <1>1 DEF InFlight, Reserved, MoveTarget, MoveSource
<1>6. ASSUME NEW q \in allocated', q \notin InFlight'
      PROVE  Maps(q)'
  <2>1. q \in allocated /\ q # mapping[a][v]
    BY <1>1
  <2>2. PICK b \in Apps, w \in Virt : HasMemory(b) /\ mapping[b][w] = q
    BY <1>5, <1>6, <2>1 DEF Kept, Accounted, Maps
  <2>3. mapping'[b][w] = q
    BY <1>3, <2>1, <2>2
  <2> QED
    BY <1>1, <2>2, <2>3 DEF Maps, HasMemory
<1> QED
  BY <1>2, <1>4, <1>6 DEF Kept, Accounted

(* The carbon's old position, or the electron's new one, is in flight.       *)
LEMMA MeasCarbonKept ==
    ASSUME Compiled, Kept, fault = "none", NEW a \in Apps, NEW v \in Virt, MeasCarbon(a, v)
    PROVE  Kept'
<1> DEFINE old == mapping[a][v]
           new == Min(FreeOf(Phys))
<1>1. IInv' /\ app[a] = "open" /\ meas.pc = "idle"
  BY MeasCarbonInv DEF Kept, MeasCarbon, CanExecute
<1>2. CASE 0 \notin allocated
  <2>1. /\ allocated' = allocated \cup {0}
        /\ mapping' = [mapping EXCEPT ![a][v] = 0]
        /\ meas' = [pc |-> "move_in", app |-> a, virt |-> v,
                    old |-> old, new |-> None]
        /\ UNCHANGED <<app, nstk, req, reserved, freed, fault>>
    BY <1>2 DEF MeasCarbon
  <2>2. \A b \in Apps, w \in Virt :
           mapping'[b][w] = IF b = a /\ w = v THEN 0 ELSE mapping[b][w]
    BY <2>1 DEF Kept, IInv, TypeOK
  <2>3. Attended'
    BY <2>1 DEF Kept, Attended
  <2>4. InFlight' = InFlight \cup {old}
    BY <1>1, <2>1 DEF InFlight, Reserved, MoveTarget, MoveSource
  <2>5. ASSUME NEW q \in allocated', q \notin InFlight'
        PROVE  Maps(q)'
    <3>1. CASE q = 0
      BY <1>1, <2>1, <2>2, <3>1 DEF Maps, HasMemory
    <3>2. CASE q # 0
      <4>1. q \in allocated /\ q # old /\ q \notin InFlight
        BY <2>1, <2>4, <2>5, <3>2
      <4>2. PICK b \in Apps, w \in Virt : HasMemory(b) /\ mapping[b][w] = q
        BY <4>1 DEF Kept, Accounted, Maps
      <4>3. mapping'[b][w] = q
        BY <2>2, <4>1, <4>2
      <4> QED
        BY <2>1, <4>2, <4>3 DEF Maps, HasMemory
    <3> QED
      BY <3>1, <3>2
  <2> QED
    BY <1>1, <2>3, <2>5 DEF Kept, Accounted
<1>3. CASE 0 \in allocated /\ FreeOf(Phys) # {}
  <2>1. /\ allocated' = allocated \cup {new}
        /\ meas' = [pc |-> "move_out", app |-> a, virt |-> v,
                    old |-> old, new |-> new]
        /\ UNCHANGED <<app, mapping, nstk, req, reserved, freed, fault>>
    BY <1>3 DEF MeasCarbon
  <2> HIDE DEF new
  <2>2. Attended'
    BY <1>1, <2>1 DEF Kept, Attended
  <2>3. InFlight' = InFlight \cup {new}
    BY <1>1, <2>1 DEF InFlight, Reserved, MoveTarget, MoveSource
  <2>4. Accounted'
    BY <2>1, <2>3 DEF Kept, Accounted, Maps, HasMemory
  <2> QED
    BY <1>1, <2>2, <2>4 DEF Kept
<1>4. CASE 0 \in allocated /\ FreeOf(Phys) = {}
  BY <1>4, RaiseKept DEF MeasCarbon, Raise, Faults
<1> QED
  BY <1>2, <1>3, <1>4

(* The electron's owner gets the new qubit, the carbon's the electron.       *)
LEMMA MeasMovedOutKept ==
    ASSUME Compiled, Kept, fault = "none", MeasMovedOut
    PROVE  Kept'
<1>1. CASE HoldersOf(0) # {}
  <2>1. PICK h \in HoldersOf(0) :
           /\ mapping' = [mapping EXCEPT ![h[1]][h[2]] = meas.new,
                                         ![meas.app][meas.virt] = 0]
           /\ meas' = [meas EXCEPT !.pc = "move_in", !.new = None]
           /\ UNCHANGED <<allocated, app, nstk, req, reserved, freed, fault>>
    BY <1>1 DEF MeasMovedOut
  <2>2. /\ h[1] \in Apps /\ h[2] \in Virt /\ HasMemory(h[1])
        /\ mapping[h[1]][h[2]] = 0
        /\ meas.pc = "move_out" /\ meas \in Measurements
        /\ meas.app \in Apps /\ meas.virt \in Virt
        /\ app[meas.app] = "open" /\ mapping[meas.app][meas.virt] = meas.old
        /\ meas.old # 0
    BY DEF HoldersOf, MeasMovedOut, Measurements, Kept, Attended, IInv, TypeOK, Bookkeeping
  <2>3. \A b \in Apps, w \in Virt :
           mapping'[b][w] = IF b = meas.app /\ w = meas.virt THEN 0
                            ELSE IF b = h[1] /\ w = h[2] THEN meas.new
                            ELSE mapping[b][w]
    BY <2>1, <2>2 DEF Kept, IInv, TypeOK
  <2>4. meas'.pc = "move_in" /\ meas'.old = meas.old
    BY <2>1, <2>2 DEF Measurements
  <2>5. IInv'
    BY MeasMovedOutInv DEF Kept
  <2>6. Attended'
    BY <2>1, <2>4 DEF Kept, Attended
  <2>7. InFlight = Reserved \cup {meas.new} /\ InFlight' = Reserved \cup {meas.old}
    BY <2>1, <2>2, <2>4 DEF InFlight, Reserved, MoveTarget, MoveSource
  <2>8. ASSUME NEW q \in allocated', q \notin InFlight'
        PROVE  Maps(q)'
    <3>1. q \in allocated /\ q # meas.old /\ q \notin Reserved
      BY <2>1, <2>7, <2>8
    <3>2. CASE q = 0
      <4>1. mapping'[meas.app][meas.virt] = q
        BY <2>2, <2>3, <3>2
      <4> QED
        BY <2>1, <2>2, <4>1 DEF Maps, HasMemory
    <3>3. CASE q = meas.new
      <4>1. mapping'[h[1]][h[2]] = q
        BY <2>2, <2>3, <3>3
      <4> QED
        BY <2>1, <2>2, <4>1 DEF Maps, HasMemory
    <3>4. CASE q # 0 /\ q # meas.new
      <4>1. q \notin InFlight
        BY <2>7, <3>1, <3>4
      <4>2. PICK b \in Apps, w \in Virt : HasMemory(b) /\ mapping[b][w] = q
        BY <3>1, <4>1 DEF Kept, Accounted, Maps
      <4>3. mapping'[b][w] = q
        BY <2>2, <2>3, <3>1, <3>4, <4>2
      <4> QED
        BY <2>1, <4>2, <4>3 DEF Maps, HasMemory
    <3> QED
      BY <3>2, <3>3, <3>4
  <2> QED
    BY <2>5, <2>6, <2>8 DEF Kept, Accounted
<1>2. CASE HoldersOf(0) = {}
  BY <1>2, RaiseKept DEF MeasMovedOut, Raise, Faults
<1> QED
  BY <1>1, <1>2

(* What was in flight is freed.                                              *)
LEMMA MeasMovedInKept ==
    ASSUME Compiled, Kept, fault = "none", MeasMovedIn
    PROVE  Kept'
<1>1. /\ allocated' = allocated \ {meas.old}
      /\ meas' = [meas EXCEPT !.pc = "idle"] /\ meas.pc = "move_in" /\ meas \in Measurements
      /\ UNCHANGED <<app, mapping, nstk, req, reserved, fault>>
  BY DEF MeasMovedIn, Kept, IInv, TypeOK
<1>2. meas'.pc = "idle"
  BY <1>1 DEF Measurements
<1>3. IInv'
  BY MeasMovedInInv DEF Kept
<1>4. Attended'
  BY <1>1, <1>2 DEF Kept, Attended
<1>5. InFlight = InFlight' \cup {meas.old}
  BY <1>1, <1>2 DEF InFlight, Reserved, MoveTarget, MoveSource
<1>6. Accounted'
  BY <1>1, <1>5 DEF Kept, Accounted, Maps, HasMemory
<1> QED
  BY <1>3, <1>4, <1>6 DEF Kept

(* The network stack reserves a qubit, or gives one back: what is mapped     *)
(* stays mapped.                                                             *)
LEMMA ReserveKept ==
    ASSUME Kept, fault = "none", IInv',
           allocated' \subseteq (allocated \ Reserved) \cup Reserved',
           nstk' # "idle" => app[req'.app] = "open",
           UNCHANGED <<app, mapping, meas>>
    PROVE  Kept'
<1>1. Attended'
  BY DEF Kept, Attended
<1>2. ASSUME NEW q \in allocated', q \notin InFlight'
      PROVE  Maps(q)'
  <2>1. q \in allocated /\ q \notin InFlight
    BY <1>2 DEF InFlight, MoveTarget, MoveSource
  <2> QED
    BY <2>1 DEF Kept, Accounted, Maps, HasMemory
<1> QED
  BY <1>1, <1>2 DEF Kept, Accounted

(* What is reserved after AllocateCommOrWait is what was newly allocated.    *)
LEMMA AllocateCommReserves ==
    ASSUME TypeOK, AllocateCommOrWait(allocated)
    PROVE  allocated' = allocated \cup Reserved'
BY AllocateCommFacts DEF Reserved

LEMMA StartRequestKept ==
    ASSUME Compiled, Kept, fault = "none", NEW r \in NewRequests, StartRequest(r)
    PROVE  Kept'
<1>1. CASE r.role = "create" => HasMemory(r.app)
  <2>1. /\ req' = r /\ app[r.app] = "open"
        /\ UNCHANGED <<allocated, app, mapping, reserved, freed, meas, fault>>
    BY <1>1 DEF StartRequest
  <2>2. allocated' \subseteq (allocated \ Reserved) \cup Reserved'
    BY <2>1 DEF Reserved
  <2> QED
    BY <2>1, <2>2, StartRequestInv, ReserveKept DEF Kept
<1>2. CASE r.role = "create" /\ ~HasMemory(r.app)
  BY <1>2, RaiseKept DEF StartRequest, Raise, Faults
<1> QED
  BY <1>1, <1>2

LEMMA PeerReadyKept ==
    ASSUME Compiled, Kept, fault = "none", PeerReady
    PROVE  Kept'
<1>1. /\ TypeOK /\ IInv' /\ reserved = None /\ app[req.app] = "open"
      /\ Reserved = {}
  BY PeerReadyInv DEF PeerReady, Kept, IInv, Bookkeeping, Attended, Reserved
<1>2. CASE req.type = "CK" /\ (req.role = "create" => HasMemory(req.app))
  <2>1. AllocateCommOrWait(allocated) /\ UNCHANGED <<app, mapping, req, freed, meas, fault>>
    BY <1>2 DEF PeerReady
  <2> QED
    BY <1>1, <2>1, AllocateCommReserves, ReserveKept
<1>3. CASE req.type = "CK" /\ req.role = "create" /\ ~HasMemory(req.app)
  BY <1>3, RaiseKept DEF PeerReady, Raise, Faults
<1>4. CASE req.type = "MD" /\ FreeOf(CommQubits) # {}
  <2> DEFINE p == Min(FreeOf(CommQubits))
  <2>1. p # None
    BY <1>4, MinInSet, ConstantFacts DEF FreeOf
  <2>2. /\ allocated' = allocated \cup {p} /\ reserved' = p
        /\ UNCHANGED <<app, mapping, req, freed, meas, fault>>
    BY <1>4 DEF PeerReady
  <2> HIDE DEF p
  <2>3. allocated' \subseteq (allocated \ Reserved) \cup Reserved'
    BY <1>1, <2>1, <2>2 DEF Reserved
  <2> QED
    BY <1>1, <2>2, <2>3, ReserveKept
<1>5. CASE req.type = "MD" /\ FreeOf(CommQubits) = {}
  BY <1>5, RaiseKept DEF PeerReady, Raise, Faults
<1> QED
  BY <1>1, <1>2, <1>3, <1>4, <1>5 DEF TypeOK, Requests, Types

LEMMA HandleFreedKept ==
    ASSUME Compiled, Kept, fault = "none", HandleFreed
    PROVE  Kept'
<1>1. TypeOK /\ IInv' /\ UNCHANGED <<app, mapping, req, meas, fault>>
  BY HandleFreedInv DEF HandleFreed, Kept, IInv
<1>2. CASE nstk = "ck_wait"
  <2>1. reserved = None /\ AllocateCommOrWait(allocated) /\ app[req.app] = "open"
    BY <1>2 DEF HandleFreed, Kept, IInv, Bookkeeping, Attended
  <2>2. allocated' \subseteq (allocated \ Reserved) \cup Reserved'
    BY <1>1, <2>1, AllocateCommReserves DEF Reserved
  <2> QED
    BY <1>1, <2>1, <2>2, ReserveKept
<1>3. CASE nstk # "ck_wait"
  <2>1. UNCHANGED <<allocated, reserved, nstk>>
    BY <1>3 DEF HandleFreed
  <2>2. allocated' \subseteq (allocated \ Reserved) \cup Reserved'
    BY <2>1 DEF Reserved
  <2> QED
    BY <1>1, <2>1, <2>2, ReserveKept DEF Kept, Attended
<1> QED
  BY <1>2, <1>3

(* The qubit that was reserved is mapped for an application that is open, at *)
(* a virtual qubit that was not mapped.                                      *)
LEMMA PairDeliveredKept ==
    ASSUME Compiled, Kept, fault = "none", NEW v \in Virt, PairDelivered(v)
    PROVE  Kept'
<1>1. /\ TypeOK /\ IInv' /\ req \in Requests /\ req.app \in Apps /\ app[req.app] = "open"
      /\ mapping[req.app][v] = None
  BY PairDeliveredInv DEF PairDelivered, Kept, IInv, Attended, TypeOK, Requests
<1>2. /\ mapping' = [mapping EXCEPT ![req.app][v] = reserved]
      /\ req' = [req EXCEPT !.left = @ - 1]
      /\ UNCHANGED <<app, freed, meas, fault>>
      /\ \/ AllocateCommOrWait(allocated)
         \/ allocated' = allocated /\ reserved' = None
  BY <1>1 DEF PairDelivered, NextPair, HasMemory
<1>3. allocated' = allocated \cup Reserved'
  BY <1>1, <1>2, AllocateCommReserves DEF Reserved
<1>4. \A b \in Apps, w \in Virt :
         mapping'[b][w] = IF b = req.app /\ w = v THEN reserved ELSE mapping[b][w]
  BY <1>1, <1>2 DEF TypeOK
<1>5. req'.app = req.app
  BY <1>1, <1>2 DEF Requests
<1>6. Attended'
  BY <1>1, <1>2, <1>4, <1>5, ConstantFacts DEF Kept, Attended, TypeOK, Measurements
<1>7. ASSUME NEW q \in allocated', q \notin InFlight'
      PROVE  Maps(q)'
  <2>1. q \in allocated /\ q \notin MoveTarget \cup MoveSource
    BY <1>2, <1>3, <1>7 DEF InFlight, MoveTarget, MoveSource
  <2>2. CASE q = reserved
    BY <1>1, <1>2, <1>4, <2>2 DEF Maps, HasMemory
  <2>3. CASE q # reserved
    <3>1. q \notin InFlight /\ q # None
      BY <1>1, <2>1, <2>3, ConstantFacts DEF InFlight, Reserved, TypeOK
    <3>2. PICK b \in Apps, w \in Virt : HasMemory(b) /\ mapping[b][w] = q
      BY <2>1, <3>1 DEF Kept, Accounted, Maps
    <3>3. mapping'[b][w] = q
      BY <1>1, <1>4, <3>1, <3>2
    <3> QED
      BY <1>2, <3>2, <3>3 DEF Maps, HasMemory
  <2> QED
    BY <2>2, <2>3
<1> QED
  BY <1>1, <1>6, <1>7 DEF Kept, Accounted

LEMMA PairMeasuredKept ==
    ASSUME Compiled, Kept, fault = "none", PairMeasured
    PROVE  Kept'
<1>1. /\ TypeOK /\ IInv' /\ req \in Requests /\ app[req.app] = "open"
      /\ reserved # None /\ reserved \in Phys /\ reserved \in CommQubits
      /\ req.left \in Nat
  <2>1. IInv' /\ nstk = "md_pair" /\ TypeOK /\ req \in Requests
    BY PairMeasuredInv DEF PairMeasured, Kept, IInv, TypeOK
  <2>2. reserved # None /\ reserved \in CommQubits /\ app[req.app] = "open"
    BY <2>1 DEF Kept, IInv, Bookkeeping, Attended
  <2>3. req.left \in Nat
    BY <2>1, QubitMemoryAssumption DEF Requests
  <2> QED
    BY <2>1, <2>2, <2>3, ConstantFacts
<1>2. CASE req.left > 1
  <2> DEFINE rest == allocated \ {reserved}
             p == Min(CommQubits \ rest)
  <2>1. p # None
    BY <1>1, MinInSet, ConstantFacts
  <2>2. /\ allocated' = (allocated \ {reserved}) \cup {p} /\ reserved' = p
        /\ req' = [req EXCEPT !.left = @ - 1]
        /\ UNCHANGED <<app, mapping, nstk, freed, meas, fault>>
    <3>1. ~(req.left =< 1)
      BY <1>1, <1>2
    <3> QED
      BY <3>1 DEF PairMeasured, NextPair
  <2> HIDE DEF p
  <2>3. allocated' \subseteq (allocated \ Reserved) \cup Reserved' /\ req'.app = req.app
    BY <1>1, <2>1, <2>2 DEF Reserved, Requests
  <2> QED
    BY <1>1, <2>2, <2>3, ReserveKept
<1>3. CASE ~(req.left > 1)
  <2>1. /\ allocated' = allocated \ {reserved} /\ nstk' = "idle"
        /\ UNCHANGED <<app, mapping, freed, meas, fault>>
    BY <1>1, <1>3 DEF PairMeasured, HasMemory
  <2>2. allocated' \subseteq (allocated \ Reserved) \cup Reserved'
    BY <2>1 DEF Reserved
  <2> QED
    BY <1>1, <2>1, <2>2, ReserveKept
<1> QED
  BY <1>2, <1>3

(* Every step of a compiled program keeps account of the allocated qubits.   *)
LEMMA NextKept ==
    ASSUME Compiled, Kept, [Next]_vars
    PROVE  Kept'
<1>1. CASE Next
  <2>1. fault = "none"
    BY <1>1 DEF Next
  <2>2. CASE Handler
    BY <2>1, <2>2, HandlerKept DEF Handler
  <2>3. CASE Processor
    BY <2>1, <2>3, QAllocKept, QFreeKept, MeasCarbonKept, MeasMovedOutKept, MeasMovedInKept
       DEF Processor
  <2>4. CASE Netstack
    BY <2>1, <2>4, StartRequestKept, PeerReadyKept, HandleFreedKept, PairDeliveredKept,
       PairMeasuredKept DEF Netstack
  <2> QED
    BY <1>1, <2>2, <2>3, <2>4 DEF Next
<1>2. CASE UNCHANGED vars
  BY <1>2 DEF vars, Kept, Attended, Accounted, Maps, HasMemory, IInv, TypeOK, NoSharing,
         HeldIsAllocated, Bookkeeping, InFlight, Reserved, MoveTarget, MoveSource
<1> QED
  BY <1>1, <1>2

(* No sequence of allocations, frees, measurements and requests of compiled  *)
(* programs, however they interleave, leaves a qubit allocated that nobody   *)
(* can free any more.                                                        *)
THEOREM NothingLeaks == ASSUME Compiled PROVE Spec => []NoLeak
<1>1. Init => Kept
  BY InitInv DEF Init, Kept, Attended, Accounted
<1>2. Kept /\ [Next]_vars => Kept'
  BY NextKept
<1>3. Kept => NoLeak
  BY HoldersMap DEF Kept
<1> QED
  BY <1>1, <1>2, <1>3, PTL DEF Spec

-----------------------------------------------------------------------------
(* With one application open at a time, no wakeup is missed.                 *)

(* Only a host that keeps a single application open is covered: with two,    *)
(* stopping one of them frees qubits without a signal.                       *)
Open == {a \in Apps : app[a] = "open"}
OneOpen == IsFiniteSet(Open) /\ \A a, b \in Open : a = b

LEMMA OneOpenNext ==
    ASSUME Compiled, MaxOpen =< 1, Kept, OneOpen, [Next]_vars
    PROVE  OneOpen'
<1>1. app \in [Apps -> {"new", "open", "kept", "gone"}]
  BY DEF Kept, IInv, TypeOK
<1>2. CASE app' = app
  BY <1>2 DEF OneOpen, Open
<1>3. ASSUME NEW a \in Apps, InitNewApp(a)
      PROVE  OneOpen'
  <2>1. Cardinality(Open) < MaxOpen
    BY <1>3 DEF InitNewApp, Open
  <2>2. Cardinality(Open) = 0
    BY <2>1, FS_CardinalityType, QubitMemoryAssumption DEF OneOpen
  <2>3. Open = {}
    BY <2>2, FS_EmptySet DEF OneOpen
  <2>4. Open' = {a}
    BY <1>1, <1>3, <2>3 DEF InitNewApp, Open
  <2> QED
    BY <2>4, FS_Singleton DEF OneOpen
<1>4. ASSUME NEW a \in Apps, StopApplication(a)
      PROVE  OneOpen'
  <2>1. Open' \subseteq Open
    BY <1>1, <1>4 DEF StopApplication, Open
  <2> QED
    BY <2>1, FS_Subset DEF OneOpen
<1>5. CASE Processor \/ Netstack \/ UNCHANGED vars
  BY <1>2, <1>5 DEF Processor, Netstack, QAlloc, QFree, MeasCarbon, MeasMovedOut,
         MeasMovedIn, StartRequest, PeerReady, HandleFreed, PairDelivered, PairMeasured,
         Raise, vars
<1> QED
  BY <1>3, <1>4, <1>5 DEF Next, Handler

(* A request that goes to sleep has found every communication qubit taken.   *)
LEMMA SleepsForAReason ==
    ASSUME AllocateCommOrWait(allocated)
    PROVE  nstk' = "ck_wait" => FreeOf(CommQubits)' = {}
<1>1. CASE CommQubits \ allocated # {}
  BY <1>1 DEF AllocateCommOrWait
<1>2. CASE CommQubits \ allocated = {}
  BY <1>2 DEF AllocateCommOrWait, FreeOf
<1> QED
  BY <1>1, <1>2

(* While a request sleeps, only the processor frees a qubit, with a signal:  *)
(* the application of the request is the one that is open, and does not stop.*)
LEMMA NoMissedWakeupNext ==
    ASSUME Compiled, Kept, OneOpen, NoMissedWakeup, [Next]_vars
    PROVE  NoMissedWakeup'
<1>1. freed \in Nat /\ nstk = "ck_wait" => app[req.app] = "open" /\ req.app \in Apps
  BY DEF Kept, IInv, TypeOK, Attended, Requests
<1>2. CASE UNCHANGED <<allocated, nstk, freed>>
  BY <1>2 DEF NoMissedWakeup, FreeOf
<1>3. CASE allocated \subseteq allocated' /\ UNCHANGED <<nstk, freed>>
  BY <1>3 DEF NoMissedWakeup, FreeOf
<1>4. CASE nstk' # "ck_wait"
  BY <1>4 DEF NoMissedWakeup
<1>5. CASE freed' = freed + 1
  BY <1>5 DEF NoMissedWakeup, Kept, IInv, TypeOK
<1>6. CASE AllocateCommOrWait(allocated)
  BY <1>6, SleepsForAReason DEF NoMissedWakeup
<1>7. CASE UNCHANGED vars
  BY <1>2, <1>7 DEF vars
<1>8. ASSUME NEW a \in Apps, InitNewApp(a) \/ StopApplication(a), nstk' = "ck_wait"
      PROVE  NoMissedWakeup'
  <2>1. nstk = "ck_wait"
    BY <1>8 DEF InitNewApp, StopApplication
  <2>2. ~StopApplication(a)
    BY <1>1, <2>1 DEF StopApplication, Busy, OneOpen, Open, Kept, Attended, IInv, TypeOK, Requests
  <2> QED
    BY <1>2, <1>8, <2>2 DEF InitNewApp
<1>9. CASE Processor
  <2>1. ASSUME NEW a \in Apps, NEW v \in Virt, QAlloc(a, v) \/ QFree(a, v) \/ MeasCarbon(a, v)
        PROVE  NoMissedWakeup'
    BY <1>2, <1>3, <1>5, <2>1 DEF QAlloc, QFree, MeasCarbon, Raise
  <2>2. CASE MeasMovedOut \/ MeasMovedIn
    BY <1>2, <1>5, <2>2 DEF MeasMovedOut, MeasMovedIn, Raise
  <2> QED
    BY <1>9, <2>1, <2>2 DEF Processor
<1>10. CASE Netstack
  <2>1. ASSUME NEW r \in NewRequests, StartRequest(r)
        PROVE  NoMissedWakeup'
    BY <1>2, <1>4, <2>1 DEF StartRequest, Raise
  <2>2. CASE PeerReady
    BY <1>2, <1>4, <1>6, <2>2 DEF PeerReady, Raise
  <2>3. CASE HandleFreed
    BY <1>4, <1>6, <2>3 DEF HandleFreed
  <2>4. ASSUME NEW v \in Virt, PairDelivered(v)
        PROVE  NoMissedWakeup'
    BY <1>2, <1>4, <1>6, <2>4 DEF PairDelivered, Raise
  <2>5. CASE PairMeasured
    <3>1. nstk' # "ck_wait"
      BY <2>5 DEF PairMeasured, Raise
    <3> QED
      BY <1>4, <3>1
  <2> QED
    BY <1>10, <2>1, <2>2, <2>3, <2>4, <2>5 DEF Netstack
<1> QED
  BY <1>4, <1>7, <1>8, <1>9, <1>10 DEF Next, Handler

(* The network stack never sleeps on a free communication qubit with no      *)
(* signal on its way: with compiled programs and one open application, the   *)
(* poll and the wait for SIGNAL_MEMORY_FREED leave no gap.                   *)
THEOREM NoWakeupMissed ==
    ASSUME Compiled, MaxOpen =< 1 PROVE Spec => []NoMissedWakeup
<1> DEFINE J == Kept /\ OneOpen /\ NoMissedWakeup
<1>1. Init => J
  <2>1. Init => Open = {}
    BY DEF Init, Open
  <2> QED
    BY <2>1, InitInv, FS_EmptySet
       DEF Init, Kept, Attended, Accounted, OneOpen, NoMissedWakeup
<1>2. J /\ [Next]_vars => J'
  BY NextKept, OneOpenNext, NoMissedWakeupNext
<1>3. J => NoMissedWakeup
  OBVIOUS
<1> HIDE DEF J
<1> QED
  BY <1>1, <1>2, <1>3, PTL DEF Spec
=============================================================================
