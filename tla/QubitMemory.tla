---------------------------- MODULE QubitMemory ----------------------------
(***************************************************************************)
(* The quantum memory of one node and everybody who works on it.           *)
(*                                                                         *)
(* A node keeps one PhysicalQuantumMemory (which physical qubits are       *)
(* allocated) and, per application, an AppMemory whose `_virt_qubits` maps *)
(* virtual qubit IDs to physical ones (sim/stack/common.py).  Three        *)
(* protocols change them without any lock, each between two of its yields: *)
(*                                                                         *)
(*   - the processor (qalloc, qfree and, on NV hardware, the moves that    *)
(*     a measurement needs),                                               *)
(*   - the network stack (a communication qubit per EPR pair), and         *)
(*   - the handler (opening and stopping applications).                    *)
(*                                                                         *)
(* One action is what runs between two yields.  The remote node, the EGP   *)
(* and the application code decide only WHEN an action happens and with    *)
(* which arguments.                                                        *)
(***************************************************************************)
EXTENDS Integers, FiniteSets, FiniteSetsExt

CONSTANTS
    Apps,           \* application IDs the handler may hand out
    NumQubits,      \* qubit_count of the physical memory
    NV,             \* TRUE: NVProcessor and NVPhysicalQuantumMemory
    ClearMemory,    \* Handler._should_clear_memory
    Compiled,       \* TRUE: applications keep to what the SDK compiles (below)
    MaxOpen,        \* bound: applications a host keeps open at the same time
    MaxPairs,       \* bound: pairs per EPR request
    MaxFreed        \* bound: SIGNAL_MEMORY_FREED events not yet handled

ASSUME QubitMemoryAssumption ==
    /\ NumQubits \in Nat \ {0}
    /\ NV \in BOOLEAN /\ ClearMemory \in BOOLEAN /\ Compiled \in BOOLEAN
    /\ MaxOpen \in Nat /\ MaxPairs \in Nat /\ MaxFreed \in Nat

Phys == 0 .. NumQubits - 1
Virt == 0 .. NumQubits - 1    \* init_new_app sizes every AppMemory by qubit_count
None == -1

CommQubits == IF NV THEN {0} ELSE Phys

VARIABLES
    allocated,  \* PhysicalQuantumMemory._allocated_ids
    app,        \* app[a]: "new", "open", "kept" (stopped, memory kept) or "gone"
    mapping,    \* mapping[a]: AppMemory._virt_qubits (the object outlives "gone")
    nstk,       \* where the netstack's generator is suspended
    req,        \* the EPR request the netstack works on
    reserved,   \* the netstack's local `phys_id` while the EGP makes the pair
    freed,      \* SIGNAL_MEMORY_FREED events sent and not yet handled
    meas,       \* the NV processor's suspended measurement
    fault       \* the exception that ended the simulation, or "none"

vars == <<allocated, app, mapping, nstk, req, reserved, freed, meas, fault>>

Roles == {"create", "recv"}
Types == {"CK", "MD"}
Requests == [app : Apps, role : Roles, type : Types, left : 0 .. MaxPairs]
Measurements == [pc : {"idle", "move_out", "move_in"}, app : Apps,
                 virt : Virt, old : Phys, new : Phys \cup {None}]

\* The exceptions that end the simulation.
Faults == {
    "AllocError in qalloc",
    "AssertionError in qfree",
    "UnboundLocalError: new_qubit",
    "RuntimeError: no virtual ID for the electron",
    "KeyError: arguments of a stopped application",
    "KeyError: create request of a stopped application",
    "AllocError in a measure-directly request",
    "KeyError: pair of a stopped application",
    "KeyError: results of a stopped application"}

HasMemory(a) == app[a] \in {"open", "kept"}    \* a is a key of app_memories
FreeOf(S) == S \ allocated

\* The network stack still has work to do for application a.
Busy(a) == nstk # "idle" /\ req.app = a

-----------------------------------------------------------------------------
Init ==
    /\ allocated = {}
    /\ app = [a \in Apps |-> "new"]
    /\ mapping = [a \in Apps |-> [v \in Virt |-> None]]
    /\ nstk = "idle"
    /\ req \in [app : Apps, role : {"create"}, type : {"CK"}, left : {0}]
    /\ reserved = None
    /\ freed = 0
    /\ meas \in [pc : {"idle"}, app : Apps, virt : {0}, old : {0}, new : {None}]
    /\ fault = "none"

Raise(what) ==
    /\ fault' = what
    /\ UNCHANGED <<allocated, app, mapping, nstk, req, reserved, freed, meas>>

-----------------------------------------------------------------------------
(* The handler.  It is blocked in assign_processor while a subroutine runs,  *)
(* so it never acts in the middle of a measurement.                          *)

InitNewApp(a) ==
    /\ meas.pc = "idle"
    /\ app[a] = "new"
    /\ Cardinality({b \in Apps : app[b] = "open"}) < MaxOpen
    /\ app' = [app EXCEPT ![a] = "open"]
    /\ UNCHANGED <<allocated, mapping, nstk, req, reserved, freed, meas, fault>>

\* Mutant of StopApplication: the virtual IDs are not unmapped.
StopApplicationKeepsMap(a) ==
    /\ meas.pc = "idle"
    /\ app[a] = "open"
    /\ allocated' = allocated \ {mapping[a][v] : v \in Virt}
    /\ app' = [app EXCEPT ![a] = "gone"]
    /\ UNCHANGED <<mapping, nstk, req, reserved, freed, meas, fault>>

\* clear_application frees every mapped qubit and sends no signal.  A compiled
\* program ends each request with a wait_all, so it stops with none pending.
StopApplication(a) ==
    /\ meas.pc = "idle"
    /\ app[a] = "open"
    /\ Compiled => ~Busy(a)
    /\ IF ClearMemory
         THEN /\ allocated' = allocated \ {mapping[a][v] : v \in Virt}
              /\ mapping' = [mapping EXCEPT ![a] = [v \in Virt |-> None]]
              /\ app' = [app EXCEPT ![a] = "gone"]
         ELSE /\ app' = [app EXCEPT ![a] = "kept"]
              /\ UNCHANGED <<allocated, mapping>>
    /\ UNCHANGED <<nstk, req, reserved, freed, meas, fault>>

-----------------------------------------------------------------------------
(* The processor.                                                            *)

CanExecute(a) == meas.pc = "idle" /\ app[a] = "open"

\* Mutant of Allocatable: the scan over the IDs runs one too far.
AllocatableOneTooMany(v) == FreeOf(0 .. NumQubits)

\* The qubits qalloc may choose from: NV virtual IDs above 0 are memory qubits.
Allocatable(v) ==
    FreeOf(IF ~NV THEN Phys ELSE IF v > 0 THEN Phys \ CommQubits ELSE CommQubits)

\* A compiled program only allocates virtual IDs that it does not hold.
QAlloc(a, v) ==
    /\ CanExecute(a)
    /\ Compiled => mapping[a][v] = None
    /\ \/ /\ Allocatable(v) # {}
          /\ LET p == Min(Allocatable(v))
             IN  /\ allocated' = allocated \cup {p}
                 /\ mapping' = [mapping EXCEPT ![a][v] = p]
          /\ UNCHANGED <<app, nstk, req, reserved, freed, meas, fault>>
       \/ /\ Allocatable(v) = {}
          /\ Raise("AllocError in qalloc")

\* Mutant of QFree: no SIGNAL_MEMORY_FREED.
QFreeNoSignal(a, v) ==
    /\ CanExecute(a)
    /\ mapping[a][v] # None
    /\ mapping' = [mapping EXCEPT ![a][v] = None]
    /\ allocated' = allocated \ {mapping[a][v]}
    /\ UNCHANGED <<app, nstk, req, reserved, freed, meas, fault>>

QFree(a, v) ==
    /\ CanExecute(a)
    /\ freed < MaxFreed
    /\ Compiled => mapping[a][v] # None
    /\ \/ /\ mapping[a][v] # None
          /\ mapping' = [mapping EXCEPT ![a][v] = None]
          /\ allocated' = allocated \ {mapping[a][v]}
          /\ freed' = freed + 1
          /\ UNCHANGED <<app, nstk, req, reserved, meas, fault>>
       \/ /\ mapping[a][v] = None
          /\ Raise("AssertionError in qfree")

\* NVProcessor._interpret_meas of a carbon, up to its first yield.  If the
\* electron (physical qubit 0) is taken, a fresh qubit is allocated to move it
\* to; otherwise the electron is taken and the carbon is remapped to it.
\* (Measuring the electron itself changes none of these variables, and an
\* unmapped virtual qubit raises in the device.)
MeasCarbon(a, v) ==
    /\ NV
    /\ CanExecute(a)
    /\ freed < MaxFreed
    /\ mapping[a][v] \notin {None, 0}
    /\ LET old == mapping[a][v]
       IN  \/ /\ 0 \notin allocated
              /\ allocated' = allocated \cup {0}
              /\ mapping' = [mapping EXCEPT ![a][v] = 0]
              /\ meas' = [pc |-> "move_in", app |-> a, virt |-> v,
                          old |-> old, new |-> None]
              /\ UNCHANGED <<app, nstk, req, reserved, freed, fault>>
           \/ /\ 0 \in allocated
              /\ FreeOf(Phys) # {}
              /\ LET new == Min(FreeOf(Phys))
                 IN  /\ allocated' = allocated \cup {new}
                     /\ meas' = [pc |-> "move_out", app |-> a, virt |-> v,
                                 old |-> old, new |-> new]
              /\ UNCHANGED <<app, mapping, nstk, req, reserved, freed, fault>>
           \/ /\ 0 \in allocated
              /\ FreeOf(Phys) = {}
              /\ Raise("UnboundLocalError: new_qubit")

\* Qnos.get_virt_qubit_for_phys_id: the virtual qubits an AppMemory maps to p.
HoldersOf(p) == {h \in Apps \X Virt : HasMemory(h[1]) /\ mapping[h[1]][h[2]] = p}

\* Mutant of MeasMovedOut: the electron's owner is not remapped.
MeasMovedOutNoRemap ==
    /\ meas.pc = "move_out"
    /\ HoldersOf(0) # {}
    /\ mapping' = [mapping EXCEPT ![meas.app][meas.virt] = 0]
    /\ meas' = [meas EXCEPT !.pc = "move_in", !.new = None]
    /\ UNCHANGED <<allocated, app, nstk, req, reserved, freed, fault>>

\* The electron was moved out to the fresh qubit: remap it, then the carbon.
MeasMovedOut ==
    /\ meas.pc = "move_out"
    /\ \/ \E h \in HoldersOf(0) :
             /\ mapping' = [mapping EXCEPT ![h[1]][h[2]] = meas.new,
                                           ![meas.app][meas.virt] = 0]
             /\ meas' = [meas EXCEPT !.pc = "move_in", !.new = None]
             /\ UNCHANGED <<allocated, app, nstk, req, reserved, freed, fault>>
       \/ /\ HoldersOf(0) = {}
          /\ Raise("RuntimeError: no virtual ID for the electron")

\* Mutant of MeasMovedIn: the carbon's old position is not freed.
MeasMovedInNoFree ==
    /\ meas.pc = "move_in"
    /\ freed' = freed + 1
    /\ meas' = [meas EXCEPT !.pc = "idle"]
    /\ UNCHANGED <<allocated, app, mapping, nstk, req, reserved, fault>>

\* The carbon was moved to the electron: its old position is freed and the
\* signal sent.  The measurement of the electron that follows yields, but
\* changes none of these variables.
MeasMovedIn ==
    /\ meas.pc = "move_in"
    /\ allocated' = allocated \ {meas.old}
    /\ freed' = freed + 1
    /\ meas' = [meas EXCEPT !.pc = "idle"]
    /\ UNCHANGED <<app, mapping, nstk, req, reserved, fault>>

-----------------------------------------------------------------------------
(* The network stack: one request at a time.                                 *)

\* handle_create_request reads the arguments array of the application first;
\* handle_receive_request looks at no memory before the first pair is there.
StartRequest(r) ==
    /\ nstk = "idle"
    /\ app[r.app] # "new"
    /\ Compiled => app[r.app] = "open"
    /\ \/ /\ r.role = "create" => HasMemory(r.app)
          /\ nstk' = "handshake"
          /\ req' = r
          /\ UNCHANGED <<allocated, app, mapping, reserved, freed, meas, fault>>
       \/ /\ r.role = "create" /\ ~HasMemory(r.app)
          /\ Raise("KeyError: arguments of a stopped application")

\* Mutant of AllocateCommOrWait: allocate instead of allocate_comm.
AllocateAnyOrWait(alloc) ==
    /\ Phys \ alloc # {}
    /\ allocated' = alloc \cup {Min(Phys \ alloc)}
    /\ reserved' = Min(Phys \ alloc)
    /\ nstk' = "ck_pair"

\* allocate_comm in the loop of a CK request: on AllocError the netstack waits.
AllocateCommOrWait(alloc) ==
    IF CommQubits \ alloc # {}
      THEN LET p == Min(CommQubits \ alloc)
           IN  /\ allocated' = alloc \cup {p}
               /\ reserved' = p
               /\ nstk' = "ck_pair"
      ELSE /\ allocated' = alloc
           /\ reserved' = None
           /\ nstk' = "ck_wait"

\* The peer answered.  The creator of a CK request captures `app_mem` here;
\* an MD request allocates its first qubit with no handler for AllocError.
PeerReady ==
    /\ nstk = "handshake"
    /\ \/ /\ req.type = "CK"
          /\ req.role = "create" => HasMemory(req.app)
          /\ AllocateCommOrWait(allocated)
          /\ UNCHANGED <<app, mapping, req, freed, meas, fault>>
       \/ /\ req.type = "CK" /\ req.role = "create" /\ ~HasMemory(req.app)
          /\ Raise("KeyError: create request of a stopped application")
       \/ /\ req.type = "MD"
          /\ FreeOf(CommQubits) # {}
          /\ allocated' = allocated \cup {Min(FreeOf(CommQubits))}
          /\ reserved' = Min(FreeOf(CommQubits))
          /\ nstk' = "md_pair"
          /\ UNCHANGED <<app, mapping, req, freed, meas, fault>>
       \/ /\ req.type = "MD"
          /\ FreeOf(CommQubits) = {}
          /\ Raise("AllocError in a measure-directly request")

\* A SIGNAL_MEMORY_FREED event is handled: it wakes the netstack if it waits
\* for one, and is lost otherwise.
HandleFreed ==
    /\ freed > 0
    /\ freed' = freed - 1
    /\ IF nstk = "ck_wait"
         THEN AllocateCommOrWait(allocated)
         ELSE UNCHANGED <<allocated, reserved, nstk>>
    /\ UNCHANGED <<app, mapping, req, meas, fault>>

NextPair == req' = [req EXCEPT !.left = @ - 1]

\* A kept pair was delivered: map it for the application at virtual ID v, which
\* the netstack reads from the qubit array only now; go on with the next pair.
\* The creator writes through the memory object it captured, the receiver
\* looks the memory up again.
PairDelivered(v) ==
    /\ nstk = "ck_pair"
    /\ Compiled => mapping[req.app][v] = None
    /\ \/ /\ req.role = "recv" => HasMemory(req.app)
          /\ mapping' = [mapping EXCEPT ![req.app][v] = reserved]
          /\ NextPair
          /\ IF req.left > 1
               THEN AllocateCommOrWait(allocated)
               ELSE /\ nstk' = "idle"
                    /\ reserved' = None
                    /\ UNCHANGED allocated
          /\ UNCHANGED <<app, freed, meas, fault>>
       \/ /\ req.role = "recv" /\ ~HasMemory(req.app)
          /\ Raise("KeyError: pair of a stopped application")

\* A pair was measured by the EGP: free its qubit (no signal), and allocate the
\* next one; after the last pair look up the memory and write all results.
PairMeasured ==
    /\ nstk = "md_pair"
    /\ \/ /\ req.left > 1
          /\ LET rest == allocated \ {reserved}
             IN  /\ allocated' = rest \cup {Min(CommQubits \ rest)}
                 /\ reserved' = Min(CommQubits \ rest)
          /\ NextPair
          /\ UNCHANGED <<app, mapping, nstk, freed, meas, fault>>
       \/ /\ req.left <= 1 /\ HasMemory(req.app)
          /\ allocated' = allocated \ {reserved}
          /\ reserved' = None
          /\ nstk' = "idle"
          /\ NextPair
          /\ UNCHANGED <<app, mapping, freed, meas, fault>>
       \/ /\ req.left <= 1 /\ ~HasMemory(req.app)
          /\ Raise("KeyError: results of a stopped application")

-----------------------------------------------------------------------------
NewRequests == {r \in Requests : r.left > 0}

Handler == \E a \in Apps : InitNewApp(a) \/ StopApplication(a)

Processor ==
    \/ \E a \in Apps, v \in Virt : QAlloc(a, v) \/ QFree(a, v) \/ MeasCarbon(a, v)
    \/ MeasMovedOut
    \/ MeasMovedIn

Netstack ==
    \/ \E r \in NewRequests : StartRequest(r)
    \/ PeerReady
    \/ HandleFreed
    \/ \E v \in Virt : PairDelivered(v)
    \/ PairMeasured

Next == fault = "none" /\ (Handler \/ Processor \/ Netstack)

Spec == Init /\ [][Next]_vars

-----------------------------------------------------------------------------
(* Correctness.                                                              *)

\* Every variable stays within its type.
TypeOK ==
    /\ allocated \subseteq Phys
    /\ app \in [Apps -> {"new", "open", "kept", "gone"}]
    /\ mapping \in [Apps -> [Virt -> Phys \cup {None}]]
    /\ nstk \in {"idle", "handshake", "ck_wait", "ck_pair", "md_pair"}
    /\ req \in Requests
    /\ reserved \in Phys \cup {None}
    /\ freed \in Nat
    /\ meas \in Measurements
    /\ fault \in Faults \cup {"none"}

\* The qubits that only a suspended protocol knows of: the pair in the making,
\* the target of the electron's move, the carbon still to be freed.
Reserved == {reserved} \ {None}
MoveTarget == IF meas.pc = "move_out" THEN {meas.new} ELSE {}
MoveSource == IF meas.pc = "move_in" THEN {meas.old} ELSE {}
InFlight == Reserved \cup MoveTarget \cup MoveSource

\* No two virtual qubits, of one application or of two, are ever the same
\* physical qubit, and no qubit that a pair in the making or a move uses is
\* mapped for an application: whatever the program does and however the three
\* protocols interleave, an application's qubit is its own.
NoSharing ==
    /\ \A a, b \in Apps : \A v, w \in Virt :
          (mapping[a][v] # None /\ mapping[a][v] = mapping[b][w])
             => (a = b /\ v = w)
    /\ \A a \in Apps, v \in Virt : mapping[a][v] \notin InFlight
    /\ reserved \notin MoveTarget \cup MoveSource

\* Every qubit somebody holds is marked allocated, so it is never handed out a
\* second time, and PhysicalQuantumMemory.free, whose set.remove raises
\* KeyError for an unallocated ID, never does.
HeldIsAllocated ==
    /\ \A a \in Apps, v \in Virt : mapping[a][v] \in allocated \cup {None}
    /\ InFlight \subseteq allocated

\* What makes the two invariants above inductive: a pair is in the making
\* exactly while a communication qubit is reserved for it, and pairs are left
\* until the request is done; and while the
\* electron is moved out, the carbon to be measured stays allocated and is
\* nobody else's, even if its virtual ID is meanwhile remapped.
Bookkeeping ==
    /\ nstk \in {"ck_pair", "md_pair"} <=> reserved # None
    /\ reserved \in CommQubits \cup {None}
    /\ nstk # "idle" => req.left > 0
    /\ meas.pc = "move_out" =>
          /\ meas.new # None
          /\ meas.old \in allocated \ {0, meas.new, reserved}
          /\ \A a \in Apps, v \in Virt :
                mapping[a][v] = meas.old => a = meas.app /\ v = meas.virt

IInv == TypeOK /\ NoSharing /\ HeldIsAllocated /\ Bookkeeping

\* Compiled programs never lose a qubit: what is marked allocated is held by an
\* application that can still free it, or by a step in progress.
NoLeak ==
    fault = "none" =>
        \A p \in allocated : p \in InFlight \/ HoldersOf(p) # {}

\* With one open application at a time and compiled programs, the netstack
\* never sleeps on a free communication qubit: a SIGNAL_MEMORY_FREED event is
\* then still on its way to it.  (It polls, then waits for the signal; the
\* frees of the handler and of measure-directly requests send none.)
NoMissedWakeup ==
    (nstk = "ck_wait" /\ FreeOf(CommQubits) # {}) => freed > 0

-----------------------------------------------------------------------------
(* What the documentation says and the code does not do.                     *)

\* _interpret_meas says measuring a carbon "requires freeing up the electron":
\* an allocated electron is moved to a free carbon.  It is looked up by its
\* virtual ID, which a pair in the making does not have yet.
MeasureFindsElectron == fault # "RuntimeError: no virtual ID for the electron"
=============================================================================
