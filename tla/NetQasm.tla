------------------------------ MODULE NetQasm ------------------------------
(***************************************************************************)
(* What a NetQASM subroutine means: its instructions are executed one by   *)
(* one on the application's registers, arrays and virtual qubits           *)
(* (sim/stack/processor.py on AppMemory of sim/stack/common.py), and the   *)
(* results of an EPR request are there as soon as it is made.              *)
(*                                                                         *)
(* A virtual qubit is a queue of qubits, used at its head: a request may   *)
(* name the same virtual ID for several pairs, as the SDK does for a       *)
(* sequential request, and the program uses and frees one after the other. *)
(*                                                                         *)
(* An instruction that would raise is not enabled.                         *)
(***************************************************************************)
EXTENDS Integers, Sequences, TLC

CONSTANTS
    Programs,       \* the applications' programs: see NetQasmAssumption
    None,           \* an undefined register or array entry
    PairLen,        \* array entries for the result of one pair
    MaxPairs,       \* bound: pairs of a request
    Outcomes        \* outcomes of a pair or of a measurement

\* A program: its subroutines, the registers they use, the number of virtual
\* qubits, the size of the device, and what some registers hold in the end.
ASSUME NetQasmAssumption ==
    /\ {PairLen, MaxPairs} \subseteq Nat \ {0}
    /\ Outcomes \subseteq Nat
    /\ \A p \in Programs :
          /\ {p.maxQubits, p.device} \subseteq Nat
          /\ \A s \in DOMAIN p.code : \A i \in DOMAIN p.code[s] :
                p.code[s][i].op \in STRING
          /\ DOMAIN p.result \subseteq p.registers

VARIABLES
    program,    \* the program being run; never changes
    sub,        \* the subroutine being executed
    pc,         \* _prog_counter
    regs,       \* _registers
    arrays,     \* _arrays: address -> (index -> value)
    qubits      \* _virt_qubits: virtual ID -> the qubits it stands for

memory == <<regs, arrays, qubits>>
vars == <<program, sub, pc, memory>>

Init ==
    /\ program \in Programs
    /\ sub = 1
    /\ pc = 0
    /\ regs = [r \in program.registers |-> None]
    /\ arrays = <<>>
    /\ qubits = [v \in 0 .. program.maxQubits - 1 |-> <<>>]

Instr == program.code[sub][pc + 1]
Finished == pc >= Len(program.code[sub])
Is(ops) == ~Finished /\ Instr.op \in ops
Reg(field) == regs[Instr[field]]

\* execute_subroutine: one instruction other than a branch.
Executes(ops) ==
    /\ Is(ops)
    /\ pc' = pc + 1
    /\ UNCHANGED <<program, sub>>

Assign(reg, value) == regs' = [regs EXCEPT ![reg] = value]

-----------------------------------------------------------------------------
(* Registers and arrays.                                                     *)

Set ==
    /\ Executes({"set"})
    /\ Assign(Instr.reg, Instr.imm)
    /\ UNCHANGED <<arrays, qubits>>

Lea ==
    /\ Executes({"lea"})
    /\ Assign(Instr.reg, Instr.addr)
    /\ UNCHANGED <<arrays, qubits>>

Array ==
    /\ Executes({"array"})
    /\ Reg("size") # None
    /\ arrays' = (Instr.addr :> [i \in 0 .. Reg("size") - 1 |-> None]) @@ arrays
    /\ UNCHANGED <<regs, qubits>>

\* The entry @addr[index] of an array, where index is a register.
EntryExists ==
    Instr.addr \in DOMAIN arrays /\ Reg("index") \in DOMAIN arrays[Instr.addr]
WriteEntry(value) == arrays' = [arrays EXCEPT ![Instr.addr][Reg("index")] = value]

Store ==
    /\ Executes({"store"})
    /\ EntryExists
    /\ Reg("reg") # None
    /\ WriteEntry(Reg("reg"))
    /\ UNCHANGED <<regs, qubits>>

Load ==
    /\ Executes({"load"})
    /\ EntryExists
    /\ arrays[Instr.addr][Reg("index")] # None
    /\ Assign(Instr.reg, arrays[Instr.addr][Reg("index")])
    /\ UNCHANGED <<arrays, qubits>>

Undef ==
    /\ Executes({"undef"})
    /\ EntryExists
    /\ WriteEntry(None)
    /\ UNCHANGED <<regs, qubits>>

\* Mutant of Value: the modulus is applied to the second operand only.
ValueModFirst(op, a, b, mod) ==
    CASE op = "add" -> a + b
      [] op = "addm" -> a + (b % mod)
      [] op = "sub" -> a - b
      [] op = "subm" -> a - (b % mod)

\* _compute_binary_classical_instr.
Value(op, a, b, mod) ==
    CASE op = "add" -> a + b
      [] op = "addm" -> (a + b) % mod
      [] op = "sub" -> a - b
      [] op = "subm" -> (a - b) % mod

Compute ==
    /\ Executes({"add", "addm", "sub", "subm"})
    /\ Reg("in0") # None /\ Reg("in1") # None
    /\ LET mod == IF Instr.op \in {"addm", "subm"} THEN Reg("mod") ELSE 1
       IN  /\ mod # None /\ mod >= 1
           /\ Assign(Instr.out, Value(Instr.op, Reg("in0"), Reg("in1"), mod))
    /\ UNCHANGED <<arrays, qubits>>

\* Whether a branch is taken: equality is defined for undefined registers too.
Unary == {"bez", "bnz"}
Binary == {"beq", "bne", "blt", "bge"}
Taken ==
    CASE Instr.op = "jmp" -> TRUE
      [] Instr.op = "bez" -> Reg("reg0") = 0
      [] Instr.op = "bnz" -> Reg("reg0") # 0
      [] Instr.op = "beq" -> Reg("reg0") = Reg("reg1")
      [] Instr.op = "bne" -> Reg("reg0") # Reg("reg1")
      [] Instr.op = "blt" -> Reg("reg0") < Reg("reg1")
      [] Instr.op = "bge" -> Reg("reg0") >= Reg("reg1")

Branch ==
    /\ Is({"jmp"} \cup Unary \cup Binary)
    /\ Instr.op \in {"blt", "bge"} => None \notin {Reg("reg0"), Reg("reg1")}
    /\ pc' = IF Taken THEN Instr.line ELSE pc + 1
    /\ UNCHANGED <<program, sub, memory>>

\* ret_reg and ret_arr.
Ret == Executes({"ret"}) /\ UNCHANGED memory

Classical ==
    \/ Set \/ Lea \/ Array \/ Store \/ Load \/ Undef \/ Compute \/ Branch \/ Ret

-----------------------------------------------------------------------------
(* Qubits.                                                                   *)

Local == "local"    \* a qubit that is not half of a pair

QAlloc ==
    /\ Executes({"qalloc"})
    /\ Reg("reg") \in DOMAIN qubits
    /\ qubits' = [qubits EXCEPT ![Reg("reg")] = Append(@, Local)]
    /\ UNCHANGED <<regs, arrays>>

QFree ==
    /\ Executes({"qfree"})
    /\ Reg("reg") \in DOMAIN qubits
    /\ qubits[Reg("reg")] # <<>>
    /\ qubits' = [qubits EXCEPT ![Reg("reg")] = Tail(@)]
    /\ UNCHANGED <<regs, arrays>>

\* The operands of an instruction for the quantum device.
OperandsExist ==
    \A i \in DOMAIN Instr.operands :
        /\ regs[Instr.operands[i]] \in DOMAIN qubits
        /\ qubits[regs[Instr.operands[i]]] # <<>>

\* init, single- and two-qubit gates, rotations.
Gate ==
    /\ Executes({"gate"})
    /\ OperandsExist
    /\ UNCHANGED memory

Meas ==
    /\ Executes({"meas"})
    /\ OperandsExist
    /\ \E outcome \in Outcomes : Assign(Instr.creg, outcome)
    /\ UNCHANGED <<arrays, qubits>>

-----------------------------------------------------------------------------
(* EPR pairs.                                                                *)

\* The kind of an EPR request and the number of its pairs: the creator's are in
\* its array of arguments, the receiver learns them from the creator.
CK == 0
MD == 1
RequestOf ==
    [results |-> Reg("results"), qubits |-> Reg("qubits"), op |-> Instr.op] @@
    IF Instr.op = "create_epr" THEN [args |-> Reg("args")]
    ELSE [type |-> Instr.type, number |-> Instr.number]
TypeOf(r) == IF r.op = "create_epr" THEN arrays[r.args][0] ELSE r.type
NumberOf(r) == IF r.op = "create_epr" THEN arrays[r.args][1] ELSE r.number

\* The pair whose result entry i is part of; every entry of a result holds the
\* pair's outcome.
PairOf(i) == i \div PairLen

\* Array a with the results of the pairs in ks.
WithResults(a, ks, outcomes) ==
    [i \in DOMAIN a |-> IF PairOf(i) \in ks THEN outcomes[PairOf(i)] ELSE a[i]]

\* The pairs lo, lo + 1, ..., n - 1 that request r delivers to virtual ID v.
PairsTo(v, r, lo, n, outcomes) ==
    LET kept == IF TypeOf(r) = CK
                  THEN SelectSeq([i \in 1 .. n - lo |-> lo + i - 1],
                                 LAMBDA k : arrays[r.qubits][k] = v)
                  ELSE <<>>
    IN  [i \in DOMAIN kept |-> outcomes[kept[i]]]

Epr ==
    /\ Executes({"create_epr", "recv_epr"})
    /\ \E outcomes \in [0 .. MaxPairs - 1 -> Outcomes] :
         LET r == RequestOf
             n == NumberOf(r)
         IN  /\ arrays' = [arrays EXCEPT
                              ![r.results] = WithResults(@, 0 .. n - 1, outcomes)]
             /\ qubits' = [v \in DOMAIN qubits |->
                              qubits[v] \o PairsTo(v, r, 0, n, outcomes)]
    /\ UNCHANGED regs

\* The slice that wait_all waits for.
SliceDefined ==
    \A i \in Reg("start") .. Reg("stop") - 1 : arrays[Instr.addr][i] # None

WaitAll ==
    /\ Executes({"wait_all"})
    /\ SliceDefined
    /\ UNCHANGED memory

-----------------------------------------------------------------------------
NextSubroutine ==
    /\ Finished
    /\ sub < Len(program.code)
    /\ sub' = sub + 1
    /\ pc' = 0
    /\ UNCHANGED <<program, memory>>

Next == Classical \/ QAlloc \/ QFree \/ Gate \/ Meas \/ Epr \/ WaitAll \/ NextSubroutine

Spec == Init /\ [][Next]_vars
=============================================================================
