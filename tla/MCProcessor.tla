---------------------------- MODULE MCProcessor ----------------------------
(***************************************************************************)
(* Processor with the programs that the SDK emits for EPR requests (the    *)
(* subroutines of tests/stack/test_two_nodes.py and of                     *)
(* examples/advanced/link_layer_custom_subrt) and with arithmetic.         *)
(***************************************************************************)
EXTENDS Processor

SetI(r, k) == <<[op |-> "set", reg |-> r, imm |-> k]>>
ArrayI(addr, len) ==
    SetI("R5", len) \o <<[op |-> "array", size |-> "R5", addr |-> addr]>>
EntryI(op, r, addr, i) == <<[op |-> op, reg |-> r, addr |-> addr, index |-> i]>>
StoreImm(k, addr, i) ==
    SetI("R5", k) \o SetI("R6", i) \o EntryI("store", "R5", addr, "R6")
Arith(op, out, a, b, mod) ==
    <<[op |-> op, out |-> out, in0 |-> a, in1 |-> b, mod |-> mod]>>
Jump(op, a, b, line) == <<[op |-> op, reg0 |-> a, reg1 |-> b, line |-> line]>>
DeviceI(op, rs) == <<[op |-> op, operands |-> rs, creg |-> "M0"]>>
FreeI(q) == <<[op |-> "qfree", reg |-> q]>>
WaitI(addr, start, stop) ==
    <<[op |-> "wait_all", addr |-> addr, start |-> start, stop |-> stop]>>

\* Body repeated with r = 0, ..., n - 1, at line `line`; Body(l) starts at l.
For(r, n, Body(_), line) ==
    LET body == Body(line + 3)
    IN  SetI(r, 0) \o SetI("R5", n) \o Jump("beq", r, "R5", line + 6 + Len(body))
        \o body \o SetI("R5", 1) \o Arith("add", r, r, "R5", "R5")
        \o Jump("jmp", r, r, line + 1)

\* b after a.
Then(a, B(_)) == a \o B(Len(a))

\* r gets PairLen times s, by adding.
Times(r, s, line) ==
    SetI(r, 0) \o For("R4", PairLen, LAMBDA l : Arith("add", r, r, s, s), line + 1)

\* The request whose arrays are results, qubits (virtual IDs) and args.
EprI(role, results, ids, args, type, number) ==
    SetI("R6", results) \o SetI("R7", ids) \o SetI("R8", args) \o
    IF role = "create"
      THEN <<[op |-> "create_epr", results |-> "R6", qubits |-> "R7", args |-> "R8"]>>
      ELSE <<[op |-> "recv_epr", results |-> "R6", qubits |-> "R7",
              type |-> type, number |-> number]>>
EprArrays(results, ids, args, type, number) ==
    ArrayI(results, PairLen * number) \o ArrayI(ids, number) \o ArrayI(args, 2) \o
    StoreImm(type, args, 0) \o StoreImm(number, args, 1)

Registers ==
    {"R0", "R1", "R2", "R3", "R4", "R5", "R6", "R7", "R8", "R9", "R10", "Q0", "Q1", "M0"}
Program(code, device, result) ==
    [code |-> code, device |-> device, result |-> result,
     maxQubits |-> 2, registers |-> Registers]
Nothing == [r \in {} |-> 0]

-----------------------------------------------------------------------------
\* A loop over pairs that are measured one by one, itself repeated; ids[k] is
\* the virtual ID of pair k.
OnePair(line) ==
    LET start == Times("R1", "R0", line)
        next == start \o SetI("R5", 1) \o Arith("add", "R2", "R0", "R5", "R5")
        stop == next \o Times("R3", "R2", line + Len(next))
    IN  stop \o WaitI(1, "R1", "R3") \o EntryI("load", "Q0", 2, "R0") \o
        DeviceI("gate", <<"Q0">>) \o DeviceI("meas", <<"Q0">>) \o FreeI("Q0") \o
        EntryI("store", "M0", 0, "R0")
Repetition(role, n, line) ==
    LET undef == For("R9", PairLen * n, LAMBDA l : EntryI("undef", "R5", 1, "R9"), line)
        epr == undef \o EprI(role, 1, 2, 3, CK, n)
    IN  epr \o For("R0", n, OnePair, line + Len(epr))
LoopProgram(role, ids, device) ==
    LET n == Len(ids)
        head == ArrayI(0, n) \o EprArrays(1, 2, 3, CK, n) \o
                FlattenSeq([k \in 1 .. n |-> StoreImm(ids[k], 2, k - 1)])
    IN  Program(<<Then(head, LAMBDA l : For("R10", 2, LAMBDA k : Repetition(role, n, k), l))
                  \o <<[op |-> "ret"]>>>>,
                device,
                [r \in {"R0", "R1", "R3"} |->
                    IF r = "R0" THEN n ELSE IF r = "R1" THEN PairLen * (n - 1)
                    ELSE PairLen * n])

\* A measure-directly request of two pairs and a kept pair, submitted by the
\* first subroutine; the second waits for them, either first.
WaitRange(addr, n) == SetI("R1", 0) \o SetI("R3", PairLen * n) \o WaitI(addr, "R1", "R3")
KeepPair ==
    WaitRange(4, 1) \o SetI("Q0", 0) \o SetI("Q1", 1) \o <<[op |-> "qalloc", reg |-> "Q1"]>> \o
    DeviceI("gate", <<"Q1">>) \o DeviceI("gate", <<"Q0", "Q1">>) \o
    DeviceI("meas", <<"Q0">>) \o FreeI("Q0") \o FreeI("Q1")
\* R2 = the parity of the measured outcomes.
Parity ==
    WaitRange(1, 2) \o SetI("R2", 0) \o SetI("R9", 2) \o
    SetI("R6", 0) \o EntryI("load", "R4", 1, "R6") \o Arith("addm", "R2", "R2", "R4", "R9") \o
    SetI("R6", PairLen) \o EntryI("load", "R4", 1, "R6") \o
    Arith("addm", "R2", "R2", "R4", "R9")
TwoRequests(role, other, keepFirst) ==
    LET epr == <<EprI(role, 1, 2, 3, MD, 2), EprI(other, 4, 5, 6, CK, 1)>>
        use == <<Parity, KeepPair>>
        swap == IF keepFirst THEN <<use[2], use[1]>> ELSE use
    IN  Program(<<EprArrays(1, 2, 3, MD, 2) \o EprArrays(4, 5, 6, CK, 1) \o
                  StoreImm(0, 5, 0) \o epr[1] \o epr[2],
                  swap[1] \o swap[2]>>,
                2, Nothing)

\* Two requests of one kept pair each, used together.
Both(role, reversed) ==
    LET w == <<WaitRange(1, 1), WaitRange(4, 1)>>
    IN  Program(<<EprArrays(1, 2, 3, CK, 1) \o EprArrays(4, 5, 6, CK, 1) \o
                  StoreImm(0, 2, 0) \o StoreImm(1, 5, 0) \o
                  EprI(role, 1, 2, 3, CK, 1) \o EprI(role, 4, 5, 6, CK, 1) \o
                  (IF reversed THEN w[2] \o w[1] ELSE w[1] \o w[2]) \o
                  SetI("Q0", 0) \o SetI("Q1", 1) \o DeviceI("gate", <<"Q0", "Q1">>) \o
                  DeviceI("meas", <<"Q1">>) \o FreeI("Q1") \o
                  DeviceI("meas", <<"Q0">>) \o FreeI("Q0")>>,
                2, Nothing)

\* R2 = the greatest common divisor of x and y, R3 = (y - x) mod 3,
\* R4 = (x + y) mod 3, R9 = the address of array 7, R10 = whether x < y.
Gcd(x, y) ==
    IF x = 0 \/ y = 0 THEN x + y
    ELSE Max({d \in 1 .. x : x % d = 0 /\ y % d = 0})
Arithmetic(x, y) ==
    Program(<<SetI("R0", x) \o SetI("R1", y) \o SetI("R8", 3) \o
              Arith("subm", "R3", "R1", "R0", "R8") \o
              Arith("addm", "R4", "R0", "R1", "R8") \o
              SetI("R10", 0) \o Jump("bge", "R0", "R1", 8) \o SetI("R10", 1) \o
              \* line 8: subtract or swap until R1 = 0
              Jump("bez", "R1", "R1", 17) \o Jump("blt", "R0", "R1", 12) \o
              Arith("sub", "R0", "R0", "R1", "R8") \o Jump("jmp", "R0", "R0", 8) \o
              \* line 12: swap
              SetI("R7", 0) \o Arith("add", "R6", "R0", "R7", "R8") \o
              Arith("add", "R0", "R1", "R7", "R8") \o
              Arith("add", "R1", "R6", "R7", "R8") \o Jump("bnz", "R1", "R1", 8) \o
              \* line 17
              SetI("R7", 0) \o Arith("add", "R2", "R0", "R7", "R8") \o
              <<[op |-> "lea", reg |-> "R9", addr |-> 7]>> \o
              Jump("bne", "R9", "R7", 22) \o SetI("R2", 99) \o <<[op |-> "ret"]>>>>,
            0,
            [r \in {"R2", "R3", "R4", "R9", "R10"} |->
               CASE r = "R2" -> Gcd(x, y) [] r = "R3" -> (y - x) % 3
                 [] r = "R4" -> (x + y) % 3 [] r = "R9" -> 7
                 [] r = "R10" -> IF x < y THEN 1 ELSE 0])

Roles == {"create", "recv"}
MCPrograms ==
    {LoopProgram(role, <<0, 0>>, 1) : role \in Roles}
    \cup {LoopProgram(role, <<0, 1>>, 2) : role \in Roles}
    \cup {TwoRequests(role, other, FALSE) : role, other \in Roles}
    \cup {TwoRequests(role, other, TRUE) : role, other \in Roles}
    \cup {Both(role, reversed) : role \in Roles, reversed \in BOOLEAN}
    \cup {Arithmetic(x, y) : x, y \in 0 .. 3}
=============================================================================
