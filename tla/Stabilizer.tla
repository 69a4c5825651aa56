------------------------------- MODULE Stabilizer -------------------------------
(***************************************************************************)
(* Qubits whose states are stabilizer states, as the quantum library keeps *)
(* them: the states that programs reach from |0> and EPR pairs with        *)
(* measurements and with rotations by quarter turns.                       *)
(*                                                                         *)
(* A state is the group of the observables that it is sure of: products of *)
(* Pauli operators with a sign.  An observable is a record of `pauli`,     *)
(* which maps the qubits it acts on to "X", "Y" or "Z", and `sign`, 1 for  *)
(* minus.                                                                  *)
(***************************************************************************)
EXTENDS Integers, FiniteSets, Sequences, SequencesExt

Observable(pauli, sign) == [pauli |-> pauli, sign |-> sign]
Identity == Observable([q \in {} |-> "I"], 0)
On(p, qubits) == [q \in qubits |-> p]

Signed(obs, outcome) == Observable(obs.pauli, (obs.sign + outcome) % 2)

NoQubits == {Identity}

At(pauli, q) == IF q \in DOMAIN pauli THEN pauli[q] ELSE "I"
Nontrivial(pauli) == [q \in {r \in DOMAIN pauli : pauli[r] # "I"} |-> pauli[q]]
HasX(p) == p \in {"X", "Y"}
HasZ(p) == p \in {"Z", "Y"}
PauliOf(x, z) == IF x THEN (IF z THEN "Y" ELSE "X") ELSE (IF z THEN "Z" ELSE "I")

\* X * Y = i Z, and so on around the circle.
Around == {<<"X", "Y">>, <<"Y", "Z">>, <<"Z", "X">>}

\* g times h, times the power of i that makes this an observable: none if they
\* commute, and -i if they do not.
Product(g, h) ==
    LET Qubits == DOMAIN g.pauli \cup DOMAIN h.pauli
        Both(q) == <<At(g.pauli, q), At(h.pauli, q)>>
        plus == Cardinality({q \in Qubits : Both(q) \in Around})
        minus == Cardinality({q \in Qubits : <<Both(q)[2], Both(q)[1]>> \in Around})
    IN  Observable(Nontrivial([q \in Qubits |->
                       PauliOf(HasX(Both(q)[1]) # HasX(Both(q)[2]),
                               HasZ(Both(q)[1]) # HasZ(Both(q)[2]))]),
                   (g.sign + h.sign + ((plus - minus) % 4) \div 2) % 2)

Commute(g, h) ==
    Cardinality({q \in DOMAIN g.pauli \cap DOMAIN h.pauli : g.pauli[q] # h.pauli[q]}) % 2 = 0

\* States of separate qubits together.
With(state, other) == {Product(g, h) : g \in state, h \in other}

\* A qubit in state |0>, and a pair in the state |00> + |11>.
Zero(q) == {Identity, Observable(On("Z", {q}), 0)}
Pair(q, r) ==
    {Identity} \cup {Observable(On(p, {q, r}), IF p = "Y" THEN 1 ELSE 0) : p \in {"X", "Y", "Z"}}

-----------------------------------------------------------------------------
(* Gates, by what they make of each Pauli operator, and with which sign.     *)

Image(gate, p) ==
    CASE gate = "H" -> (CASE p = "X" -> <<"Z", 0>> [] p = "Y" -> <<"Y", 1>> [] p = "Z" -> <<"X", 0>>)
      [] gate = "K" -> (CASE p = "X" -> <<"X", 1>> [] p = "Y" -> <<"Z", 0>> [] p = "Z" -> <<"Y", 0>>)
      [] gate \in {"X", "Y", "Z"} -> <<p, IF p = gate THEN 0 ELSE 1>>

Gate(state, gate, q) ==
    {IF q \in DOMAIN g.pauli
     THEN LET image == Image(gate, g.pauli[q])
          IN  Observable([g.pauli EXCEPT ![q] = image[1]], (g.sign + image[2]) % 2)
     ELSE g : g \in state}

\* Quarter turns around an axis: an observable of one qubit, or of two for a rotation
\* whose direction one of them controls.
Turn(state, axis, quarters) ==
    {IF Commute(axis, g) THEN g
     ELSE Signed(IF quarters % 2 = 1 THEN Product(axis, g) ELSE g, quarters \div 2) : g \in state}

\* Controlled phase: X on one qubit becomes X on it and Z on the other.
CPhase(state, q, r) ==
    {LET p == At(g.pauli, q)
         s == At(g.pauli, r)
         pauli == [t \in DOMAIN g.pauli \cup {q, r} |->
                      CASE t = q -> PauliOf(HasX(p), HasZ(p) # HasX(s))
                        [] t = r -> PauliOf(HasX(s), HasZ(s) # HasX(p))
                        [] OTHER -> g.pauli[t]]
     IN  Observable(Nontrivial(pauli),
                    IF HasX(p) /\ HasX(s) /\ HasZ(p) # HasZ(s) THEN 1 - g.sign ELSE g.sign)
       : g \in state}

CNot(state, control, target) == Gate(CPhase(Gate(state, "H", target), control, target), "H", target)

-----------------------------------------------------------------------------
(* Measurements.                                                             *)

\* The outcomes that are possible, and the state after one of them.
Outcomes(state, obs) == {m \in {0, 1} : Signed(obs, 1 - m) \notin state}
Measured(state, obs, m) ==
    With({g \in state : Commute(g, obs)}, {Identity, Signed(obs, m)})

\* What is left when measured qubits are given back.
Without(state, qubits) == {g \in state : DOMAIN g.pauli \cap qubits = {}}
=============================================================================
