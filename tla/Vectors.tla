------------------------------ MODULE Vectors ------------------------------
(***************************************************************************)
(* The operations on Rust vectors that the pallets use (`retain`, a stable *)
(* `sort_by`, `iter().fold` with addition), written without recursion so   *)
(* that they can be reasoned about: an arrangement of a vector is the      *)
(* enumeration of a set of its indices along a total order, and a sum of   *)
(* naturals is the cardinality of the set of units it counts.              *)
(***************************************************************************)
EXTENDS Integers, Sequences, FiniteSets, Functions

(* leq, a set of pairs, is a total order on I.                             *)
TotalOrder(I, leq) ==
  /\ \A i, j \in I : <<i, j>> \in leq \/ <<j, i>> \in leq
  /\ \A i, j \in I : <<i, j>> \in leq /\ <<j, i>> \in leq => i = j
  /\ \A i, j, k \in I : <<i, j>> \in leq /\ <<j, k>> \in leq => <<i, k>> \in leq

(* How many elements of I come at or before i in the order leq.            *)
Rank(I, leq, i) == Cardinality({j \in I : <<j, i>> \in leq})

(* The elements of the finite set I, from first to last in the total order
   leq.                                                                    *)
Enumerate(I, leq) == [k \in 1 .. Cardinality(I) |-> CHOOSE i \in I : Rank(I, leq, i) = k]

(* The entries of s whose indices are in I, arranged along leq.            *)
Arrange(s, I, leq) == [k \in 1 .. Cardinality(I) |-> s[Enumerate(I, leq)[k]]]

(* The order of the indices themselves.                                    *)
IndexOrder(I) == {p \in I \X I : p[1] <= p[2]}

(* `Vec::retain`: the entries of s at the indices in I, in their order.    *)
Retain(s, I) == Arrange(s, I, IndexOrder(I))

(* The units counted by a finite function into the naturals, and the sum
   of its values.                                                          *)
Units(f) == UNION {{d} \X (1 .. f[d]) : d \in DOMAIN f}
Total(f) == Cardinality(Units(f))
=============================================================================
