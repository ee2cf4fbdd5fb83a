------------------------------- MODULE MCNodes -------------------------------
(* NodeService with the nodes of two authorities, of which b may author alone,
   and a full node f; the clock of a is one ahead.                         *)
EXTENDS NodeService

CONSTANTS a, b, f

TwoAuthorities == <<a, b>>

OneAhead == [n \in Nodes |-> IF n = a THEN 1 ELSE 0]
=============================================================================
