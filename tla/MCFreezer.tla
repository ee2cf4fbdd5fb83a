------------------------------ MODULE MCFreezer ------------------------------
(* The freezer with two accounts; motions of a committee of three. *)
EXTENDS FreezerHistory

MCOrigins ==
  {[root |-> TRUE, ayes |-> 0, seats |-> 0], [root |-> FALSE, ayes |-> 0, seats |-> 0],
   [root |-> FALSE, ayes |-> 2, seats |-> 3], [root |-> FALSE, ayes |-> 3, seats |-> 3]}
=============================================================================
