------------------------------ MODULE MCHistory ------------------------------
(* StakingHistory on small instances: g is the genesis validator, x and y are
   candidates.                                                             *)
EXTENDS StakingHistory

CONSTANTS g, x, y

GenesisValidators == <<g>>
=============================================================================
