------------------------------ MODULE MCStaking ------------------------------
(* The staking pallet on small instances: g is the genesis validator, x and y are
   candidates and delegators.  The .cfg files choose who signs which calls. *)
EXTENDS StakingClaims, StakingRefinement

CONSTANTS g, x, y

GenesisValidators == <<g>>
=============================================================================
