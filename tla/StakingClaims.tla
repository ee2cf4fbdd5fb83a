---------------------------- MODULE StakingClaims ----------------------------
(***************************************************************************)
(* Statements that comments in pallets/xode-staking make about the pallet  *)
(* and that its code does not keep.  Each is violated by a run of its own; *)
(* XodeStaking has the properties that do hold.                            *)
(***************************************************************************)
EXTENDS XodeStaking

(* DelegationWithdrawable: "Withdraw the caller's delegation behind
   `candidate`" (unstake_candidate): a delegator on record can withdraw.
   Violated: once the candidate is dropped, recompute_total_stake fails.   *)
DelegationWithdrawable ==
  \A candidate \in Accounts :
    \A who \in DOMAIN Delegations[candidate] : ENABLED unstake_candidate(who, candidate)

(* BondHeld: "The minimum non-zero bond a candidate must hold to stay
   registered" (MinCandidateBond): a recorded bond is reserved.  Violated:
   bond_correction releases an amount of the caller's choice, delegations
   included, and a later unstake then releases from a newer bond.          *)
BondHeld ==
  \A c \in Range(ProposedCandidates) : account[c.who].reserved >= c.bond
=============================================================================
