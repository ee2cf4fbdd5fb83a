----------------------------- MODULE XodeRuntime -----------------------------
(***************************************************************************)
(* The staking and the freezer pallet on the same native balances, with    *)
(* the transfers that anybody may make: the freeze of an account and its   *)
(* bonds and delegations meet in one `account` record, and neither pallet  *)
(* knows of the other.                                                     *)
(***************************************************************************)
EXTENDS XodeStaking

CONSTANTS
  MaxBalance,    \* Balance::max_value()
  Origins,       \* origins tried in calls to the freezer
  Amounts        \* amounts tried in transfers and calls to the freezer

(* Every amount is a Balance, and so is the total issuance, which pallet_balances
   keeps as one.                                                           *)
ASSUME RuntimeAssumption ==
  /\ MaxBalance \in Nat \ {0}
  /\ Amounts \subseteq 0 .. MaxBalance
  /\ Origins \subseteq [root : BOOLEAN, ayes : Nat, seats : Nat]
  /\ IsFiniteSet(Accounts)
  /\ Cardinality(Accounts) * Endowment <= MaxBalance

VARIABLE Frozen

Freezer == INSTANCE AccountFreezer WITH Issuance <- Endowment

RInit == Init /\ Frozen = {}

(* pallet_balances and the freezer leave the staking pallet's storage alone. *)
StakingUntouched ==
  UNCHANGED <<ProposedCandidates, pipeline, Delegations, ActualAuthors, session, block_number>>

Transfer ==
  /\ \E from, to \in Accounts, v \in Amounts : transfer_allow_death(from, to, v)
  /\ UNCHANGED Frozen
  /\ StakingUntouched

RNext ==
  \/ Next /\ UNCHANGED Frozen
  \/ block_number > 0 /\ Freezer!FreezerCall /\ StakingUntouched
  \/ block_number > 0 /\ Transfer

RSpec == RInit /\ [][RNext]_<<vars, Frozen>>

-----------------------------------------------------------------------------
(* The freezer among reserves and unreserves of any amount.                *)
FreezerView == INSTANCE AccountFreezer WITH Issuance <- Endowment, Amounts <- 0 .. MaxBalance

(* FreezerHolds: to the freezer, whatever staking does is a reserve or an
   unreserve or nothing at all, so what AccountFreezer promises against those
   holds in the runtime: a bond or a delegation is no way around a freeze. *)
FreezerHolds == FreezerView!Spec

(* FrozenAddNothing: whose balance is frozen as a whole can neither raise its
   bond nor its delegations, directly or by registering again, but can still
   lower them.                                                             *)
FrozenAddNothing ==
  [][\A a \in Accounts : account[a].frozen >= MaxBalance =>
       Bonded(a)' + Staked(a)' <= Bonded(a) + Staked(a)]_<<vars, Frozen>>
=============================================================================
