-------------------------- MODULE StakingRefinement --------------------------
(***************************************************************************)
(* The staking pallet implements the pipeline: the abstract sets are the   *)
(* accounts in the lists of XodeStaking, and the statuses, the order of    *)
(* the candidates, bonds, stakes and blocks inside a session are gone.     *)
(***************************************************************************)
EXTENDS XodeStaking

RegisteredAccounts == {c.who : c \in Range(ProposedCandidates)}

FitAccounts == {c.who : c \in {d \in Range(ProposedCandidates) : Fit(d)}}

Abstract == INSTANCE Pipeline WITH
  Capacity   <- MaxCandidates,
  registered <- RegisteredAccounts,
  fit        <- FitAccounts,
  waiting    <- Range(WaitingCandidates),
  chosen     <- Range(Invulnerables),
  queued     <- Range(QueuedKeys),
  active     <- Range(Validators)

-----------------------------------------------------------------------------
(* ImplementsPipeline: every behaviour of the pallet and the session pallet is
   one of the abstract pipeline.  end_session, rotation and new_session
   together move everybody exactly one stage, let nobody in who is unfit or
   beyond capacity, waste no place, slash validators only, and forget only
   who was unfit and is in no stage; no call moves anybody.                *)
ImplementsPipeline == Abstract!Spec
=============================================================================
