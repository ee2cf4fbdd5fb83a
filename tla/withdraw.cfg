SPECIFICATION Spec
CONSTANTS
  g = g
  x = x
  y = y
  Accounts = {g, x, y}
  DesiredCandidates <- GenesisValidators
  ExistentialDeposit = 1
  MaxCandidates = 2
  MaxDelegationsPerCandidate = 1
  MinCandidateBond = 2
  MaxStalingPeriod = 100
  SessionPeriod = 1
  Endowment = 5
  MaxBlock = 3
  CandidateSigners = {x}
  DelegatorSigners = {y}
  CorrectionSigners = {}
  KeySigners = {}
  Bonds = {0, 2}
  Stakes = {1}
  Commissions = {}
  Corrections = {}
INVARIANT DelegationWithdrawable
