SPECIFICATION Spec
CONSTANTS
  g = g
  x = x
  y = y
  Accounts = {g, x, y}
  DesiredCandidates <- GenesisValidators
  ExistentialDeposit = 1
  MaxCandidates = 2
  MaxDelegationsPerCandidate = 1
  MinCandidateBond = 2
  MaxStalingPeriod = 100
  SessionPeriod = 1
  Endowment = 5
  MaxBlock = 2
  CandidateSigners = {x, y}
  DelegatorSigners = {x}
  CorrectionSigners = {x}
  KeySigners = {}
  Bonds = {0, 2}
  Stakes = {2}
  Commissions = {}
  Corrections = {4}
INVARIANT BondHeld
