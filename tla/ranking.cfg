SPECIFICATION Spec
CONSTANTS
  g = g
  x = x
  y = y
  Accounts = {g, x, y}
  DesiredCandidates <- GenesisValidators
  ExistentialDeposit = 1
  MaxCandidates = 2
  MaxDelegationsPerCandidate = 1
  MinCandidateBond = 2
  MaxStalingPeriod = 100
  SessionPeriod = 1
  Endowment = 5
  MaxBlock = 3
  CandidateSigners = {x, y}
  DelegatorSigners = {g}
  CorrectionSigners = {}
  KeySigners = {}
  Bonds = {2, 3}
  Stakes = {2}
  Commissions = {1}
  Corrections = {}
INVARIANTS TypeOK OnlineSorted
PROPERTIES TopRanked
