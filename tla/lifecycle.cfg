SPECIFICATION Spec
CONSTANTS
  g = g
  x = x
  y = y
  Accounts = {g, x}
  DesiredCandidates <- GenesisValidators
  ExistentialDeposit = 1
  MaxCandidates = 2
  MaxDelegationsPerCandidate = 1
  MinCandidateBond = 2
  MaxStalingPeriod = 100
  SessionPeriod = 1
  Endowment = 3
  MaxBlock = 9
  CandidateSigners = {g, x}
  DelegatorSigners = {}
  CorrectionSigners = {x}
  KeySigners = {x}
  Bonds = {0, 2}
  Stakes = {}
  Commissions = {}
  Corrections = {2}
INVARIANTS IndInv UniqueCandidates PipelineBonded StatusCoversStage DesiredKept NoDoubleSlot
PROPERTIES UnbondWindow ImplementsPipeline
