SPECIFICATION HSpec
CONSTANTS
  g = g
  x = x
  y = y
  Accounts = {g, x}
  DesiredCandidates <- GenesisValidators
  ExistentialDeposit = 1
  MaxCandidates = 2
  MaxDelegationsPerCandidate = 1
  MinCandidateBond = 2
  MaxStalingPeriod = 2
  SessionPeriod = 2
  Endowment = 3
  MaxBlock = 10
  CandidateSigners = {x}
  DelegatorSigners = {}
  CorrectionSigners = {}
  KeySigners = {g, x}
  Bonds = {0, 2}
  Stakes = {}
  Commissions = {}
  Corrections = {}
PROPERTIES SlashJustified StaleAreSlashed
