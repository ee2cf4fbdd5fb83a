SPECIFICATION RSpec
CONSTANTS
  g = g
  x = x
  Accounts = {g, x}
  DesiredCandidates <- GenesisValidators
  ExistentialDeposit = 1
  MaxCandidates = 2
  MaxDelegationsPerCandidate = 1
  MinCandidateBond = 2
  MaxStalingPeriod = 100
  SessionPeriod = 1
  Endowment = 4
  MaxBlock = 3
  CandidateSigners = {g, x}
  DelegatorSigners = {x}
  CorrectionSigners = {g}
  KeySigners = {}
  Bonds = {0, 2}
  Stakes = {1}
  Commissions = {}
  Corrections = {2}
  MaxBalance = 9
  Origins <- RootOnly
  Amounts = {2}
INVARIANTS StakeBacked ReserveCoversClaims
PROPERTIES FreezerHolds FrozenAddNothing
