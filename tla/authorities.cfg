SPECIFICATION AFairSpec
CONSTANTS
  g = g
  x = x
  Accounts = {g, x}
  DesiredCandidates <- GenesisValidators
  ExistentialDeposit = 1
  MaxCandidates = 2
  MaxDelegationsPerCandidate = 1
  MinCandidateBond = 2
  MaxStalingPeriod = 6
  SessionPeriod = 2
  Endowment = 3
  MaxBlock = 16
  CandidateSigners = {x}
  DelegatorSigners = {}
  CorrectionSigners = {}
  KeySigners = {g, x}
  Bonds = {0, 2}
  Stakes = {}
  Commissions = {}
  Corrections = {}
INVARIANTS EnginesAgree
PROPERTIES CreditedIsSigner AuthorsAreActive NeverStuck UnfitLeaves FitEnters
