SPECIFICATION Spec
CONSTANTS
  alice = alice
  bob = bob
  charlie = charlie
  dave = dave
  Accounts = {alice, bob, charlie, dave}
  Calls <- MCCalls
  Proposals <- MCProposals
  Agenda <- MCAgenda
  Thresholds = {1, 2}
  GenesisMembers <- LocalMembers
  MaxProposals <- Open
SYMMETRY Symmetry
INVARIANTS TypeOK VotersAreMembers
PROPERTIES TechnicalPowers TreasuryPowers
