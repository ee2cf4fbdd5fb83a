SPECIFICATION Spec
CONSTANTS
  a = a
  b = b
  f = f
  Nodes = {a, b, f}
  Authorities <- TwoAuthorities
  AuthorityRole = {a, b}
  ForceAuthoring = {b}
  DisableGrandpa = {f}
  OffchainWorker = {f}
  SkewOf <- OneAhead
  SLOT_DURATION = 5
  NewDurations = {2, 6}
  StartTime = 3
  MaxTime = 16
  MaxUpgrades = 1
INVARIANTS TurnsAccepted StaleTasksRefused LongerStalls
PROPERTIES TurnsTaken FinalityFollows
