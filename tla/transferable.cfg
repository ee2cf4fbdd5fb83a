SPECIFICATION HSpec
CONSTANTS
  Accounts = {a1, a2}
  ExistentialDeposit = 2
  MaxBalance = 20
  Origins <- MCOrigins
  Amounts = {0, 1, 3, 4}
  Issuance = 5
PROPERTY FrozenNotTransferable
