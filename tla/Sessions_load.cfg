SPECIFICATION FairSpec
CONSTANTS
  Sockets = {k1, k2}
  Account = Account
  Accounts = {Account}
  Characters = {c1}
  Owner <- MCOwner
  Passwords <- MCPasswords
  Knows = {}
  Existing = {}
  Null = Null
  MaxObjects = 1
  MaxMarks <- MCMarks
  MaxPending = 2
PROPERTY LoadingEnds
