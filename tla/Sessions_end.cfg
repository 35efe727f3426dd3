SPECIFICATION FairSpec
CONSTANTS
  Sockets = {k1, k2}
  Account = Account
  Accounts = {Account, Other}
  Characters = {c1}
  Owner <- MCOwner
  Passwords <- MCPasswords
  Knows = {k1}
  Existing = {}
  Null = Null
  MaxObjects = 1
  MaxMarks <- MCMarks
  MaxPending = 1
INVARIANT TypeOK
INVARIANT LinksAgree
INVARIANT OnlineAccountsHaveSessions
INVARIANT MarkedCharactersPlay
PROPERTY AbandonedSessionsEnd
