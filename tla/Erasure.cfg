SPECIFICATION ErasureSpec
CONSTANTS
  a1 = a1
  a2 = a2
  u1 = u1
  email = email
  x = x
  Tombstone = Tombstone
  Ids = {i1, i2}
  Anons = {a1, a2, Tombstone}
  Users = {u1, Tombstone}
  Keys = {email}
  PiiKeys = {email}
  Values = {x, Tombstone}
  Workers = {w1}
  Erasers = {e1}
  Serial = FALSE
  Batches <- MCBatches
  Subjects <- MCSubjects
  NoUser = NoUser
  EmptyUser = EmptyUser
  NoAnon = NoAnon
  NoEvent = NoEvent
  NoRow = NoRow
  Unset = Unset
  Pending = Pending
INVARIANTS
  ErasureIsComplete
  OptOutStopsTheBatch
PROPERTIES
  OnlyStaleSaveUnredacts
