SPECIFICATION SvcSpec
CONSTANTS
  Ids = {i1, i2}
  Anons = {a1}
  Users = {u1}
  Keys = {k1, k2}
  Values = {x}
  Workers = {w1, w2}
  Serial = FALSE
  NoUser = NoUser
  EmptyUser = EmptyUser
  Unset = Unset
  NoRow = NoRow
  NoEvent = NoEvent
PROPERTY
  MergeNeverOverwrites
