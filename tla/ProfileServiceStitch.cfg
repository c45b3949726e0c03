SPECIFICATION SvcSpec
CONSTANTS
  Ids = {i1, i2}
  Anons = {a1, a2}
  Users = {u1, u2}
  Keys = {k1, k2}
  Values = {x, y}
  Workers = {w1, w2}
  Serial = TRUE
  NoUser = NoUser
  EmptyUser = EmptyUser
  Unset = Unset
  NoRow = NoRow
  NoEvent = NoEvent
PROPERTY
  IdentifyStitches
