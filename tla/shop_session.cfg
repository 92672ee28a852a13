CONSTANTS
  r1 = r1
  r2 = r2
  k1 = k1
  k2 = k2
  k3 = k3
  i1 = i1
  i2 = i2
  NoKey = NoKey
  NoRow = NoRow
  NoItem = NoItem
  NoChat = NoChat
  Requests = {r1, r2}
  Keys = {k1, k2, k3}
  Items = {i1, i2}
  Price <- MCPrice
  MaxSent = 4
SPECIFICATION Spec
SYMMETRY Symmetry
INVARIANT TypeOK
INVARIANT LogoutIsFinal
INVARIANT Inv
INVARIANT Conversation
INVARIANT ChatInv
INVARIANT NeverOvercharged
PROPERTY AloneIsAtomic
