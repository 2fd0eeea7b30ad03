SPECIFICATION Spec
CONSTANTS
  t1 = t1
  t2 = t2
  g1 = g1
  inbox = inbox
  sub = sub
  Top = Top
  Client = {t1, t2}
  Provider = {g1}
  Folder = {inbox, sub}
  parent <- Nested
  Inactive = {}
  Poison <- NoPoison
  contacts <- TwoContacts
  MaxUID <- FewMessages
  MaxStored = 3
  MaxNodes = 2
  MaxRequests = 4
INVARIANTS TypeOK NoGap FetchesOnlyNew ProjectHasStored
PROPERTIES FetchIsComplete
SYMMETRY Symmetry
