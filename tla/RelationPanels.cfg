SPECIFICATION FairSpec
CONSTANTS
  a = a
  n = n
  self = self
  c1 = c1
  c2 = c2
  Item = {a, n, self}
  Self = self
  New = {n}
  Call = {c1, c2}
  MaxEvents = 1
INVARIANTS TypeOK ShowsOwnChanges StartedIsLinked
PROPERTIES PromptCloses
