SPECIFICATION Spec
CONSTANTS
  u1 = u1
  u2 = u2
  j1 = j1
  j2 = j2
  k1 = k1
  k2 = k2
  s1 = s1
  s2 = s2
  w1 = w1
  w2 = w2
  c1 = c1
  c2 = c2
  User = {u1}
  Job = {j1, j2}
  author <- SameAuthor
  Cron = {k1, k2}
  fires <- TwoCrons
  repeats <- Repeating
  Hours = 2
  Server = {s1}
  Worker = {w1, w2}
  host <- OneHost
  Conn = {c1, c2}
  Fragile = {1}
  Breakable = {}
  MaxNodes = 2
  MaxRequests = 3
  NoUser = NoUser
INVARIANTS TypeOK AckedKept
PROPERTIES LeavesByStartOrSave PromiseKept
SYMMETRY Symmetry
