SPECIFICATION Spec
CONSTANTS
  c1 = c1
  c2 = c2
  v1 = v1
  v2 = v2
  p1 = p1
  d1 = d1
  Workflow = {v1, v2}
  Project = {p1}
  Discussion = {}
  Kinds = {"project", "related"}
  Due = {v1}
  Legacy <- None
  Conn = {c1, c2}
  Ranks = {1, 2}
  MaxDoubles = 2
  MaxItems = 2
  MaxRequests = 3
INVARIANTS TypeOK ListedOnBothSidesUnlessRaced DeadlinesFollow
PROPERTIES AttachesOnce DetachRemoves
SYMMETRY ConnSymmetry
CHECK_DEADLOCK FALSE
