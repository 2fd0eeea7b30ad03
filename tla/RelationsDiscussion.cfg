SPECIFICATION Spec
CONSTANTS
  c1 = c1
  c2 = c2
  v1 = v1
  v2 = v2
  p1 = p1
  d1 = d1
  Workflow = {v1, v2}
  Project = {}
  Discussion = {d1}
  Kinds = {"discussion"}
  Due = {}
  Legacy <- None
  Conn = {c1}
  Ranks = {1}
  MaxDoubles = 2
  MaxItems = 2
  MaxRequests = 3
PROPERTIES DetachRemoves
CHECK_DEADLOCK FALSE
