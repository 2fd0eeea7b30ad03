SPECIFICATION Spec
CONSTANTS
  p1 = p1
  i1 = i1
  i2 = i2
  c1 = c1
  c2 = c2
  c3 = c3
  Kind = {"checklists", "conversations"}
  Page = {p1}
  NoPage = NoPage
  Item = {i1, i2}
  NoItem = NoItem
  Call = {c1, c2, c3}
SYMMETRY Symmetry
INVARIANTS TypeOK ListShowsOwnChanges OpensOnceThere
