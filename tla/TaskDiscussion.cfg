SPECIFICATION Spec
CONSTANTS
  p1 = p1
  p2 = p2
  Page = {p1, p2}
  MaxTopics = 2
  MaxFolders = 1
  MaxComments = 2
INVARIANTS TypeOK ListedCommentsStay
PROPERTIES UpdateShowsAll
SYMMETRY Symmetry
