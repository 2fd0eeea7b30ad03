SPECIFICATION FairSpec
CONSTANTS
  p1 = p1
  p2 = p2
  ann = ann
  bob = bob
  own = own
  pooled = pooled
  NoTask = NoTask
  Nobody = Nobody
  Page = {p1, p2}
  User = {ann, bob}
  Task = {own, pooled}
  FirstTask = own
  Initiator = ann
  Assignee <- MCAssignee
  Pool <- MCPool
  UserOf <- MCUserOf
  Address <- MCAddress
  Ends = {pooled}
INVARIANTS TypeOK NeverOutOfReach PeopleListedOnce HistoryShowsEachTask
PROPERTIES ButtonsComeBack
