SPECIFICATION FairSpec
CONSTANTS
  t1 = t1
  t2 = t2
  w1 = w1
  w2 = w2
  c1 = c1
  c2 = c2
  p1 = p1
  Task = {t1, t2}
  Workflow = {w1, w2}
  WorkflowOf <- MCWorkflowOf
  PageOf <- MCPageOf
  New = {w2}
  Others = {w1}
  Sorter = {"byDueDate", "byPriority"}
  Filter = {"active", "completed"}
  DefaultSorter = "byDueDate"
  DefaultFilter = "active"
  NotSet = "notset"
  Call = {c1, c2}
  Put = {p1}
INVARIANTS TypeOK ShownAsLabelled ProjectTasksShown PreferenceRemembered
PROPERTIES TableAppears
