--------------------------- MODULE TaskPageProofs ---------------------------
(***************************************************************************)
(* Theorems about TaskPage: for every number of pages, users and tasks no  *)
(* stale button puts an open task out of everybody's reach, a history that *)
(* is drawn shows each task once, and a page opened by one id lists nobody *)
(* twice.                                                                  *)
(*                                                                         *)
(* NeverOutOfReach is not inductive: what a page will write depends on     *)
(* what it was told long ago.  The invariant adds that this was something  *)
(* that never gets old: whether the page's task has a pool, and who is in  *)
(* it.  A button for claim is shown to pooled actors only, one for release *)
(* where there is a pool, one for reassign where there is none.            *)
(*                                                                         *)
(* PeopleListedOnce and the last lines of TypeOK need a second invariant,  *)
(* of the forms a page goes through: with one id in the address only one   *)
(* answer ever makes the list; no button is shown before the task's answer *)
(* is there; the panel is open on an enabled button; and while a request   *)
(* is on its way, and from its success on, no button is enabled.           *)
(***************************************************************************)
EXTENDS TaskPage, FiniteSetTheorems, FunctionTheorems, SequenceTheorems, TLAPS

\* Who may own t at all, if somebody shall be able to go on with it.
Reach(t) == IF Pool[t] = {} THEN User ELSE Pool[t] \cup {Nobody}

Field == {"id", "asked", "processingTask", "assignee", "people", "header", "dates", "tasks",
          "table", "button", "panel", "isRunning", "put", "leave"}

IsPage(r) == r = [f \in Field |-> r[f]]

IdOK(r) == r.id.task \in Task \cup {NoTask}

ButtonOK(r, u) ==
  /\ r.button \in [Button -> {"none", "on", "off"}]
  /\ \A b \in Button : r.button[b] # "none" => r.id.task \in Task
  /\ r.button["claim"] # "none" => u \in Pool[r.id.task]
  /\ r.button["release"] # "none" => Pool[r.id.task] # {}
  /\ r.button["reassign"] # "none" => Pool[r.id.task] = {}

PanelOK(r) == r.panel => r.id.task \in Task /\ Pool[r.id.task] = {}

PutOK(r) ==
  /\ r.put \in [st : {"none", "sent", "stored"}, owner : User \cup {Nobody}]
  /\ r.put.st # "none" => r.id.task \in Task /\ r.put.owner \in Reach(r.id.task)

HistoryOK(r) ==
  \/ r.table = [current |-> None, past |-> None]
  \/ \A t \in Task : r.table.current[t] + r.table.past[t] = 1

PageOK(r, u) == IsPage(r) /\ IdOK(r) /\ ButtonOK(r, u) /\ PanelOK(r) /\ PutOK(r) /\ HistoryOK(r)

Pages == page = [p \in Page |-> page[p]] /\ \A p \in Page : PageOK(page[p], UserOf[p])
Owners == owner = [t \in Task |-> owner[t]] /\ \A t \in Task : owner[t] \in Reach(t)

IInv == Pages /\ Owners

-----------------------------------------------------------------------------
(* A page's components, one operator at a time.                            *)

\* A form of r that has only changed what the invariant does not look at.
Alike(r, s) ==
  /\ IsPage(s)
  /\ s.id = r.id /\ s.button = r.button /\ s.panel = r.panel /\ s.put = r.put /\ s.table = r.table

\* The invariant of a page depends on the address, the toolbar and the tables of
\* the history only.
LEMMA AlikeOK ==
  ASSUME NEW r, NEW s, NEW u, PageOK(r, u), Alike(r, s)
  PROVE  PageOK(s, u)
BY DEF PageOK, Alike, IdOK, ButtonOK, PanelOK, PutOK, HistoryOK

\* A page that was just opened keeps the invariant, whatever its address names.
LEMMA LoadOK ==
  ASSUME NEW id, id.task \in Task \cup {NoTask}, NEW u
  PROVE  PageOK(Load(id), u) /\ PageOK(NewPage, u)
<1>1. IsPage(NewPage) /\ NewPage.id = NoId /\ NewPage.panel = FALSE /\ NewPage.put = NoPut
        /\ NewPage.button = [b \in Button |-> "none"] /\ NewPage.table = [current |-> None, past |-> None]
  BY DEF NewPage, IsPage, Field
<1>2. IsPage(Load(id)) /\ Load(id).id = id /\ Load(id).panel = FALSE /\ Load(id).put = NoPut
        /\ Load(id).button = [b \in Button |-> "none"] /\ Load(id).table = [current |-> None, past |-> None]
  BY DEF Load, NewPage, IsPage, Field
<1>3. NoPut \in [st : {"none", "sent", "stored"}, owner : User \cup {Nobody}] /\ NoPut.st = "none"
  BY DEF NoPut
<1>4. NoId.task = NoTask
  BY DEF NoId
<1> QED BY <1>1, <1>2, <1>3, <1>4 DEF PageOK, IdOK, ButtonOK, PanelOK, PutOK, HistoryOK, Button

\* The event of the task: each button is what the pool of the task allows.
LEMMA TaskEventOK ==
  ASSUME NEW r, NEW u, PageOK(r, u), NEW t,
         t = List \/ (r.id.task \in Task /\ t = TaskData(r.id.task, u))
  PROVE  PageOK(participantsTask(datesTask(headerTask(toolbarTask(r, t), t), t), t), u)
<1>1. PageOK(toolbarTask(r, t), u)
  <2>1. CASE t = List
    BY <2>1 DEF toolbarTask
  <2>2. CASE t # List
    <3>1. r.id.task \in Task /\ t.can = Can(r.id.task, u)
      BY <2>2 DEF TaskData
    <3> DEFINE s == toolbarTask(r, t)
    <3>2. IsPage(s) /\ s.id = r.id /\ s.panel = r.panel /\ s.put = r.put /\ s.table = r.table
            /\ s.button = [b \in Button |-> IF b \in t.can THEN "on" ELSE "none"]
      BY <2>2 DEF toolbarTask, PageOK, IsPage, Field
    <3>3. /\ "claim" \in t.can => u \in Pool[r.id.task]
          /\ "release" \in t.can => Pool[r.id.task] # {}
          /\ "reassign" \in t.can => Pool[r.id.task] = {}
      BY <3>1 DEF Can, isTaskClaimable, isTaskReleasable, isTaskReassignable
    <3>4. ButtonOK(s, u)
      BY <3>1, <3>2, <3>3 DEF ButtonOK, Button
    <3> QED BY <3>2, <3>4 DEF PageOK, IdOK, PanelOK, PutOK, HistoryOK
  <2> QED BY <2>1, <2>2
<1>2. ASSUME NEW s, PageOK(s, u)
      PROVE  Alike(s, headerTask(s, t)) /\ Alike(s, datesTask(s, t)) /\ Alike(s, participantsTask(s, t))
  BY <1>2 DEF Alike, PageOK, IsPage, Field, headerTask, datesTask, participantsTask
<1> QED BY <1>1, <1>2, AlikeOK

\* The event of the workflow, whatever its data: the tables show every task once.
LEMMA WorkflowEventOK ==
  ASSUME NEW r, NEW u, PageOK(r, u), NEW w
  PROVE  PageOK(workflowDetailedData(r, w), u) /\ PageOK(processWorkflowData(r, w), u)
<1>1. ASSUME NEW s, PageOK(s, u)
      PROVE  Alike(s, headerWorkflow(s, w)) /\ Alike(s, datesWorkflow(s, w)) /\ Alike(s, processWorkflowData(s, w))
  BY <1>1 DEF Alike, PageOK, IsPage, Field, headerWorkflow, datesWorkflow, processWorkflowData
<1>2. ASSUME NEW s, PageOK(s, u)
      PROVE  PageOK(historyWorkflow(s, w), u)
  <2> DEFINE none == [current |-> None, past |-> None]
             e == [s EXCEPT !.tasks = none]
             h == showWorkflowHistory(e, w)
  <2>1. IsPage(e) /\ e.tasks = none /\ Alike(s, e)
    BY <1>2 DEF Alike, PageOK, IsPage, Field
  <2>2. IsPage(h) /\ h.id = s.id /\ h.button = s.button /\ h.panel = s.panel /\ h.put = s.put
          /\ h.table = Push(none, w)
    BY <2>1 DEF showWorkflowHistory, Alike, IsPage, Field
  <2>3. \A t \in Task : Push(none, w).current[t] + Push(none, w).past[t] = 1
    BY DEF Push, None
  <2>4. PageOK(h, u)
    BY <1>2, <2>2, <2>3 DEF PageOK, IdOK, ButtonOK, PanelOK, PutOK, HistoryOK
  <2>5. PageOK(e, u)
    BY <1>2, <2>1, AlikeOK
  <2> QED BY <2>4, <2>5 DEF historyWorkflow
<1>3. ASSUME NEW s, PageOK(s, u)
      PROVE  PageOK(participantsWorkflow(s, w), u)
  BY <1>1, <1>3, AlikeOK DEF participantsWorkflow
<1> QED BY <1>1, <1>2, <1>3, AlikeOK DEF workflowDetailedData

\* A click writes what the task allows, or nothing.
LEMMA ToolbarOK ==
  ASSUME NEW r, NEW u, PageOK(r, u)
  PROVE  /\ PageOK(Disabled(r), u)
         /\ PageOK(Enabled(r), u)
         /\ \A v \in User \cup {Nobody} :
              r.id.task \in Task /\ v \in Reach(r.id.task) => PageOK(updateTaskProperties(r, v), u)
<1>1. PageOK(Disabled(r), u)
  <2>1. IsPage(Disabled(r)) /\ Disabled(r).id = r.id /\ Disabled(r).panel = r.panel
          /\ Disabled(r).put = r.put /\ Disabled(r).table = r.table
          /\ Disabled(r).button = [b \in Button |-> IF r.button[b] = "on" THEN "off" ELSE r.button[b]]
    BY DEF Disabled, PageOK, IsPage, Field
  <2>2. ButtonOK(Disabled(r), u)
    BY <2>1 DEF ButtonOK, PageOK, Button
  <2> QED BY <2>1, <2>2 DEF PageOK, IdOK, PanelOK, PutOK, HistoryOK
<1>2. PageOK(Enabled(r), u)
  <2>1. IsPage(Enabled(r)) /\ Enabled(r).id = r.id /\ Enabled(r).panel = r.panel
          /\ Enabled(r).put = r.put /\ Enabled(r).table = r.table
          /\ Enabled(r).button = [b \in Button |-> IF r.button[b] = "off" THEN "on" ELSE r.button[b]]
    BY DEF Enabled, PageOK, IsPage, Field
  <2>2. ButtonOK(Enabled(r), u)
    BY <2>1 DEF ButtonOK, PageOK, Button
  <2> QED BY <2>1, <2>2 DEF PageOK, IdOK, PanelOK, PutOK, HistoryOK
<1>3. ASSUME NEW v \in User \cup {Nobody}, r.id.task \in Task, v \in Reach(r.id.task)
      PROVE  PageOK(updateTaskProperties(r, v), u)
  <2> DEFINE d == Disabled(r)
             s == [d EXCEPT !.isRunning = TRUE, !.put = [st |-> "sent", owner |-> v]]
  <2>1. d.id = r.id
    BY DEF Disabled, PageOK, IsPage, Field
  <2>2. IsPage(d)
    BY <1>1 DEF PageOK
  <2> HIDE DEF d
  <2>3. IsPage(s) /\ s.id = d.id /\ s.button = d.button /\ s.panel = d.panel /\ s.table = d.table
          /\ s.put = [st |-> "sent", owner |-> v]
    BY <2>2 DEF IsPage, Field
  <2>4. PutOK(s)
    BY <1>3, <2>1, <2>3 DEF PutOK
  <2> HIDE DEF s
  <2>5. PageOK(s, u)
    BY <1>1, <2>3, <2>4 DEF d, PageOK, IdOK, ButtonOK, PanelOK, HistoryOK
  <2> QED BY <1>1, <2>5 DEF updateTaskProperties, d, s
<1> QED BY <1>1, <1>2, <1>3

-----------------------------------------------------------------------------
(* The steps.                                                              *)

\* One page changes and stays what it must be.
LEMMA PageStep ==
  ASSUME Pages, NEW p \in Page, NEW r, PageOK(r, UserOf[p]), page' = [page EXCEPT ![p] = r]
  PROVE  Pages'
<1>1. page' = [q \in Page |-> page'[q]] /\ page'[p] = r /\ \A q \in Page \ {p} : page'[q] = page[q]
  BY DEF Pages
<1>2. \A q \in Page : PageOK(page'[q], UserOf[q])
  BY <1>1 DEF Pages
<1> QED BY <1>1, <1>2 DEF Pages

\* An owner changes to somebody within the task's reach.
LEMMA OwnerStep ==
  ASSUME Owners, NEW t \in Task, NEW v \in Reach(t), owner' = [owner EXCEPT ![t] = v]
  PROVE  Owners'
<1>1. owner' = [x \in Task |-> owner'[x]] /\ owner'[t] = v /\ \A x \in Task \ {t} : owner'[x] = owner[x]
  BY DEF Owners
<1>2. \A x \in Task : owner'[x] \in Reach(x)
  BY <1>1 DEF Owners
<1> QED BY <1>1, <1>2 DEF Owners

\* Who is assigned a task in the beginning is within reach, and no page is open.
LEMMA InitIInv == Init => IInv
<1> SUFFICES ASSUME Init PROVE IInv
  OBVIOUS
<1>1. Owners
  BY TaskPageAssumption DEF Init, Owners, Reach
<1>2. \A p \in Page : PageOK(NewPage, UserOf[p])
  BY LoadOK, NoId.task = NoTask DEF NoId
<1> QED BY <1>1, <1>2 DEF Init, Pages, IInv

\* A failed request and an answer to one leave the toolbar's promises alone.
LEMMA LoaderStep ==
  ASSUME IInv, NEW p \in Page,
         \/ \E r \in Request : Fail(p, r)
         \/ onTaskDetailedData(p) \/ onWorkflowDetailedData(p) \/ onParticipantsData(p)
  PROVE  IInv'
<1>1. PageOK(page[p], UserOf[p])
  BY DEF IInv, Pages
<1>2. owner' = owner
  BY DEF Fail, onTaskDetailedData, onWorkflowDetailedData, onParticipantsData, server
<1>3. ASSUME NEW x
      PROVE  /\ PageOK([page[p] EXCEPT !.asked = @ \ {x}], UserOf[p])
             /\ [page[p] EXCEPT !.asked = @ \ {x}].id = page[p].id
  <2> DEFINE s == [page[p] EXCEPT !.asked = @ \ {x}]
  <2>1. Alike(page[p], s)
    BY <1>1 DEF Alike, PageOK, IsPage, Field
  <2> QED BY <1>1, <2>1, AlikeOK DEF Alike
<1>4. CASE \E r \in Request : Fail(p, r)
  <2>1. PICK r \in Request : Fail(p, r)
    BY <1>4
  <2>2. page' = [page EXCEPT ![p] = [page[p] EXCEPT !.asked = @ \ {r}]]
    BY <2>1 DEF Fail, IInv, Pages
  <2> QED BY <1>2, <1>3, <2>2, PageStep DEF IInv, Owners
<1>5. CASE onTaskDetailedData(p)
  <2> DEFINE t == IF page[p].id.task = NoTask THEN List ELSE TaskData(page[p].id.task, UserOf[p])
             s == [page[p] EXCEPT !.asked = @ \ {"task"}]
  <2>1. t = List \/ (s.id.task \in Task /\ t = TaskData(s.id.task, UserOf[p]))
    BY <1>1, <1>3 DEF PageOK, IdOK
  <2>2. page' = [page EXCEPT ![p] = participantsTask(datesTask(headerTask(toolbarTask(s, t), t), t), t)]
    BY <1>5 DEF onTaskDetailedData
  <2>3. PageOK(s, UserOf[p])
    BY <1>3
  <2> HIDE DEF s, t
  <2>4. PageOK(participantsTask(datesTask(headerTask(toolbarTask(s, t), t), t), t), UserOf[p])
    BY <2>1, <2>3, TaskEventOK
  <2> QED BY <1>2, <2>2, <2>4, PageStep DEF IInv, Owners
<1>6. CASE onWorkflowDetailedData(p)
  <2> DEFINE w == IF page[p].id.workflow THEN WorkflowData ELSE List
             s == [page[p] EXCEPT !.asked = @ \ {"workflow"}]
  <2>1. page' = [page EXCEPT ![p] = workflowDetailedData(s, w)]
    BY <1>6 DEF onWorkflowDetailedData
  <2>2. PageOK(s, UserOf[p])
    BY <1>3
  <2> HIDE DEF s, w
  <2>3. PageOK(workflowDetailedData(s, w), UserOf[p])
    BY <2>2, WorkflowEventOK
  <2> QED BY <1>2, <2>1, <2>3, PageStep DEF IInv, Owners
<1>7. CASE onParticipantsData(p)
  <2> DEFINE w == WorkflowData
             s == [page[p] EXCEPT !.asked = @ \ {"participants"}]
  <2>1. page' = [page EXCEPT ![p] = processWorkflowData(workflowDetailedData(s, w), w)]
    BY <1>7 DEF onParticipantsData
  <2>2. PageOK(s, UserOf[p])
    BY <1>3
  <2> HIDE DEF s, w
  <2>3. PageOK(processWorkflowData(workflowDetailedData(s, w), w), UserOf[p])
    BY <2>2, WorkflowEventOK
  <2> QED BY <1>2, <2>1, <2>3, PageStep DEF IInv, Owners
<1> QED BY <1>4, <1>5, <1>6, <1>7

\* A click on a stale button still asks for something the task's pool allows.
LEMMA ClickStep ==
  ASSUME IInv, NEW p \in Page,
         \/ onClaimButtonClick(p) \/ onReleaseButtonClick(p)
         \/ onReassignButtonClick(p) \/ onPersonSelected(p) \/ closePanel(p)
  PROVE  IInv'
<1>1. PageOK(page[p], UserOf[p])
  BY DEF IInv, Pages
<1>2. owner' = owner
  BY DEF onClaimButtonClick, onReleaseButtonClick, onReassignButtonClick, onPersonSelected,
         closePanel, server
<1>3. ASSUME NEW x \in BOOLEAN, x => page[p].id.task \in Task /\ Pool[page[p].id.task] = {}
      PROVE  /\ PageOK([page[p] EXCEPT !.panel = x], UserOf[p])
             /\ [page[p] EXCEPT !.panel = x].id = page[p].id
  <2> DEFINE s == [page[p] EXCEPT !.panel = x]
  <2>1. IsPage(s) /\ s.id = page[p].id /\ s.button = page[p].button /\ s.panel = x
          /\ s.put = page[p].put /\ s.table = page[p].table
    BY <1>1 DEF PageOK, IsPage, Field
  <2> HIDE DEF s
  <2>2. PageOK(s, UserOf[p]) /\ s.id = page[p].id
    BY <1>1, <1>3, <2>1 DEF PageOK, IdOK, ButtonOK, PanelOK, PutOK, HistoryOK
  <2> QED BY <2>2 DEF s
<1>4. CASE onClaimButtonClick(p)
  <2>1. page[p].id.task \in Task /\ UserOf[p] \in Pool[page[p].id.task]
    BY <1>1, <1>4 DEF onClaimButtonClick, Clickable, PageOK, ButtonOK, Button
  <2>2. UserOf[p] \in Reach(page[p].id.task) /\ UserOf[p] \in User
    BY <2>1, TaskPageAssumption DEF Reach
  <2>3. page' = [page EXCEPT ![p] = updateTaskProperties(page[p], UserOf[p])]
    BY <1>4 DEF onClaimButtonClick
  <2> QED BY <1>1, <1>2, <2>1, <2>2, <2>3, ToolbarOK, PageStep DEF IInv, Owners
<1>5. CASE onReleaseButtonClick(p)
  <2>1. page[p].id.task \in Task /\ Pool[page[p].id.task] # {}
    BY <1>1, <1>5 DEF onReleaseButtonClick, Clickable, PageOK, ButtonOK, Button
  <2>2. Nobody \in Reach(page[p].id.task)
    BY <2>1 DEF Reach
  <2>3. page' = [page EXCEPT ![p] = updateTaskProperties(page[p], Nobody)]
    BY <1>5 DEF onReleaseButtonClick
  <2> QED BY <1>1, <1>2, <2>1, <2>2, <2>3, ToolbarOK, PageStep DEF IInv, Owners
<1>6. CASE onReassignButtonClick(p)
  <2>1. page[p].id.task \in Task /\ Pool[page[p].id.task] = {}
    BY <1>1, <1>6 DEF onReassignButtonClick, Clickable, PageOK, ButtonOK, Button
  <2>2. page' = [page EXCEPT ![p] = [page[p] EXCEPT !.panel = TRUE]]
    BY <1>6 DEF onReassignButtonClick, IInv, Pages
  <2> QED BY <1>2, <1>3, <2>1, <2>2, PageStep DEF IInv, Owners
<1>7. CASE onPersonSelected(p)
  <2> DEFINE s == [page[p] EXCEPT !.panel = FALSE]
  <2>1. PICK u \in User : page' = [page EXCEPT ![p] = updateTaskProperties(s, u)]
    BY <1>7 DEF onPersonSelected
  <2>2. PageOK(s, UserOf[p]) /\ s.id = page[p].id
    BY <1>3
  <2>3. page[p].id.task \in Task /\ Pool[page[p].id.task] = {}
    BY <1>1, <1>7 DEF onPersonSelected, PageOK, PanelOK
  <2> HIDE DEF s
  <2>4. PageOK(updateTaskProperties(s, u), UserOf[p])
    BY <2>2, <2>3, ToolbarOK DEF Reach
  <2> QED BY <1>2, <2>1, <2>4, PageStep DEF IInv, Owners
<1>8. CASE closePanel(p)
  <2>1. page' = [page EXCEPT ![p] = [page[p] EXCEPT !.panel = FALSE]]
    BY <1>8 DEF closePanel, IInv, Pages
  <2> QED BY <1>2, <1>3, <2>1, PageStep DEF IInv, Owners
<1> QED BY <1>4, <1>5, <1>6, <1>7, <1>8

\* What the toolbar asked for is stored, answered or refused, and its timer fires.
LEMMA EndingStep ==
  ASSUME IInv, NEW p \in Page, Ending(p)
  PROVE  IInv'
<1>1. PageOK(page[p], UserOf[p])
  BY DEF IInv, Pages
<1>2. CASE updateTask(p)
  <2> DEFINE t == page[p].id.task
             s == [page[p] EXCEPT !.put = [page[p].put EXCEPT !.st = "stored"]]
  <2>1. t \in Task /\ page[p].put.owner \in Reach(t)
    BY <1>1, <1>2 DEF updateTask, PageOK, PutOK
  <2>2. Owners'
    BY <1>2, <2>1, OwnerStep DEF updateTask, IInv
  <2>3. IsPage(s) /\ s.id = page[p].id /\ s.button = page[p].button /\ s.panel = page[p].panel
          /\ s.put = [page[p].put EXCEPT !.st = "stored"] /\ s.table = page[p].table
    BY <1>1 DEF PageOK, IsPage, Field
  <2>4. s.put \in [st : {"none", "sent", "stored"}, owner : User \cup {Nobody}]
          /\ s.put.owner = page[p].put.owner
    BY <1>1, <2>3 DEF PageOK, PutOK
  <2>5. page' = [page EXCEPT ![p] = s]
    BY <1>2 DEF updateTask, IInv, Pages
  <2> HIDE DEF s
  <2>6. PageOK(s, UserOf[p])
    BY <1>1, <2>1, <2>3, <2>4 DEF PageOK, IdOK, ButtonOK, PanelOK, PutOK, HistoryOK
  <2> QED BY <2>2, <2>5, <2>6, PageStep DEF IInv
<1>3. CASE updateSuccess(p)
  <2> DEFINE l == IF page[p].put.owner = UserOf[p] THEN "reload" ELSE "forward"
             s == [page[p] EXCEPT !.isRunning = FALSE, !.put = NoPut, !.leave = l]
  <2>1. page' = [page EXCEPT ![p] = s]
    BY <1>3 DEF updateSuccess, IInv, Pages
  <2>2. IsPage(s) /\ s.id = page[p].id /\ s.button = page[p].button /\ s.panel = page[p].panel
          /\ s.put = NoPut /\ s.table = page[p].table
    BY <1>1 DEF PageOK, IsPage, Field
  <2> HIDE DEF s
  <2>3. PageOK(s, UserOf[p])
    BY <1>1, <2>2 DEF PageOK, IdOK, ButtonOK, PanelOK, PutOK, HistoryOK, NoPut
  <2> QED BY <1>3, <2>1, <2>3, PageStep DEF IInv, Owners, updateSuccess, server
<1>4. CASE updateFailure(p)
  <2> DEFINE s == [page[p] EXCEPT !.isRunning = FALSE, !.put = NoPut]
  <2>1. page' = [page EXCEPT ![p] = Enabled(s)]
    BY <1>4 DEF updateFailure
  <2>2. IsPage(s) /\ s.id = page[p].id /\ s.button = page[p].button /\ s.panel = page[p].panel
          /\ s.put = NoPut /\ s.table = page[p].table
    BY <1>1 DEF PageOK, IsPage, Field
  <2> HIDE DEF s
  <2>3. PageOK(s, UserOf[p])
    BY <1>1, <2>2 DEF PageOK, IdOK, ButtonOK, PanelOK, PutOK, HistoryOK, NoPut
  <2> QED BY <1>4, <2>1, <2>3, ToolbarOK, PageStep DEF IInv, Owners, updateFailure, server
<1>5. CASE Leave(p)
  <2>1. PageOK(Load(page[p].id), UserOf[p]) /\ PageOK(NewPage, UserOf[p])
    BY <1>1, LoadOK DEF PageOK, IdOK
  <2>2. page' = [page EXCEPT ![p] = IF page[p].leave = "reload" THEN Load(page[p].id) ELSE NewPage]
    BY <1>5 DEF Leave
  <2> QED BY <1>5, <2>1, <2>2, PageStep DEF IInv, Owners, Leave, server
<1> QED BY <1>2, <1>3, <1>4, <1>5 DEF Ending

\* Every step keeps the invariant.
LEMMA NextIInv == IInv /\ [Next]_vars => IInv'
<1> SUFFICES ASSUME IInv, [Next]_vars PROVE IInv'
  OBVIOUS
<1>1. ASSUME NEW p \in Page, Open(p) PROVE IInv'
  <2>1. PICK id \in Address[p] \ {NoId} : page' = [page EXCEPT ![p] = Load(id)]
    BY <1>1 DEF Open
  <2>2. id.task \in Task \cup {NoTask}
    BY <2>1, TaskPageAssumption
  <2> QED BY <1>1, <2>1, <2>2, LoadOK, PageStep DEF IInv, Owners, Open, server
<1>2. ASSUME NEW p \in Page, Close(p) PROVE IInv'
  <2>1. PageOK(NewPage, UserOf[p])
    BY LoadOK, NoId.task = NoTask DEF NoId
  <2> QED BY <1>2, <2>1, PageStep DEF IInv, Owners, Close, server
<1>3. ASSUME NEW t \in Task, EndTask(t) PROVE IInv'
  BY <1>3 DEF IInv, Pages, Owners, EndTask
<1>4. CASE UNCHANGED vars
  BY <1>4 DEF IInv, Pages, Owners, vars
<1> QED BY <1>1, <1>2, <1>3, <1>4, LoaderStep, ClickStep, EndingStep DEF Next

-----------------------------------------------------------------------------
(* The forms of a page.                                                    *)

Person == [user : User, role : Role]

\* The types of a page, as far as the toolbar's invariant does not give them.
ShapeOK(r) ==
  /\ r.id \in [task : Task \cup {NoTask}, workflow : BOOLEAN]
  /\ r.asked \subseteq Request
  /\ r.assignee \in User \cup {Nobody}
  /\ r.people \in Seq(Person)
  /\ {r.header, r.dates} \subseteq Task \cup {NoTask}
  /\ r.leave \in {"no", "reload", "forward"}

\* Buttons are disabled while a request is on its way and until the page is left, and none
\* is shown before the task's data are there.
BarOK(r) ==
  /\ r.isRunning = (r.put # NoPut)
  /\ r.put # NoPut => r.leave = "no"
  /\ "task" \in r.asked => r.put = NoPut /\ r.leave = "no" /\ ~r.panel /\ \A b \in Button : r.button[b] = "none"
  /\ r.panel => r.button["reassign"] = "on"
  /\ IF r.put # NoPut \/ r.leave # "no"
     THEN (\E b \in Button : r.button[b] = "off") /\ \A b \in Button : r.button[b] # "on"
     ELSE \A b \in Button : r.button[b] # "off"

Unique(people) ==
  \A i, j \in 1 .. Len(people) :
    i # j => /\ people[i] # people[j]
             /\ people[i].role = "otherTaskAssignee" => people[i].user # people[j].user

\* With one id in the address one answer only makes the list of participants.
ListOK(r) ==
  /\ r.id.task = NoTask =>
       /\ ~r.processingTask /\ "participants" \notin r.asked
       /\ "workflow" \in r.asked => r.people = <<>>
  /\ r.id.task # NoTask /\ ~r.id.workflow =>
       /\ "task" \in r.asked => r.people = <<>> /\ "participants" \notin r.asked
       /\ "participants" \in r.asked => r.people = <<>> /\ r.processingTask
  /\ r.id.task = NoTask \/ ~r.id.workflow => Unique(r.people)

FormOK(r) == ShapeOK(r) /\ BarOK(r) /\ ListOK(r)
-----------------------------------------------------------------------------
(* The list of participants.                                               *)

\* Any order of a finite set is a sequence that has each element once.
LEMMA InAnyOrderOK ==
  ASSUME NEW S, IsFiniteSet(S), NEW s, s = InAnyOrder(S)
  PROVE  /\ s \in Seq(S)
         /\ \A i, j \in 1 .. Len(s) : i # j => s[i] # s[j]
<1>1. PICK n : n = Cardinality(S)
  OBVIOUS
<1>2. n \in Nat /\ ExistsBijection(1 .. n, S)
  BY <1>1, FS_CardinalityType
<1>3. \E f \in [1 .. n -> S] : \A x \in S : \E i \in DOMAIN f : f[i] = x
  BY <1>2 DEF ExistsBijection, Bijection, Surjection
<1>4. s \in [1 .. n -> S] /\ \A x \in S : \E i \in DOMAIN s : s[i] = x
  BY <1>1, <1>3 DEF InAnyOrder
<1>5. PICK D : D = 1 .. n
  OBVIOUS
<1>6. IsFiniteSet(D) /\ Cardinality(D) = n
  BY <1>2, <1>5, FS_Interval
<1>7. s \in Surjection(D, S)
  <2>1. s \in [D -> S] /\ \A x \in S : \E i \in D : s[i] = x
    BY <1>4, <1>5
  <2> QED BY <2>1 DEF Surjection
<1>8. s \in Injection(D, S)
  <2>1. Cardinality(S) = Cardinality(D) <=> s \in Injection(D, S)
    BY <1>6, <1>7, FS_Surjection
  <2> QED BY <1>1, <1>6, <2>1
<1>9. \A i, j \in 1 .. n : i # j => s[i] # s[j]
  BY <1>5, <1>8 DEF Injection, IsInjective
<1>10. s \in Seq(S) /\ Len(s) = n
  BY <1>2, <1>4
<1> QED BY <1>9, <1>10

\* Only finitely many people own tasks.
LEMMA OwnersFinite ==
  ASSUME NEW f, NEW S, S \subseteq {f[t] : t \in Task}
  PROVE  IsFiniteSet(S)
<1> DEFINE T == {f[t] : t \in Task}
           g == [t \in Task |-> f[t]]
<1>1. g \in [Task -> T] /\ \A x \in T : \E t \in Task : g[t] = x
  OBVIOUS
<1>2. g \in Surjection(Task, T)
  BY <1>1, Fun_IsSurj
<1>3. IsFiniteSet(T)
  BY <1>2, FS_Surjection, TaskPageAssumption
<1> QED BY <1>3, FS_Subset

Appended(people, assignee, o) ==
  people \o <<Element(Initiator, "initiator")>>
    \o (IF assignee = Nobody THEN <<>> ELSE <<Element(assignee, "assignee")>>)
    \o InAnyOrder({Element(u, "otherTaskAssignee") : u \in {o[t] : t \in Task} \ {Nobody, Initiator, assignee}})

\* One answer appends the initiator, the assignee and the others, each once.
LEMMA AppendedOK ==
  ASSUME NEW assignee \in User \cup {Nobody}, NEW o \in [Task -> User \cup {Nobody}],
         NEW people \in Seq(Person), NEW l, l = Appended(people, assignee, o)
  PROVE  l \in Seq(Person) /\ (people = <<>> => Unique(l))
<1> DEFINE others == {o[t] : t \in Task} \ {Nobody, Initiator, assignee}
           S == {Element(u, "otherTaskAssignee") : u \in others}
<1>1. IsFiniteSet(S)
  <2> DEFINE f == [u \in others |-> Element(u, "otherTaskAssignee")]
  <2>1. f \in [others -> S] /\ \A x \in S : \E u \in others : f[u] = x
    OBVIOUS
  <2>2. f \in Surjection(others, S)
    BY <2>1, Fun_IsSurj
  <2>3. IsFiniteSet(others)
    BY OwnersFinite
  <2> QED BY <2>2, <2>3, FS_Surjection
<1>2. \A x \in S : x \in Person /\ x.role = "otherTaskAssignee" /\ x.user \notin {Initiator, assignee}
  BY DEF Element, Person, Role
<1>3. \A x, y \in S : x.user = y.user => x = y
  BY DEF Element
<1>s. PICK s : s = InAnyOrder(S)
  OBVIOUS
<1>e. PICK e : e = Element(Initiator, "initiator")
  OBVIOUS
<1>f. PICK f : f = IF assignee = Nobody THEN <<>> ELSE <<Element(assignee, "assignee")>>
  OBVIOUS
<1>l. l = people \o <<e>> \o f \o s
  BY <1>s, <1>e, <1>f DEF Appended
<1> HIDE DEF S
<1>4. /\ s \in Seq(S)
      /\ \A i, j \in 1 .. Len(s) : i # j => s[i] # s[j]
  BY <1>1, <1>s, InAnyOrderOK
<1>5. /\ s \in Seq(Person)
      /\ \A i \in 1 .. Len(s) : s[i].role = "otherTaskAssignee" /\ s[i].user \notin {Initiator, assignee}
      /\ \A i, j \in 1 .. Len(s) : i # j => s[i].user # s[j].user
  <2>1. \A i \in 1 .. Len(s) : s[i] \in S
    BY <1>4
  <2>2. s \in Seq(Person)
    BY <1>2, <1>4, <2>1
  <2> QED BY <1>2, <1>3, <1>4, <2>1, <2>2
<1>6. e \in Person /\ e.role = "initiator" /\ e.user = Initiator
  BY <1>e, TaskPageAssumption DEF Element, Person, Role
<1>7. /\ f \in Seq(Person) /\ Len(f) \in {0, 1}
      /\ Len(f) = 1 => f[1].role = "assignee" /\ f[1].user = assignee
  <2>1. CASE assignee = Nobody
    BY <1>f, <2>1
  <2>2. CASE assignee # Nobody
    <3>1. PICK g : g = Element(assignee, "assignee")
      OBVIOUS
    <3>2. g \in Person /\ g.role = "assignee" /\ g.user = assignee
      BY <2>2, <3>1 DEF Element, Person, Role
    <3>3. f = <<g>>
      BY <1>f, <2>2, <3>1
    <3> QED BY <3>2, <3>3
  <2> QED BY <2>1, <2>2
<1>8. PICK h : h = people \o <<e>>
  OBVIOUS
<1>9. h \in Seq(Person) /\ (people = <<>> => Len(h) = 1 /\ h[1] = e)
  BY <1>6, <1>8
<1>10. PICK k : k = h \o f
  OBVIOUS
<1>11. k \in Seq(Person)
  BY <1>7, <1>9, <1>10, ConcatProperties
<1>12. l = k \o s
  BY <1>l, <1>8, <1>10
<1>13. l \in Seq(Person)
  BY <1>5, <1>11, <1>12, ConcatProperties
<1>14. ASSUME people = <<>> PROVE Unique(l)
  <2>1. Len(h) = 1 /\ h[1] = e
    BY <1>9, <1>14
  <2>2. /\ Len(k) = 1 + Len(f) /\ Len(k) \in {1, 2}
        /\ k[1] = e /\ (Len(k) = 2 => k[2].role = "assignee" /\ k[2].user = assignee)
    <3>1. /\ Len(k) = Len(h) + Len(f)
          /\ \A i \in 1 .. Len(h) + Len(f) : k[i] = IF i <= Len(h) THEN h[i] ELSE f[i - Len(h)]
      BY <1>7, <1>9, <1>10, ConcatProperties
    <3>2. Len(k) = 1 + Len(f) /\ Len(k) \in {1, 2}
      BY <1>7, <2>1, <3>1
    <3>3. k[1] = e
      <4>1. 1 \in 1 .. 1 + Len(f)
        BY <1>7
      <4>2. k[1] = IF 1 <= Len(h) THEN h[1] ELSE f[1 - Len(h)]
        BY <2>1, <3>1, <4>1
      <4> QED BY <2>1, <4>2
    <3>4. ASSUME Len(f) = 1 PROVE k[2] = f[1]
      <4>1. k[2] = IF 2 <= Len(h) THEN h[2] ELSE f[2 - Len(h)]
        BY <2>1, <3>1, <3>4
      <4> QED BY <2>1, <4>1
    <3> QED BY <1>7, <3>2, <3>3, <3>4
  <2>3. /\ Len(l) = Len(k) + Len(s)
        /\ \A i \in 1 .. Len(k) + Len(s) : l[i] = IF i <= Len(k) THEN k[i] ELSE s[i - Len(k)]
    <3>1. s \in Seq(Person)
      BY <1>5
    <3> QED BY <1>11, <1>12, <3>1, ConcatProperties
  <2>4. PICK n \in Nat, m \in Nat : n = Len(k) /\ m = Len(s) /\ (n = 1 \/ n = 2)
    <3>1. Len(s) \in Nat
      BY <1>5
    <3> QED BY <2>2, <3>1
  <2>5. \A i \in 1 .. n : k[i].role # "otherTaskAssignee" /\ k[i].user \in {Initiator, assignee}
    <3>1. n = 1 \/ n = 2
      BY <2>4
    <3>2. \A i \in 1 .. n : i = 1 \/ (n = 2 /\ i = 2)
      BY <3>1
    <3> QED BY <1>6, <2>2, <2>4, <3>2
  <2>6. k[1] # k[2] \/ n = 1
    BY <1>6, <2>2, <2>4
  <2>7. ASSUME NEW i \in 1 .. n + m
        PROVE  \/ i \in 1 .. n /\ l[i] = k[i]
               \/ i - n \in 1 .. m /\ l[i] = s[i - n]
    <3>1. l[i] = IF i <= n THEN k[i] ELSE s[i - n]
      <4>1. i \in 1 .. Len(k) + Len(s)
        BY <2>4, <2>7
      <4>2. l[i] = IF i <= Len(k) THEN k[i] ELSE s[i - Len(k)]
        BY <2>3, <4>1
      <4> QED BY <2>4, <4>2
    <3>2. i \in 1 .. n \/ (i - n \in 1 .. m /\ ~(i <= n))
      BY <2>7
    <3>3. i \in 1 .. n => i <= n
      OBVIOUS
    <3> QED BY <3>1, <3>2, <3>3
  <2>8. ASSUME NEW i \in 1 .. n, NEW j \in 1 .. n, i # j
        PROVE  k[i] # k[j]
    <3>1. n = 2 /\ ((i = 1 /\ j = 2) \/ (i = 2 /\ j = 1))
      <4>1. n = 1 \/ n = 2
        BY <2>4
      <4> QED BY <2>8, <4>1
    <3> QED BY <2>6, <3>1
  <2>9. ASSUME NEW i \in 1 .. Len(l), NEW j \in 1 .. Len(l), i # j
        PROVE  l[i] # l[j] /\ (l[i].role = "otherTaskAssignee" => l[i].user # l[j].user)
    <3>1. i \in 1 .. n + m /\ j \in 1 .. n + m
      BY <2>3, <2>4, <2>9
    <3>2. \/ i \in 1 .. n /\ l[i] = k[i]
          \/ i - n \in 1 .. m /\ l[i] = s[i - n]
      BY <2>7, <3>1
    <3>3. \/ j \in 1 .. n /\ l[j] = k[j]
          \/ j - n \in 1 .. m /\ l[j] = s[j - n]
      BY <2>7, <3>1
    <3>4. CASE i \in 1 .. n /\ l[i] = k[i] /\ j \in 1 .. n /\ l[j] = k[j]
      BY <2>5, <2>8, <2>9, <3>4
    <3>5. CASE i \in 1 .. n /\ l[i] = k[i] /\ j - n \in 1 .. m /\ l[j] = s[j - n]
      <4>1. s[j - n].role = "otherTaskAssignee"
        BY <1>5, <2>4, <3>5
      <4> QED BY <2>5, <3>5, <4>1
    <3>6. CASE i - n \in 1 .. m /\ l[i] = s[i - n] /\ j \in 1 .. n /\ l[j] = k[j]
      <4>1. s[i - n].role = "otherTaskAssignee" /\ s[i - n].user \notin {Initiator, assignee}
        BY <1>5, <2>4, <3>6
      <4> QED BY <2>5, <3>6, <4>1
    <3>7. CASE i - n \in 1 .. m /\ l[i] = s[i - n] /\ j - n \in 1 .. m /\ l[j] = s[j - n]
      <4>1. i - n # j - n
        BY <2>4, <2>9, <3>1
      <4>2. s[i - n].user # s[j - n].user
        BY <1>5, <2>4, <3>7, <4>1
      <4> QED BY <3>7, <4>2
    <3> QED BY <3>2, <3>3, <3>4, <3>5, <3>6, <3>7
  <2> QED BY <2>9 DEF Unique
<1> QED BY <1>13, <1>14

-----------------------------------------------------------------------------
(* What each operation leaves of a page.                                   *)

SameBar(r, s) ==
  /\ s.button = r.button /\ s.panel = r.panel
  /\ s.isRunning = r.isRunning /\ s.put = r.put /\ s.leave = r.leave

SameList(r, s) == s.people = r.people /\ s.processingTask = r.processingTask

SameView(r, s) == s.assignee = r.assignee /\ s.header = r.header /\ s.dates = r.dates

Less(r, x) == [r EXCEPT !.asked = @ \ {x}]

\* One answer less to wait for.
LEMMA LessForm ==
  ASSUME NEW r, IsPage(r), FormOK(r), NEW x
  PROVE  /\ IsPage(Less(r, x)) /\ FormOK(Less(r, x))
         /\ Less(r, x).id = r.id /\ Less(r, x).asked = r.asked \ {x}
         /\ SameBar(r, Less(r, x)) /\ SameList(r, Less(r, x)) /\ SameView(r, Less(r, x))
<1>1. /\ IsPage(Less(r, x)) /\ Less(r, x).id = r.id /\ Less(r, x).asked = r.asked \ {x}
      /\ SameBar(r, Less(r, x)) /\ SameList(r, Less(r, x)) /\ SameView(r, Less(r, x))
  BY DEF IsPage, Field, Less, SameBar, SameList, SameView
<1>2. ShapeOK(Less(r, x))
  BY <1>1 DEF FormOK, ShapeOK, SameBar, SameList, SameView
<1>3. BarOK(Less(r, x))
  BY <1>1 DEF FormOK, BarOK, SameBar
<1>4. ListOK(Less(r, x))
  BY <1>1 DEF FormOK, ListOK, SameList
<1> QED BY <1>1, <1>2, <1>3, <1>4 DEF FormOK

\* A page that was just opened shows nothing and has asked for the task and the workflow.
LEMMA LoadForm ==
  ASSUME NEW id \in [task : Task \cup {NoTask}, workflow : BOOLEAN]
  PROVE  FormOK(Load(id)) /\ FormOK(NewPage)
<1>1. /\ NewPage.id = NoId /\ NewPage.asked = {} /\ NewPage.people = <<>> /\ NewPage.assignee = Nobody
      /\ NewPage.header = NoTask /\ NewPage.dates = NoTask /\ NewPage.leave = "no" /\ NewPage.put = NoPut
      /\ NewPage.isRunning = FALSE /\ NewPage.panel = FALSE /\ NewPage.processingTask = FALSE
      /\ NewPage.button = [b \in Button |-> "none"]
  BY DEF NewPage
<1>2. /\ Load(id).id = id /\ Load(id).asked = {"task", "workflow"} /\ Load(id).people = <<>>
      /\ Load(id).assignee = Nobody
      /\ Load(id).header = NoTask /\ Load(id).dates = NoTask /\ Load(id).leave = "no" /\ Load(id).put = NoPut
      /\ Load(id).isRunning = FALSE /\ Load(id).panel = FALSE /\ Load(id).processingTask = FALSE
      /\ Load(id).button = [b \in Button |-> "none"]
  BY DEF Load, NewPage
<1>3. NoId \in [task : Task \cup {NoTask}, workflow : BOOLEAN] /\ NoId.task = NoTask
  BY DEF NoId
<1>4. Unique(<<>>)
  BY DEF Unique
<1>5. <<>> \in Seq(Person)
  OBVIOUS
<1>6. ShapeOK(Load(id)) /\ ShapeOK(NewPage)
  BY <1>1, <1>2, <1>3, <1>5 DEF ShapeOK, Request
<1>7. BarOK(Load(id)) /\ BarOK(NewPage)
  BY <1>1, <1>2 DEF BarOK
<1>8. ListOK(Load(id)) /\ ListOK(NewPage)
  BY <1>1, <1>2, <1>3, <1>4 DEF ListOK
<1> QED BY <1>6, <1>7, <1>8 DEF FormOK

TaskEvent(r, t) == participantsTask(datesTask(headerTask(toolbarTask(r, t), t), t), t)

\* The task's data put buttons into an empty toolbar and send the participants asking.
LEMMA TaskEventForm ==
  ASSUME NEW r, IsPage(r), FormOK(r), "task" \in r.asked, NEW u, NEW s, s = Less(r, "task"), NEW t,
         t = List \/ (r.id.task \in Task /\ t = TaskData(r.id.task, u)),
         Owners
  PROVE  FormOK(TaskEvent(s, t))
<1>1. /\ IsPage(s) /\ FormOK(s) /\ s.id = r.id /\ s.asked = r.asked \ {"task"}
      /\ SameBar(r, s) /\ SameList(r, s) /\ SameView(r, s)
  BY LessForm
<1>2. CASE t = List
  BY <1>1, <1>2 DEF TaskEvent, toolbarTask, headerTask, datesTask, participantsTask
<1>3. CASE t # List
  <2>1. r.id.task \in Task /\ t.id = r.id.task /\ t.owner \in User \cup {Nobody}
    <3>1. r.id.task \in Task /\ t = TaskData(r.id.task, u)
      BY <1>3
    <3>2. t.id = r.id.task /\ t.owner = owner[r.id.task]
      BY <3>1 DEF TaskData
    <3> QED BY <3>1, <3>2, TaskPageAssumption DEF Owners, Reach
  <2>a. PICK a : a = toolbarTask(s, t)
    OBVIOUS
  <2>2. /\ IsPage(a) /\ a.id = s.id /\ a.asked = s.asked /\ SameList(s, a) /\ SameView(s, a)
        /\ a.button = [b \in Button |-> IF b \in t.can THEN "on" ELSE "none"]
        /\ a.panel = s.panel /\ a.isRunning = s.isRunning /\ a.put = s.put /\ a.leave = s.leave
    BY <1>1, <1>3, <2>a DEF toolbarTask, IsPage, Field, SameList, SameView
  <2>b. PICK h : h = headerTask(a, t)
    OBVIOUS
  <2>3. /\ IsPage(h) /\ h.id = a.id /\ h.asked = a.asked /\ SameList(a, h) /\ SameBar(a, h)
        /\ h.assignee = a.assignee /\ h.header = t.id /\ h.dates = a.dates
    BY <1>3, <2>2, <2>b DEF headerTask, IsPage, Field, SameList, SameBar
  <2>c. PICK d : d = datesTask(h, t)
    OBVIOUS
  <2>4. /\ IsPage(d) /\ d.id = h.id /\ d.asked = h.asked /\ SameList(h, d) /\ SameBar(h, d)
        /\ d.assignee = h.assignee /\ d.header = h.header /\ d.dates = t.id
    BY <1>3, <2>3, <2>c DEF datesTask, IsPage, Field, SameList, SameBar
  <2>d. PICK e : e = participantsTask(d, t)
    OBVIOUS
  <2>5. /\ e.id = d.id /\ e.asked = d.asked \cup {"participants"} /\ SameBar(d, e)
        /\ e.people = d.people /\ e.processingTask = TRUE
        /\ e.assignee = t.owner /\ e.header = d.header /\ e.dates = d.dates
    BY <1>3, <2>4, <2>d DEF participantsTask, IsPage, Field, SameBar
  <2>6. /\ e.id = r.id /\ e.asked = (r.asked \ {"task"}) \cup {"participants"}
        /\ e.button = [b \in Button |-> IF b \in t.can THEN "on" ELSE "none"]
        /\ e.panel = r.panel /\ e.isRunning = r.isRunning /\ e.put = r.put /\ e.leave = r.leave
        /\ e.people = r.people /\ e.processingTask = TRUE
        /\ e.assignee = t.owner /\ e.header = t.id /\ e.dates = t.id
    BY <1>1, <2>2, <2>3, <2>4, <2>5 DEF SameBar, SameList, SameView
  <2>7. ShapeOK(e)
    BY <2>1, <2>6 DEF FormOK, ShapeOK, Request
  <2>8. BarOK(e)
    BY <2>6 DEF FormOK, BarOK, Button
  <2>9. ListOK(e)
    BY <2>1, <2>6, TaskPageAssumption DEF FormOK, ListOK
  <2> QED BY <2>a, <2>b, <2>c, <2>d, <2>7, <2>8, <2>9 DEF TaskEvent, FormOK
<1> QED BY <1>2, <1>3

\* The workflow's data append to the participants.
LEMMA ProcessFields ==
  ASSUME NEW r, IsPage(r), NEW w
  PROVE  LET s == processWorkflowData(r, w) IN
         /\ IsPage(s) /\ s.id = r.id /\ s.asked = r.asked /\ SameBar(r, s) /\ SameView(r, s)
         /\ s.processingTask = r.processingTask
         /\ s.people = Appended(r.people, r.assignee, w.owner)
BY DEF processWorkflowData, Appended, IsPage, Field, SameBar, SameView

\* The loader's event leaves the list when the participants have asked for the data themselves.
Gained(r, w) ==
  IF r.processingTask \/ w = List THEN r.people ELSE Appended(r.people, r.assignee, w.owner)

\* The event of the workflow, beside the tables of the history.
LEMMA WorkflowEventFields ==
  ASSUME NEW r, IsPage(r), NEW w, r.header \in Task \cup {NoTask} /\ r.dates \in Task \cup {NoTask}
  PROVE  LET s == workflowDetailedData(r, w) IN
         /\ IsPage(s) /\ s.id = r.id /\ s.asked = r.asked /\ SameBar(r, s)
         /\ s.assignee = r.assignee /\ s.processingTask = r.processingTask
         /\ s.header \in Task \cup {NoTask} /\ s.dates \in Task \cup {NoTask}
         /\ s.people = Gained(r, w)
<1>a. PICK a : a = headerWorkflow(r, w)
  OBVIOUS
<1>1. /\ IsPage(a) /\ a.id = r.id /\ a.asked = r.asked /\ SameList(r, a) /\ SameBar(r, a)
      /\ a.assignee = r.assignee /\ a.header \in Task \cup {NoTask} /\ a.dates = r.dates
  BY <1>a, TaskPageAssumption DEF headerWorkflow, IsPage, Field, SameList, SameBar
<1>b. PICK b : b = datesWorkflow(a, w)
  OBVIOUS
<1>2. /\ IsPage(b) /\ b.id = a.id /\ b.asked = a.asked /\ SameList(a, b) /\ SameBar(a, b)
      /\ b.assignee = a.assignee /\ b.header = a.header /\ b.dates \in Task \cup {NoTask}
  BY <1>b, <1>1, TaskPageAssumption DEF datesWorkflow, IsPage, Field, SameList, SameBar
<1>c. PICK c : c = participantsWorkflow(b, w)
  OBVIOUS
<1>3. /\ IsPage(c) /\ c.id = b.id /\ c.asked = b.asked /\ SameBar(b, c) /\ SameView(b, c)
      /\ c.processingTask = b.processingTask
      /\ c.people = Gained(b, w)
  <2>1. CASE b.processingTask \/ w = List
    BY <1>c, <1>2, <2>1 DEF participantsWorkflow, SameBar, SameView, Gained
  <2>2. CASE ~(b.processingTask \/ w = List)
    BY <1>c, <1>2, <2>2, ProcessFields DEF participantsWorkflow, Gained
  <2> QED BY <2>1, <2>2
<1>d. PICK d : d = historyWorkflow(c, w)
  OBVIOUS
<1>4. IsPage(d) /\ d.id = c.id /\ d.asked = c.asked /\ SameBar(c, d) /\ SameView(c, d) /\ SameList(c, d)
  <2> DEFINE h == [c EXCEPT !.tasks = [current |-> None, past |-> None]]
  <2>1. IsPage(h) /\ h.id = c.id /\ h.asked = c.asked /\ SameBar(c, h) /\ SameView(c, h) /\ SameList(c, h)
    BY <1>3 DEF IsPage, Field, SameBar, SameView, SameList
  <2>2. d = h \/ d = showWorkflowHistory(h, w)
    BY <1>d DEF historyWorkflow
  <2> HIDE DEF h
  <2>3. CASE d = h
    BY <2>1, <2>3
  <2>4. CASE d = showWorkflowHistory(h, w)
    <3>1. IsPage(d) /\ d.id = h.id /\ d.asked = h.asked /\ SameBar(h, d) /\ SameView(h, d) /\ SameList(h, d)
      BY <2>1, <2>4 DEF showWorkflowHistory, IsPage, Field, SameBar, SameView, SameList
    <3> QED BY <2>1, <3>1 DEF SameBar, SameView, SameList
  <2> QED BY <2>2, <2>3, <2>4
<1>5. d = workflowDetailedData(r, w)
  BY <1>a, <1>b, <1>c, <1>d DEF workflowDetailedData
<1>6. /\ d.id = r.id /\ d.asked = r.asked /\ SameBar(r, d)
      /\ d.assignee = r.assignee /\ d.processingTask = r.processingTask
      /\ d.header \in Task \cup {NoTask} /\ d.dates \in Task \cup {NoTask}
      /\ d.people = Gained(r, w)
  BY <1>1, <1>2, <1>3, <1>4 DEF SameBar, SameView, SameList, Gained
<1> QED BY <1>4, <1>5, <1>6

\* A loader's answer makes the list of participants on a page without a task, and leaves it
\* on a page without a workflow.
LEMMA WorkflowEventForm ==
  ASSUME NEW r, IsPage(r), FormOK(r), "workflow" \in r.asked, NEW s, s = Less(r, "workflow"), NEW w,
         w = IF r.id.workflow THEN WorkflowData ELSE List, owner \in [Task -> User \cup {Nobody}]
  PROVE  FormOK(workflowDetailedData(s, w))
<1>1. /\ IsPage(s) /\ FormOK(s) /\ s.id = r.id /\ s.asked = r.asked \ {"workflow"}
      /\ SameBar(r, s) /\ SameList(r, s) /\ SameView(r, s)
  BY LessForm
<1>v. s.header \in Task \cup {NoTask} /\ s.dates \in Task \cup {NoTask}
  BY <1>1 DEF FormOK, ShapeOK
<1>2. PICK e : e = workflowDetailedData(s, w)
  OBVIOUS
<1>3. /\ e.id = s.id /\ e.asked = s.asked /\ SameBar(s, e)
      /\ e.assignee = s.assignee /\ e.processingTask = s.processingTask
      /\ e.header \in Task \cup {NoTask} /\ e.dates \in Task \cup {NoTask}
      /\ e.people = Gained(s, w)
  BY <1>1, <1>v, <1>2, WorkflowEventFields
<1>4. w.owner = owner \/ w = List
  BY DEF WorkflowData
<1>5. /\ e.people \in Seq(Person)
      /\ e.people = s.people \/ (s.people = <<>> => Unique(e.people))
  <2>1. s.people \in Seq(Person) /\ s.assignee \in User \cup {Nobody}
    BY <1>1 DEF FormOK, ShapeOK
  <2>2. PICK l : l = Appended(s.people, s.assignee, owner)
    OBVIOUS
  <2>3. l \in Seq(Person) /\ (s.people = <<>> => Unique(l))
    BY <2>1, <2>2, AppendedOK
  <2> QED BY <1>3, <1>4, <2>1, <2>2, <2>3 DEF Gained
<1>6. ShapeOK(e)
  BY <1>1, <1>3, <1>5 DEF FormOK, ShapeOK, SameBar
<1>7. BarOK(e)
  BY <1>1, <1>3 DEF FormOK, BarOK, SameBar
<1>8. ListOK(e)
  <2>1. CASE r.id.task = NoTask
    <3>1. s.people = <<>> /\ ~s.processingTask /\ "participants" \notin s.asked
      BY <1>1, <2>1 DEF FormOK, ListOK, SameList
    <3>2. Unique(e.people)
      BY <1>1, <1>5, <2>1, <3>1 DEF FormOK, ListOK
    <3> QED BY <1>1, <1>3, <2>1, <3>1, <3>2 DEF ListOK
  <2>2. CASE ~r.id.workflow
    <3>1. e.people = s.people
      BY <1>1, <1>3, <2>2 DEF Gained
    <3>2. "workflow" \notin e.asked
      BY <1>1, <1>3
    <3> QED BY <1>1, <1>3, <3>1, <3>2 DEF FormOK, ListOK
  <2>3. CASE r.id.task # NoTask /\ r.id.workflow
    BY <1>1, <1>3, <2>3 DEF ListOK
  <2> QED BY <2>1, <2>2, <2>3
<1> QED BY <1>2, <1>6, <1>7, <1>8 DEF FormOK

\* The participants' own answer makes their list on a page without a workflow.
LEMMA ParticipantsForm ==
  ASSUME NEW r, IsPage(r), FormOK(r), "participants" \in r.asked, NEW s, s = Less(r, "participants"),
         NEW w, w = WorkflowData, owner \in [Task -> User \cup {Nobody}]
  PROVE  FormOK(processWorkflowData(workflowDetailedData(s, w), w))
<1>1. /\ IsPage(s) /\ FormOK(s) /\ s.id = r.id /\ s.asked = r.asked \ {"participants"}
      /\ SameBar(r, s) /\ SameList(r, s) /\ SameView(r, s)
  BY LessForm
<1>v. s.header \in Task \cup {NoTask} /\ s.dates \in Task \cup {NoTask}
  BY <1>1 DEF FormOK, ShapeOK
<1>2. PICK d : d = workflowDetailedData(s, w)
  OBVIOUS
<1>3. /\ IsPage(d) /\ d.id = s.id /\ d.asked = s.asked /\ SameBar(s, d)
      /\ d.assignee = s.assignee /\ d.processingTask = s.processingTask
      /\ d.header \in Task \cup {NoTask} /\ d.dates \in Task \cup {NoTask}
      /\ d.people = Gained(s, w)
  BY <1>1, <1>v, <1>2, WorkflowEventFields
<1>4. PICK e : e = processWorkflowData(d, w)
  OBVIOUS
<1>5. /\ e.id = d.id /\ e.asked = d.asked /\ SameBar(d, e) /\ SameView(d, e)
      /\ e.processingTask = d.processingTask
      /\ e.people = Appended(d.people, d.assignee, w.owner)
  BY <1>3, <1>4, ProcessFields
<1>6. w.owner = owner
  BY DEF WorkflowData
<1>7. s.people \in Seq(Person) /\ s.assignee \in User \cup {Nobody}
  BY <1>1 DEF FormOK, ShapeOK
<1>8. d.people \in Seq(Person)
  <2>1. PICK l : l = Appended(s.people, s.assignee, owner)
    OBVIOUS
  <2>2. l \in Seq(Person)
    BY <1>7, <2>1, AppendedOK
  <2> QED BY <1>3, <1>6, <1>7, <2>1, <2>2 DEF Gained
<1>9. e.people \in Seq(Person) /\ (d.people = <<>> => Unique(e.people))
  BY <1>3, <1>5, <1>6, <1>7, <1>8, AppendedOK
<1>10. /\ e.id = r.id /\ e.asked = r.asked \ {"participants"} /\ SameBar(r, e)
       /\ e.processingTask = s.processingTask
  BY <1>1, <1>3, <1>5 DEF SameBar, SameList, SameView
<1>11. ShapeOK(e)
  BY <1>1, <1>3, <1>5, <1>9, <1>10 DEF FormOK, ShapeOK, SameBar, SameView
<1>12. BarOK(e)
  BY <1>10 DEF FormOK, BarOK, SameBar
<1>13. ListOK(e)
  <2>1. r.id.task # NoTask
    BY DEF FormOK, ListOK
  <2>2. CASE r.id.workflow
    BY <1>10, <2>1, <2>2 DEF ListOK
  <2>3. CASE ~r.id.workflow
    <3>1. r.people = <<>> /\ r.processingTask /\ "task" \notin r.asked
      BY <2>1, <2>3 DEF FormOK, ListOK
    <3>2. d.people = <<>>
      BY <1>1, <1>3, <3>1 DEF SameList, Gained
    <3> QED BY <1>9, <1>10, <2>1, <3>1, <3>2 DEF ListOK
  <2> QED BY <2>2, <2>3
<1> QED BY <1>2, <1>4, <1>11, <1>12, <1>13 DEF FormOK

\* A change of the toolbar alone.
LEMMA BarForm ==
  ASSUME NEW r, FormOK(r), NEW s, BarOK(s), s.id = r.id, s.asked = r.asked, SameList(r, s), SameView(r, s),
         s.leave \in {"no", "reload", "forward"}
  PROVE  FormOK(s)
<1>1. ShapeOK(s)
  BY DEF FormOK, ShapeOK, SameList, SameView
<1>2. ListOK(s)
  BY DEF FormOK, ListOK, SameList
<1> QED BY <1>1, <1>2 DEF FormOK

Paneled(r, x) == [r EXCEPT !.panel = x]
Stored(r) == [r EXCEPT !.put = [r.put EXCEPT !.st = "stored"]]
Answered(r, l) == [r EXCEPT !.isRunning = FALSE, !.put = NoPut, !.leave = l]
Refused(r) == [r EXCEPT !.isRunning = FALSE, !.put = NoPut]

\* The panel opens by an enabled button, and closes.
LEMMA PanelForm ==
  ASSUME NEW r, IsPage(r), FormOK(r), NEW x \in BOOLEAN, x => r.button["reassign"] = "on"
  PROVE  /\ IsPage(Paneled(r, x)) /\ FormOK(Paneled(r, x)) /\ Paneled(r, x).button = r.button
         /\ Paneled(r, x).panel = x
<1>1. /\ IsPage(Paneled(r, x)) /\ Paneled(r, x).id = r.id /\ Paneled(r, x).asked = r.asked
      /\ SameList(r, Paneled(r, x)) /\ SameView(r, Paneled(r, x))
      /\ Paneled(r, x).button = r.button /\ Paneled(r, x).panel = x
      /\ Paneled(r, x).isRunning = r.isRunning /\ Paneled(r, x).put = r.put /\ Paneled(r, x).leave = r.leave
  BY DEF Paneled, IsPage, Field, SameList, SameView
<1>2. BarOK(Paneled(r, x))
  BY <1>1 DEF FormOK, BarOK, Button
<1>3. Paneled(r, x).leave \in {"no", "reload", "forward"}
  BY <1>1 DEF FormOK, ShapeOK
<1> QED BY <1>1, <1>2, <1>3, BarForm

\* A click on an enabled button disables it and all others, and sends the request.
LEMMA ClickForm ==
  ASSUME NEW r, IsPage(r), FormOK(r), ~r.panel, NEW b \in Button, r.button[b] = "on",
         NEW v
  PROVE  FormOK(updateTaskProperties(r, v))
<1>1. r.put = NoPut /\ r.leave = "no" /\ ~r.isRunning /\ "task" \notin r.asked
  BY DEF FormOK, BarOK
<1>2. PICK d : d = Disabled(r)
  OBVIOUS
<1>3. /\ IsPage(d) /\ d.id = r.id /\ d.asked = r.asked /\ SameList(r, d) /\ SameView(r, d)
      /\ d.button = [c \in Button |-> IF r.button[c] = "on" THEN "off" ELSE r.button[c]]
      /\ d.panel = r.panel /\ d.isRunning = r.isRunning /\ d.put = r.put /\ d.leave = r.leave
  BY <1>2 DEF Disabled, IsPage, Field, SameList, SameView
<1>4. PICK s : s = [d EXCEPT !.isRunning = TRUE, !.put = [st |-> "sent", owner |-> v]]
  OBVIOUS
<1>5. /\ s.id = d.id /\ s.asked = d.asked /\ SameList(d, s) /\ SameView(d, s)
      /\ s.button = d.button /\ s.panel = d.panel /\ s.isRunning = TRUE
      /\ s.put = [st |-> "sent", owner |-> v] /\ s.leave = d.leave
  BY <1>3, <1>4 DEF IsPage, Field, SameList, SameView
<1>6. s = updateTaskProperties(r, v)
  BY <1>1, <1>2, <1>4 DEF updateTaskProperties
<1>7. s.put # NoPut
  BY <1>5 DEF NoPut
<1>8. d.button[b] = "off" /\ \A c \in Button : d.button[c] # "on"
  BY <1>3
<1>9. BarOK(s)
  BY <1>1, <1>3, <1>5, <1>7, <1>8 DEF BarOK
<1>10. s.id = r.id /\ s.asked = r.asked /\ SameList(r, s) /\ SameView(r, s) /\ s.leave = r.leave
  BY <1>3, <1>5 DEF SameList, SameView
<1>11. s.leave \in {"no", "reload", "forward"}
  BY <1>10 DEF FormOK, ShapeOK
<1> QED BY <1>6, <1>9, <1>10, <1>11, BarForm

\* A request that is stored is still on its way.
LEMMA StoredForm ==
  ASSUME NEW r, IsPage(r), FormOK(r), r.put.st = "sent"
  PROVE  FormOK(Stored(r))
<1>1. /\ Stored(r).id = r.id /\ Stored(r).asked = r.asked
      /\ SameList(r, Stored(r)) /\ SameView(r, Stored(r))
      /\ Stored(r).button = r.button /\ Stored(r).panel = r.panel
      /\ Stored(r).isRunning = r.isRunning /\ Stored(r).put = [r.put EXCEPT !.st = "stored"]
      /\ Stored(r).leave = r.leave
  BY DEF Stored, IsPage, Field, SameList, SameView
<1>2. r.put # NoPut
  BY DEF NoPut
<1>3. Stored(r).put # NoPut
  BY <1>1 DEF NoPut
<1>4. BarOK(Stored(r))
  BY <1>1, <1>2, <1>3 DEF FormOK, BarOK
<1>5. Stored(r).leave \in {"no", "reload", "forward"}
  BY <1>1 DEF FormOK, ShapeOK
<1> QED BY <1>1, <1>4, <1>5, BarForm

\* A request that has succeeded leaves the buttons disabled until the page is left.
LEMMA AnsweredForm ==
  ASSUME NEW r, IsPage(r), FormOK(r), r.put # NoPut, NEW l \in {"reload", "forward"}
  PROVE  FormOK(Answered(r, l))
<1>1. /\ Answered(r, l).id = r.id /\ Answered(r, l).asked = r.asked
      /\ SameList(r, Answered(r, l)) /\ SameView(r, Answered(r, l))
      /\ Answered(r, l).button = r.button /\ Answered(r, l).panel = r.panel
      /\ Answered(r, l).isRunning = FALSE /\ Answered(r, l).put = NoPut
      /\ Answered(r, l).leave = l
  BY DEF Answered, IsPage, Field, SameList, SameView
<1>2. BarOK(Answered(r, l))
  BY <1>1 DEF FormOK, BarOK
<1> QED BY <1>1, <1>2, BarForm

\* A request that has failed gives the buttons back.
LEMMA RefusedForm ==
  ASSUME NEW r, IsPage(r), FormOK(r), r.put # NoPut
  PROVE  FormOK(Enabled(Refused(r)))
<1>1. PICK s : s = Refused(r)
  OBVIOUS
<1>2. /\ IsPage(s) /\ s.id = r.id /\ s.asked = r.asked /\ SameList(r, s) /\ SameView(r, s)
      /\ s.button = r.button /\ s.panel = r.panel /\ s.isRunning = FALSE /\ s.put = NoPut
      /\ s.leave = r.leave
  BY <1>1 DEF Refused, IsPage, Field, SameList, SameView
<1>3. PICK e : e = Enabled(s)
  OBVIOUS
<1>4. /\ e.id = s.id /\ e.asked = s.asked /\ SameList(s, e) /\ SameView(s, e)
      /\ e.button = [b \in Button |-> IF s.button[b] = "off" THEN "on" ELSE s.button[b]]
      /\ e.panel = s.panel /\ e.isRunning = s.isRunning /\ e.put = s.put /\ e.leave = s.leave
  BY <1>2, <1>3 DEF Enabled, IsPage, Field, SameList, SameView
<1>5. r.leave = "no" /\ "task" \notin r.asked /\ ~r.panel
  BY DEF FormOK, BarOK, Button
<1>6. BarOK(e)
  BY <1>2, <1>4, <1>5 DEF BarOK
<1>7. e.id = r.id /\ e.asked = r.asked /\ SameList(r, e) /\ SameView(r, e) /\ e.leave = "no"
  BY <1>2, <1>4, <1>5 DEF SameList, SameView
<1> QED BY <1>1, <1>3, <1>6, <1>7, BarForm

-----------------------------------------------------------------------------
(* The steps keep the forms.                                               *)

Forms == \A p \in Page : FormOK(page[p])

\* One page changes and stays well formed.
LEMMA FormStep ==
  ASSUME IInv, Forms, NEW p \in Page, NEW r, FormOK(r), page' = [page EXCEPT ![p] = r]
  PROVE  Forms'
<1>1. page'[p] = r /\ \A q \in Page \ {p} : page'[q] = page[q]
  BY DEF IInv, Pages
<1> QED BY <1>1 DEF Forms

\* Whoever is within reach of a task is a user or nobody.
LEMMA OwnerOK == IInv => owner \in [Task -> User \cup {Nobody}]
BY TaskPageAssumption DEF IInv, Owners, Reach

\* Requests fail and are answered.
LEMMA LoaderForms ==
  ASSUME IInv, Forms, NEW p \in Page,
         \/ \E r \in Request : Fail(p, r)
         \/ onTaskDetailedData(p) \/ onWorkflowDetailedData(p) \/ onParticipantsData(p)
  PROVE  Forms'
<1>1. FormOK(page[p]) /\ IsPage(page[p]) /\ IdOK(page[p])
  BY DEF Forms, IInv, Pages, PageOK
<1>2. page = [q \in Page |-> page[q]] /\ Owners
  BY DEF IInv, Pages
<1>3. CASE \E r \in Request : Fail(p, r)
  <2>1. PICK r \in Request : Fail(p, r)
    BY <1>3
  <2>2. page' = [page EXCEPT ![p] = Less(page[p], r)]
    BY <1>2, <2>1 DEF Fail, Less
  <2>3. FormOK(Less(page[p], r))
    BY <1>1, LessForm
  <2> QED BY <2>2, <2>3, FormStep
<1>4. CASE onTaskDetailedData(p)
  <2>1. PICK s : s = Less(page[p], "task")
    OBVIOUS
  <2>2. PICK t : t = IF page[p].id.task = NoTask THEN List ELSE TaskData(page[p].id.task, UserOf[p])
    OBVIOUS
  <2>3. "task" \in page[p].asked /\ page' = [page EXCEPT ![p] = TaskEvent(s, t)]
    BY <1>4, <2>1, <2>2 DEF onTaskDetailedData, TaskEvent, Less
  <2>4. t = List \/ (page[p].id.task \in Task /\ t = TaskData(page[p].id.task, UserOf[p]))
    BY <1>1, <2>2 DEF IdOK
  <2>5. FormOK(TaskEvent(s, t))
    BY <1>1, <1>2, <2>1, <2>3, <2>4, TaskEventForm
  <2> QED BY <2>3, <2>5, FormStep
<1>5. CASE onWorkflowDetailedData(p)
  <2>1. PICK s : s = Less(page[p], "workflow")
    OBVIOUS
  <2>2. PICK w : w = IF page[p].id.workflow THEN WorkflowData ELSE List
    OBVIOUS
  <2>3. "workflow" \in page[p].asked /\ page' = [page EXCEPT ![p] = workflowDetailedData(s, w)]
    BY <1>5, <2>1, <2>2 DEF onWorkflowDetailedData, Less
  <2>4. FormOK(workflowDetailedData(s, w))
    BY <1>1, <2>1, <2>2, <2>3, OwnerOK, WorkflowEventForm
  <2> QED BY <2>3, <2>4, FormStep
<1>6. CASE onParticipantsData(p)
  <2>1. PICK s : s = Less(page[p], "participants")
    OBVIOUS
  <2>2. PICK w : w = WorkflowData
    OBVIOUS
  <2>3. /\ "participants" \in page[p].asked
        /\ page' = [page EXCEPT ![p] = processWorkflowData(workflowDetailedData(s, w), w)]
    BY <1>6, <2>1, <2>2 DEF onParticipantsData, Less
  <2>4. FormOK(processWorkflowData(workflowDetailedData(s, w), w))
    BY <1>1, <2>1, <2>2, <2>3, OwnerOK, ParticipantsForm
  <2> QED BY <2>3, <2>4, FormStep
<1> QED BY <1>3, <1>4, <1>5, <1>6

\* The toolbar's buttons and its panel.
LEMMA ClickForms ==
  ASSUME IInv, Forms, NEW p \in Page,
         \/ onClaimButtonClick(p) \/ onReleaseButtonClick(p)
         \/ onReassignButtonClick(p) \/ onPersonSelected(p) \/ closePanel(p)
  PROVE  Forms'
<1>1. FormOK(page[p]) /\ IsPage(page[p])
  BY DEF Forms, IInv, Pages, PageOK
<1>2. page = [q \in Page |-> page[q]]
  BY DEF IInv, Pages
<1>3. CASE onClaimButtonClick(p)
  <2>1. /\ page[p].button["claim"] = "on" /\ ~page[p].panel
        /\ page' = [page EXCEPT ![p] = updateTaskProperties(page[p], UserOf[p])]
    BY <1>3 DEF onClaimButtonClick, Clickable
  <2>2. FormOK(updateTaskProperties(page[p], UserOf[p]))
    BY <1>1, <2>1, ClickForm DEF Button
  <2> QED BY <2>1, <2>2, FormStep
<1>4. CASE onReleaseButtonClick(p)
  <2>1. /\ page[p].button["release"] = "on" /\ ~page[p].panel
        /\ page' = [page EXCEPT ![p] = updateTaskProperties(page[p], Nobody)]
    BY <1>4 DEF onReleaseButtonClick, Clickable
  <2>2. FormOK(updateTaskProperties(page[p], Nobody))
    BY <1>1, <2>1, ClickForm DEF Button
  <2> QED BY <2>1, <2>2, FormStep
<1>5. CASE onReassignButtonClick(p)
  <2>1. page' = [page EXCEPT ![p] = Paneled(page[p], TRUE)] /\ page[p].button["reassign"] = "on"
    BY <1>2, <1>5 DEF onReassignButtonClick, Clickable, Paneled
  <2>2. FormOK(Paneled(page[p], TRUE))
    BY <1>1, <2>1, PanelForm
  <2> QED BY <2>1, <2>2, FormStep
<1>6. CASE onPersonSelected(p)
  <2>1. PICK s : s = Paneled(page[p], FALSE)
    OBVIOUS
  <2>2. PICK u \in User : page' = [page EXCEPT ![p] = updateTaskProperties(s, u)]
    BY <1>6, <2>1 DEF onPersonSelected, Paneled
  <2>3. page[p].button["reassign"] = "on"
    BY <1>1, <1>6 DEF onPersonSelected, FormOK, BarOK
  <2>4. IsPage(s) /\ FormOK(s) /\ ~s.panel /\ s.button["reassign"] = "on"
    BY <1>1, <2>1, <2>3, PanelForm
  <2>5. FormOK(updateTaskProperties(s, u))
    BY <2>4, ClickForm DEF Button
  <2> QED BY <2>2, <2>5, FormStep
<1>7. CASE closePanel(p)
  <2>1. page' = [page EXCEPT ![p] = Paneled(page[p], FALSE)]
    BY <1>2, <1>7 DEF closePanel, Paneled
  <2>2. FormOK(Paneled(page[p], FALSE))
    BY <1>1, PanelForm
  <2> QED BY <2>1, <2>2, FormStep
<1> QED BY <1>3, <1>4, <1>5, <1>6, <1>7

\* What the toolbar asked for is stored, answered or refused, and its timer fires.
LEMMA EndingForms ==
  ASSUME IInv, Forms, NEW p \in Page, Ending(p)
  PROVE  Forms'
<1>1. FormOK(page[p]) /\ IsPage(page[p])
  BY DEF Forms, IInv, Pages, PageOK
<1>2. page = [q \in Page |-> page[q]]
  BY DEF IInv, Pages
<1>3. CASE updateTask(p)
  <2>1. page' = [page EXCEPT ![p] = Stored(page[p])] /\ page[p].put.st = "sent"
    BY <1>2, <1>3 DEF updateTask, Stored
  <2>2. FormOK(Stored(page[p]))
    BY <1>1, <2>1, StoredForm
  <2> QED BY <2>1, <2>2, FormStep
<1>4. CASE updateSuccess(p)
  <2>1. PICK l \in {"reload", "forward"} : page' = [page EXCEPT ![p] = Answered(page[p], l)]
    BY <1>2, <1>4 DEF updateSuccess, Answered
  <2>2. page[p].put # NoPut
    BY <1>4 DEF updateSuccess, NoPut
  <2>3. FormOK(Answered(page[p], l))
    BY <1>1, <2>2, AnsweredForm
  <2> QED BY <2>1, <2>3, FormStep
<1>5. CASE updateFailure(p)
  <2>1. page' = [page EXCEPT ![p] = Enabled(Refused(page[p]))] /\ page[p].put # NoPut
    BY <1>5 DEF updateFailure, Refused
  <2>2. FormOK(Enabled(Refused(page[p])))
    BY <1>1, <2>1, RefusedForm
  <2> QED BY <2>1, <2>2, FormStep
<1>6. CASE Leave(p)
  <2>1. page[p].id \in [task : Task \cup {NoTask}, workflow : BOOLEAN]
    BY <1>1 DEF FormOK, ShapeOK
  <2>2. FormOK(Load(page[p].id)) /\ FormOK(NewPage)
    BY <2>1, LoadForm
  <2>3. page' = [page EXCEPT ![p] = IF page[p].leave = "reload" THEN Load(page[p].id) ELSE NewPage]
    BY <1>6 DEF Leave
  <2> QED BY <2>2, <2>3, FormStep
<1> QED BY <1>3, <1>4, <1>5, <1>6 DEF Ending

Ids == [task : Task \cup {NoTask}, workflow : BOOLEAN]

KInv == IInv /\ Forms /\ started \subseteq Task /\ completed \subseteq Task

\* No page is open in the beginning.
LEMMA InitKInv == Init => KInv
<1>1. NoId \in Ids
  BY DEF NoId, Ids
<1>2. FormOK(NewPage)
  BY <1>1, LoadForm DEF Ids
<1> QED BY <1>2, InitIInv DEF Init, KInv, Forms

\* Every step keeps the pages well formed.
LEMMA NextForms == IInv /\ Forms /\ [Next]_vars => Forms'
<1> SUFFICES ASSUME IInv, Forms, [Next]_vars PROVE Forms'
  OBVIOUS
<1>1. ASSUME NEW p \in Page, Open(p) PROVE Forms'
  <2>1. PICK id \in Address[p] \ {NoId} : page' = [page EXCEPT ![p] = Load(id)]
    BY <1>1 DEF Open
  <2>2. id \in Ids
    BY <2>1, TaskPageAssumption DEF Ids
  <2>3. FormOK(Load(id))
    BY <2>2, LoadForm DEF Ids
  <2> QED BY <2>1, <2>3, FormStep
<1>2. ASSUME NEW p \in Page, Close(p) PROVE Forms'
  <2>1. NoId \in Ids
    BY DEF NoId, Ids
  <2>2. FormOK(NewPage)
    BY <2>1, LoadForm DEF Ids
  <2>3. page' = [page EXCEPT ![p] = NewPage]
    BY <1>2 DEF Close
  <2> QED BY <2>2, <2>3, FormStep
<1>3. ASSUME NEW t \in Task, EndTask(t) PROVE Forms'
  BY <1>3 DEF EndTask, Forms
<1>4. CASE UNCHANGED vars
  BY <1>4 DEF Forms, vars
<1> QED BY <1>1, <1>2, <1>3, <1>4, LoaderForms, ClickForms, EndingForms DEF Next

\* Only tasks are started and end.
LEMMA NextServer ==
  ASSUME KInv, [Next]_vars
  PROVE  started' \subseteq Task /\ completed' \subseteq Task
<1>1. ASSUME NEW p \in Page, onTaskDetailedData(p)
      PROVE  started' \subseteq Task /\ completed' \subseteq Task
  <2>1. PICK t : /\ t = IF page[p].id.task = NoTask THEN List ELSE TaskData(page[p].id.task, UserOf[p])
                 /\ started' = started \cup MarkStarted(t, UserOf[p]) /\ completed' = completed
    BY <1>1 DEF onTaskDetailedData
  <2>2. page[p].id.task \in Task \cup {NoTask}
    BY DEF KInv, IInv, Pages, PageOK, IdOK
  <2>3. MarkStarted(t, UserOf[p]) \subseteq Task
    <3>1. CASE t = List
      BY <3>1 DEF MarkStarted
    <3>2. CASE t # List
      <4>1. t.id = page[p].id.task /\ page[p].id.task \in Task
        BY <2>1, <2>2, <3>2 DEF TaskData
      <4> QED BY <4>1 DEF MarkStarted
    <3> QED BY <3>1, <3>2
  <2> QED BY <2>1, <2>3 DEF KInv
<1>2. ASSUME NEW p \in Page, updateTask(p) PROVE started' \subseteq Task /\ completed' \subseteq Task
  BY <1>2 DEF updateTask, KInv
<1>3. ASSUME NEW t \in Task, EndTask(t) PROVE started' \subseteq Task /\ completed' \subseteq Task
  BY <1>3 DEF EndTask, KInv
<1>4. CASE UNCHANGED server
  BY <1>4 DEF server, KInv
<1>5. UNCHANGED vars => UNCHANGED server
  BY DEF vars, server
<1> QED BY <1>1, <1>2, <1>3, <1>4, <1>5 DEF Next, Ending, Fail, onWorkflowDetailedData, onParticipantsData,
       onClaimButtonClick, onReleaseButtonClick, onReassignButtonClick, onPersonSelected, closePanel,
       updateSuccess, updateFailure, Leave, Open, Close

\* Every step keeps the whole invariant.
LEMMA NextKInv == KInv /\ [Next]_vars => KInv'
BY NextIInv, NextForms, NextServer DEF KInv

-----------------------------------------------------------------------------
(* The theorems.                                                           *)

\* Whoever clicks which stale button on however many pages (alvex-task-toolbar.js),
\* an open task has an owner or pooled actors who can claim it, and a pooled task
\* is owned by none but them.
THEOREM StaysInReach == Spec => []NeverOutOfReach
<1>1. IInv => NeverOutOfReach
  <2> SUFFICES ASSUME IInv, NEW t \in Task
               PROVE  \/ Pool[t] = {} /\ owner[t] # Nobody
                      \/ Pool[t] # {} /\ owner[t] \in Pool[t] \cup {Nobody}
    BY DEF NeverOutOfReach
  <2> QED BY TaskPageAssumption DEF IInv, Owners, Reach
<1> QED BY <1>1, InitIInv, NextIInv, PTL DEF Spec

\* However often and from wherever the workflow's data arrive
\* (alvex-workflow-history.js), a history that is drawn shows each of its tasks in
\* one of its tables, once.
THEOREM HistoryIsComplete == Spec => []HistoryShowsEachTask
<1>1. IInv => HistoryShowsEachTask
  BY DEF IInv, Pages, PageOK, HistoryOK, HistoryShowsEachTask
<1> QED BY <1>1, InitIInv, NextIInv, PTL DEF Spec
\* Beside the types: a page runs a request exactly while one is on its way, and its buttons
\* are disabled only then or until the page is left (alvex-task-toolbar.js).
THEOREM Typing == Spec => []TypeOK
<1>1. KInv => TypeOK
  <2> SUFFICES ASSUME KInv PROVE TypeOK
    OBVIOUS
  <2>1. owner \in [Task -> User \cup {Nobody}]
    BY OwnerOK DEF KInv
  <2>2. ASSUME NEW p \in Page
        PROVE  /\ page[p].id \in [task : Task \cup {NoTask}, workflow : BOOLEAN]
               /\ page[p].asked \subseteq Request
               /\ page[p].people \in Seq([user : User, role : Role])
               /\ {page[p].header, page[p].dates} \subseteq Task \cup {NoTask}
               /\ page[p].leave \in {"no", "reload", "forward"}
    BY DEF KInv, Forms, FormOK, ShapeOK, Person
  <2>3. ASSUME NEW p \in Page
        PROVE  /\ page[p].put \in [st : {"none", "sent", "stored"}, owner : User \cup {Nobody}]
               /\ page[p].button \in [Button -> {"none", "on", "off"}]
    BY DEF KInv, IInv, Pages, PageOK, PutOK, ButtonOK
  <2>4. ASSUME NEW p \in Page
        PROVE  /\ page[p].isRunning <=> page[p].put # NoPut
               /\ (\E b \in Button : page[p].button[b] = "off")
                    <=> page[p].isRunning \/ page[p].leave # "no"
    BY DEF KInv, Forms, FormOK, BarOK
  <2> QED BY <2>1, <2>2, <2>3, <2>4 DEF TypeOK, KInv
<1> QED BY <1>1, InitKInv, NextKInv, PTL DEF Spec

\* On a page opened by the id of a task or of a workflow nobody is listed twice in a role,
\* although the workflow's data come from two sources (alvex-workflow-participants.js).
THEOREM EachListedOnce == Spec => []PeopleListedOnce
<1>1. KInv => PeopleListedOnce
  <2> SUFFICES ASSUME KInv, NEW p \in Page, page[p].id.task = NoTask \/ ~page[p].id.workflow,
                      NEW i \in DOMAIN page[p].people, NEW j \in DOMAIN page[p].people, i # j
               PROVE  /\ page[p].people[i] # page[p].people[j]
                      /\ page[p].people[i].role = "otherTaskAssignee"
                           => page[p].people[i].user # page[p].people[j].user
    BY DEF PeopleListedOnce
  <2>1. page[p].people \in Seq(Person) /\ Unique(page[p].people)
    BY DEF KInv, Forms, FormOK, ShapeOK, ListOK
  <2>2. DOMAIN page[p].people = 1 .. Len(page[p].people)
    BY <2>1
  <2> QED BY <2>1, <2>2 DEF Unique
<1> QED BY <1>1, InitKInv, NextKInv, PTL DEF Spec
=============================================================================
