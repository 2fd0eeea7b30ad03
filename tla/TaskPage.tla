------------------------------ MODULE TaskPage ------------------------------
(***************************************************************************)
(* The page of a task or of a workflow (alvex-task-page): the components   *)
(* toolbar, header, dates, participants and history, which share no state  *)
(* but listen for the same two events.                                     *)
(*                                                                         *)
(*  - One loader asks for the task and fires taskDetailedData, another     *)
(*    asks for the workflow and fires workflowDetailedData.  The address   *)
(*    names a task, a workflow or both; without an id a loader gets a list *)
(*    and fires its event all the same.                                    *)
(*  - When the participants learn of the task they ask for its workflow    *)
(*    and fire workflowDetailedData themselves.                            *)
(*  - The toolbar shows what the user could do with the task when it was   *)
(*    read, and changes the task's owner much later.                       *)
(*                                                                         *)
(* The tasks of one workflow and their owners are on the server; several   *)
(* users look at them.  What may be done with a task is decided by the     *)
(* repository's own predicates; the form that ends a task is external.  A  *)
(* loader's answer is what the server has when it arrives: requests are    *)
(* answered in any order, and what a page shows gets old all the same.     *)
(* Discussion, projects and relations on this page are other modules.      *)
(***************************************************************************)
EXTENDS Naturals, Sequences, FiniteSets

CONSTANTS
  Page,       \* browser pages
  User,       \* people who take part in the workflow
  Task,       \* tasks of the workflow
  FirstTask,  \* tasks[0] of the workflow as the server lists it
  NoTask,     \* not a task
  Nobody,     \* not a user
  Initiator,  \* who started the workflow
  Assignee,   \* task -> who it was assigned to, or Nobody
  Pool,       \* task -> its pooled actors
  UserOf,     \* page -> who is logged in there
  Address,    \* page -> the ids its address may name
  Ends        \* bound: tasks that may end

ASSUME TaskPageAssumption ==
  /\ IsFiniteSet(Task) /\ FirstTask \in Task /\ NoTask \notin Task
  /\ Nobody \notin User /\ Initiator \in User
  /\ Assignee \in [Task -> User \cup {Nobody}]
  /\ Pool \in [Task -> SUBSET User]
  /\ UserOf \in [Page -> User]
  /\ Ends \subseteq Task
  /\ Address \in [Page -> SUBSET [task : Task \cup {NoTask}, workflow : BOOLEAN]]
  /\ \A t \in Task : Assignee[t] = Nobody <=> Pool[t] # {}

VARIABLES
  owner,      \* task -> cm_owner
  started,    \* tasks whose bpm_status was set to In Progress
  completed,  \* tasks that have ended
  page        \* page -> its components

vars == <<owner, started, completed, page>>
server == <<owner, started, completed>>

Button == {"claim", "release", "reassign"}
Request == {"task", "workflow", "participants"}

List  == [kind |-> "list"]
NoPut == [st |-> "none", owner |-> Nobody]
NoId  == [task |-> NoTask, workflow |-> FALSE]
None  == [t \in Task |-> 0]

\* id is what the address names, asked the requests under way, tasks the lists
\* of the history and table what it has drawn from them (task -> how often),
\* put the toolbar's request, leave its timer.
NewPage == [id |-> NoId, asked |-> {},
            processingTask |-> FALSE, assignee |-> Nobody, people |-> <<>>,
            header |-> NoTask, dates |-> NoTask,
            tasks |-> [current |-> None, past |-> None], table |-> [current |-> None, past |-> None],
            button |-> [b \in Button |-> "none"], panel |-> FALSE,
            isRunning |-> FALSE, put |-> NoPut, leave |-> "no"]

-----------------------------------------------------------------------------
(* What the repository answers.                                            *)

\* The interceptor lets pass whoever started the workflow, owns the task, is its
\* assignee or one of its pooled actors.  Managers and administrators are left out.
isInitiatorOrAssigneeOrManager(t, u) ==
  u \in {Initiator, owner[t], Assignee[t]} \cup Pool[t]

isTaskReassignable(t, u) ==
  /\ t \notin completed
  /\ owner[t] # Nobody
  /\ Pool[t] = {}
  /\ isInitiatorOrAssigneeOrManager(t, u)

isTaskClaimable(t, u) ==
  /\ t \notin completed
  /\ owner[t] = Nobody
  /\ u \in Pool[t]

\* A form that releases tasks that have no pool to go back to.
isTaskReleasableAll(t, u) ==
  /\ t \notin completed
  /\ owner[t] # Nobody
  /\ u \in {owner[t], Initiator}

isTaskReleasable(t, u) ==
  /\ t \notin completed
  /\ Pool[t] # {}
  /\ owner[t] # Nobody
  /\ u \in {owner[t], Initiator}

Can(t, u) == {b \in Button : \/ b = "claim" /\ isTaskClaimable(t, u)
                             \/ b = "release" /\ isTaskReleasable(t, u)
                             \/ b = "reassign" /\ isTaskReassignable(t, u)}

TaskData(t, u) ==
  [kind |-> "task", id |-> t, owner |-> owner[t], can |-> Can(t, u)]

WorkflowData ==
  [kind |-> "workflow", owner |-> owner, completed |-> completed]

\* A request fails: a message at most.
Fail(p, r) ==
  /\ r \in page[p].asked
  /\ page' = [page EXCEPT ![p].asked = @ \ {r}]
  /\ UNCHANGED server

-----------------------------------------------------------------------------
(* taskDetailedData.                                                       *)

\* A button for everything that was possible when the task was read.
toolbarTask(pg, t) ==
  IF t = List THEN pg
  ELSE [pg EXCEPT !.button = [b \in Button |-> IF b \in t.can THEN "on" ELSE "none"]]

headerTask(pg, t) == IF t = List THEN pg ELSE [pg EXCEPT !.header = t.id]

\* The header's post of the status In Progress, each time its owner sees the task;
\* the form processor refuses it for a task that has ended.
MarkStarted(t, u) ==
  IF t # List /\ t.owner = u THEN {t.id} \ completed ELSE {}

datesTask(pg, t) == IF t = List THEN pg ELSE [pg EXCEPT !.dates = t.id]

\* A form that does not note that the workflow is on its way.
participantsTaskTwice(pg, t) ==
  IF t = List THEN pg
  ELSE [pg EXCEPT !.assignee = t.owner, !.asked = @ \cup {"participants"}]

participantsTask(pg, t) ==
  IF t = List THEN pg
  ELSE [pg EXCEPT !.assignee = t.owner, !.processingTask = TRUE, !.asked = @ \cup {"participants"}]

onTaskDetailedData(p) ==
  /\ "task" \in page[p].asked
  /\ LET t  == IF page[p].id.task = NoTask THEN List ELSE TaskData(page[p].id.task, UserOf[p])
         pg == [page[p] EXCEPT !.asked = @ \ {"task"}]
     IN /\ page' = [page EXCEPT ![p] =
             participantsTask(datesTask(headerTask(toolbarTask(pg, t), t), t), t)]
        /\ started' = started \cup MarkStarted(t, UserOf[p])
  /\ UNCHANGED <<owner, completed>>

-----------------------------------------------------------------------------
(* workflowDetailedData.                                                   *)

headerWorkflow(pg, w) == IF w = List THEN pg ELSE [pg EXCEPT !.header = FirstTask]

datesWorkflow(pg, w) == IF w = List THEN pg ELSE [pg EXCEPT !.dates = FirstTask]

Element(u, role) == [user |-> u, role |-> role]

InAnyOrder(S) == CHOOSE s \in [1 .. Cardinality(S) -> S] : \A x \in S : \E i \in DOMAIN s : s[i] = x

\* The people are appended to those that are shown already.
processWorkflowData(pg, w) ==
  LET assignee  == pg.assignee
      assignees == {w.owner[t] : t \in Task} \ {Nobody, Initiator, assignee}
  IN [pg EXCEPT !.people = @
        \o <<Element(Initiator, "initiator")>>
        \o (IF assignee = Nobody THEN <<>> ELSE <<Element(assignee, "assignee")>>)
        \o InAnyOrder({Element(u, "otherTaskAssignee") : u \in assignees})]

participantsWorkflow(pg, w) ==
  IF pg.processingTask \/ w = List THEN pg ELSE processWorkflowData(pg, w)

\* Current tasks are sorted by due date and past ones by date of completion; the
\* order does not matter here.
Push(tasks, w) ==
  [current |-> [t \in Task |-> tasks.current[t] + IF t \in w.completed THEN 0 ELSE 1],
   past    |-> [t \in Task |-> tasks.past[t] + IF t \in w.completed THEN 1 ELSE 0]]

showWorkflowHistory(pg, w) ==
  LET tasks == Push(pg.tasks, w) IN [pg EXCEPT !.tasks = tasks, !.table = tasks]

\* A form that keeps the lists of the last event.
historyWorkflowKept(pg, w) == IF w = List THEN pg ELSE showWorkflowHistory(pg, w)

historyWorkflow(pg, w) ==
  LET emptied == [pg EXCEPT !.tasks = [current |-> None, past |-> None]] IN
  IF w = List THEN emptied ELSE showWorkflowHistory(emptied, w)

workflowDetailedData(pg, w) ==
  historyWorkflow(participantsWorkflow(datesWorkflow(headerWorkflow(pg, w), w), w), w)

onWorkflowDetailedData(p) ==
  /\ "workflow" \in page[p].asked
  /\ LET w  == IF page[p].id.workflow THEN WorkflowData ELSE List
         pg == [page[p] EXCEPT !.asked = @ \ {"workflow"}]
     IN page' = [page EXCEPT ![p] = workflowDetailedData(pg, w)]
  /\ UNCHANGED server

\* The participants' own answer: the event for all others, then their list.
onParticipantsData(p) ==
  /\ "participants" \in page[p].asked
  /\ LET w  == WorkflowData
         pg == [page[p] EXCEPT !.asked = @ \ {"participants"}]
     IN page' = [page EXCEPT ![p] = processWorkflowData(workflowDetailedData(pg, w), w)]
  /\ UNCHANGED server

-----------------------------------------------------------------------------
(* The toolbar's buttons.                                                  *)

Disabled(pg) == [pg EXCEPT !.button = [b \in Button |-> IF @[b] = "on" THEN "off" ELSE @[b]]]
Enabled(pg)  == [pg EXCEPT !.button = [b \in Button |-> IF @[b] = "off" THEN "on" ELSE @[b]]]

updateTaskProperties(pg, u) ==
  IF pg.isRunning THEN Disabled(pg)
  ELSE [Disabled(pg) EXCEPT !.isRunning = TRUE, !.put = [st |-> "sent", owner |-> u]]

\* The panel is modal: nothing else is clicked while it is open.
Clickable(p, b) == page[p].button[b] = "on" /\ ~page[p].panel

onClaimButtonClick(p) ==
  /\ Clickable(p, "claim")
  /\ page' = [page EXCEPT ![p] = updateTaskProperties(@, UserOf[p])]
  /\ UNCHANGED server

onReleaseButtonClick(p) ==
  /\ Clickable(p, "release")
  /\ page' = [page EXCEPT ![p] = updateTaskProperties(@, Nobody)]
  /\ UNCHANGED server

\* While the people finder is not loaded the click is an exception and does nothing.
onReassignButtonClick(p) ==
  /\ Clickable(p, "reassign")
  /\ page' = [page EXCEPT ![p].panel = TRUE]
  /\ UNCHANGED server

onPersonSelected(p) ==
  /\ page[p].panel
  /\ \E u \in User :
       page' = [page EXCEPT ![p] = updateTaskProperties([@ EXCEPT !.panel = FALSE], u)]
  /\ UNCHANGED server

closePanel(p) ==
  /\ page[p].panel
  /\ page' = [page EXCEPT ![p].panel = FALSE]
  /\ UNCHANGED server

\* The server writes the owner without asking whether the button would still be
\* offered: whoever may update the task may do so.
updateTask(p) ==
  LET t == page[p].id.task IN
  /\ page[p].put.st = "sent"
  /\ t \notin completed
  /\ isInitiatorOrAssigneeOrManager(t, UserOf[p])
  /\ owner' = [owner EXCEPT ![t] = page[p].put.owner]
  /\ page' = [page EXCEPT ![p].put.st = "stored"]
  /\ UNCHANGED <<started, completed>>

\* Three seconds later the page is loaded again if its user is the owner now.
updateSuccess(p) ==
  /\ page[p].put.st = "stored"
  /\ page' = [page EXCEPT ![p].isRunning = FALSE, ![p].put = NoPut,
       ![p].leave = IF page[p].put.owner = UserOf[p] THEN "reload" ELSE "forward"]
  /\ UNCHANGED server

\* A form that leaves the buttons disabled.
updateFailureDisabled(p) ==
  /\ page[p].put # NoPut
  /\ page' = [page EXCEPT ![p] = [@ EXCEPT !.isRunning = FALSE, !.put = NoPut]]
  /\ UNCHANGED server

\* A form that forgets that the request has ended.
updateFailureRunning(p) ==
  /\ page[p].put # NoPut
  /\ page' = [page EXCEPT ![p] = Enabled([@ EXCEPT !.put = NoPut])]
  /\ UNCHANGED server

\* Refused by the server, or the answer is lost.
updateFailure(p) ==
  /\ page[p].put # NoPut
  /\ page' = [page EXCEPT ![p] = Enabled([@ EXCEPT !.isRunning = FALSE, !.put = NoPut])]
  /\ UNCHANGED server

-----------------------------------------------------------------------------
(* Opening pages, and the form (external).                                 *)

Load(id) == [NewPage EXCEPT !.id = id, !.asked = {"task", "workflow"}]

Open(p) ==
  /\ page[p].id = NoId
  /\ \E id \in Address[p] \ {NoId} :
       page' = [page EXCEPT ![p] = Load(id)]
  /\ UNCHANGED server

\* What a page that is left has asked for is forgotten: a request that the server
\* still executes is that of another page that does nothing else.
Close(p) ==
  /\ page[p].id # NoId
  /\ page' = [page EXCEPT ![p] = NewPage]
  /\ UNCHANGED server

Leave(p) ==
  /\ page[p].leave # "no"
  /\ page' = [page EXCEPT ![p] = IF @.leave = "reload" THEN Load(@.id) ELSE NewPage]
  /\ UNCHANGED server

\* The owner ends the task by its form, wherever it is open.
EndTask(t) ==
  /\ t \in Ends \ completed
  /\ owner[t] # Nobody
  /\ completed' = completed \cup {t}
  /\ UNCHANGED <<owner, started, page>>

Init ==
  /\ owner = Assignee
  /\ started = {} /\ completed = {}
  /\ page = [p \in Page |-> NewPage]

Ending(p) == updateTask(p) \/ updateSuccess(p) \/ updateFailure(p) \/ Leave(p)

Next ==
  \/ \E p \in Page :
       \/ \E r \in Request : Fail(p, r)
       \/ onTaskDetailedData(p) \/ onWorkflowDetailedData(p) \/ onParticipantsData(p)
       \/ onClaimButtonClick(p) \/ onReleaseButtonClick(p)
       \/ onReassignButtonClick(p) \/ onPersonSelected(p) \/ closePanel(p)
       \/ Ending(p) \/ Open(p) \/ Close(p)
  \/ \E t \in Task : EndTask(t)

Spec == Init /\ [][Next]_vars

\* Every request of the toolbar is answered or fails, and its timer fires; users
\* and loaders may do nothing.
FairSpec == Spec /\ \A p \in Page : WF_vars(Ending(p))

-----------------------------------------------------------------------------
(* Properties.                                                             *)

Role == {"initiator", "assignee", "otherTaskAssignee"}

\* Beside the types: a page runs a request exactly while one is on its way, and
\* its buttons are disabled only then or until the page is left.
TypeOK ==
  /\ owner \in [Task -> User \cup {Nobody}]
  /\ started \subseteq Task /\ completed \subseteq Task
  /\ \A p \in Page :
       /\ page[p].id \in [task : Task \cup {NoTask}, workflow : BOOLEAN]
       /\ page[p].asked \subseteq Request
       /\ page[p].people \in Seq([user : User, role : Role])
       /\ {page[p].header, page[p].dates} \subseteq Task \cup {NoTask}
       /\ page[p].put \in [st : {"none", "sent", "stored"}, owner : User \cup {Nobody}]
       /\ page[p].button \in [Button -> {"none", "on", "off"}]
       /\ page[p].leave \in {"no", "reload", "forward"}
       /\ page[p].isRunning <=> page[p].put # NoPut
       /\ (\E b \in Button : page[p].button[b] = "off") <=> page[p].isRunning \/ page[p].leave # "no"

\* Whatever stale buttons are clicked on several pages: an open task has an owner
\* or pooled actors who can claim it, and a pooled task is owned by none but them.
\* A task that nobody owns and nobody can claim would stop its workflow.
NeverOutOfReach ==
  \A t \in Task :
    \/ t \in completed
    \/ Pool[t] = {} /\ owner[t] # Nobody
    \/ Pool[t] # {} /\ owner[t] \in Pool[t] \cup {Nobody}

\* On a page opened by the id of a task or of a workflow nobody is listed twice
\* in a role, although the event comes from two sources, and who is listed as
\* another assignee is neither the initiator nor the assignee.  (With both ids in
\* the address the loader's answer may come first and all are listed again.)
PeopleListedOnce ==
  \A p \in Page :
    LET people == page[p].people IN
    page[p].id.task = NoTask \/ ~page[p].id.workflow =>
      \A i, j \in DOMAIN people :
        i # j => /\ people[i] # people[j]
                 /\ people[i].role = "otherTaskAssignee" => people[i].user # people[j].user

\* Once the history is drawn every task of the workflow is in exactly one of its
\* two tables, once, however often and from wherever the workflow's data arrive.
HistoryShowsEachTask ==
  \A p \in Page :
    page[p].table = [current |-> None, past |-> None]
      \/ \A t \in Task : page[p].table.current[t] + page[p].table.past[t] = 1

\* Disabled buttons do not stay: the request fails and they come back, or it
\* succeeds and the page is left.
ButtonsComeBack ==
  \A p \in Page : (\E b \in Button : page[p].button[b] = "off")
                    ~> (\A b \in Button : page[p].button[b] # "off")
=============================================================================
