# Verification of the Alvex project management extension

This directory holds TLA+ models of the extension in `src/`, the TLC
configurations that check them on small instances, and proofs that TLAPS checks
for every instance. It is written for a reader of the repository; paths below
are relative to it, and `PROJECT.json` gives for each definition the source
lines it stands for, for each hazard the properties that would catch it, and for
each property a mutation of the code that breaks it.

1. The system: inventory of components
2. What the repository and the workflow engine give (assumptions)
3. The plan
4. The modules and how they correspond to the code
5. The runs, their bounds and what they show
6. Fairness
7. What is proved
8. What is only model-checked, and what is not modelled
9. Disagreements between the code and its documentation

Run a model with `tlc -config X.cfg M`, a proof module with `tlapm M.tla`.

## 1. The system

Alvex Project Management extends Alfresco. Java services, web scripts and a
Quartz job run in the repository (`src/repo`), pages and widgets in the Share
client (`src/share`). Everything persistent is a node, an association or a
content file of the Alfresco repository, or a process instance of its workflow
engine. One web-script request is one repository transaction; the job uses one
transaction per user. Pages keep copies of what they read and send it back
later, so nearly everything that can go wrong is an interleaving of requests,
the job, failures and stale pages.

### Workflow scheduler (`wfscheduler/` in both tiers)

- *State.* One `cronInfo` node per user, owned by an association, whose content
  is a JSON array of entries (job parameters, cron expression, repeat flag); the
  copy of that array on the schedules page.
- *Operations.* `write-job` appends an entry, `update-jobs` overwrites the array
  with what the page holds, `wfinfo` reads it (and creates the node), the hourly
  job starts what is due and writes back what is left.
- *Hard.* Three writers replace the array as a whole. Executions of the job
  overlap (a cluster, an hour that is not enough). Starts throw, content files
  are missing, servers stop in the middle.
- *Correct when* an accepted schedule is neither lost nor started twice, entries
  leave only by being started or by their author's save, and what is due is
  eventually started.

### Cron expressions (`jquery-cron.js`, `isSatisfiedBy`)

- *State.* The widget's selects and check box, the stored expression, the clock.
- *Operations.* Choose a period and its fields, store, draw again from what is
  stored, evaluate against `java.util.Calendar` every hour.
- *Hard.* Two languages count months and days of the week from different bases;
  the type of an expression is guessed from its columns.
- *Correct when* the job starts an entry exactly in the hours the user chose,
  and an untouched widget writes back what was stored.

### Relations (`workflow-project-relations`, `workflow-discussion-relations`, `related-workflows`)

- *State.* A folder for each workflow, project and discussion, found by name and
  created on first use; relation nodes, child of one side's folder and target of
  an association from the other's; calendar entries of projects.
- *Operations.* Attach from either side, detach, list from either side; create
  and remove deadline events; the JavaScript service of related workflows.
- *Hard.* Get-or-create by two requests at a time; the two sides find a relation
  by different means; exceptions caught by the scripts commit half of the work.
- *Correct when* both sides list the same, nothing is attached twice, a detach
  detaches, and deadlines in the calendar follow the attached workflows.

### Email service (`emails/`, `demo/ProjectEmailListener`)

- *State.* Provider nodes and the list in memory, the user's configuration node,
  folder and message nodes below it, conversations of the project.
- *Operations.* Add, remove, clear and list providers, configure, list folders,
  drop, incremental fetch, the listener that files a message under projects.
- *Hard.* A fetch is one long transaction against a mailbox that changes; two
  fetches at a time; failures in the middle; a memory list that takes part in no
  transaction.
- *Correct when* no message is passed over for good, none is stored by a fetch
  that could see it stored, the project has what the mailbox has, and the list
  shows the providers that exist.

### Task discussion (`alvex-task-discussion.js`, `WorkflowDiscussionContainerGet`)

- *State.* The page: thread, queue of requests, form, what is drawn; on the
  server the topics, the links to the workflow, the comments.
- *Operations.* Find the topic or create and link one, post a comment or a reply,
  draw the tree level by level.
- *Hard.* A chain of asynchronous requests each of which may fail, several pages
  on one workflow, a tree that changes while it is read.
- *Correct when* what is posted to a found discussion is in the discussion all
  later pages show, and an update shows what was there when it began.

### Task page (`pages/alvex-task-page.xml`, `alvex-task-toolbar.js` and its neighbours; `AlvexWorkflowServiceImpl`, `WorkflowHelperImpl`, the interceptor)

- *State.* On the server a task's owner, pool, state; on the page what each component
  has drawn, the toolbar's buttons, its request, the people finder, a timer.
- *Operations.* Two loaders fire one event each, the participants a third; claim,
  release, reassign; the server decides what may be done with a task, first for
  the button and then for the request.
- *Hard.* One event reaches several listeners twice and in either order; the
  buttons are as old as the page, and the request does not ask again what the
  button promised; a request that fails must give the buttons back.
- *Correct when* no open task gets out of everybody's reach, people and tasks are listed once, and disabled buttons come back.

### Relation panels (`alvex-project-workflows.js`, `alvex-task-projects.js`, `alvex-task-relations.js`)

- *State.* The list as shown, dialogs, prompt and requests of a page over the
  relations on the server.
- *Operations.* List, attach by a dialog, start and attach, detach and cancel
  after a question.
- *Hard.* Lists overtake each other; what was executed may look as if it had
  failed; starting is two requests; a prompt's button can be clicked twice, and the prompt
  may be gone when its request is answered.
- *Correct when* a quiet panel shows what it changed itself, a started workflow
  is related or its failure was shown, and prompts close.

### Task list, its header, the workflows dashlet

- *State.* Buttons and title, the address of the table's data, the rows, which workflows the
  project had when last asked; the preferences on the server.
- *Operations.* Make the table (workflows of the project, preferences, table), sort,
  filter, page, attach or start in the header, reload.
- *Hard.* The server pages, the client filters behind it; each choice is one
  request for rows and one for the preference; the total of pages is a capacity.
- *Correct when* the table is what its labels say, a project's pages have its
  tasks, what was chosen is remembered, and the table appears at all.

### Project checklists, contacts, conversations

- *State.* The site's container, its nodes, what each page shows of them.
- *Operations.* Make the container on first use, list, add, edit, delete.
- *Hard.* Two or three requests of the same page make the container at the same time;
  answers overtake each other; pages are left, and prompts closed, in the middle.
- *Correct when* a quiet list shows what its page did, and a page of a project
  that has the container opens completely.

### Components that are not modelled

| Component | Why not |
|---|---|
| List queries (`TaskInstancesGet`, `WorkflowInstancesDetailedGet`), script wrappers of the permissions | read-only filters, comparators and conversions; `TaskList` has the pages of an answer, `TaskPage` the predicates behind its buttons |
| Status and summary of all projects (`projects-status.get.js`, `alvex-projects-summary.js`) | one request whose answer is drawn once |
| Form controls, tree of related workflows, document summary | draw what one request answers |
| `legacy/*.js` | adapted copies of Alfresco's pages, which the task page replaces |
| Email sending and its wrappers | a call of a provider; nothing is kept |
| Other web scripts (doclist, dictionary, list-definitions, workflow-files) | read-only, they format what the repository returns |
| Content models, messages, contexts, build | declarations; read for types, schedule and wiring |

## 2. What the repository and the workflow engine give

The models rest on these assumptions about code outside of `src/`; in
`PROJECT.json` such definitions are marked external.

- *Transactions.* A web script of POST or PUT, and each `doInTransaction` of the
  job, is a transaction: its writes appear together or not at all. A write to a
  node that another transaction changed since it was loaded is refused
  (optimistic node version), and `RetryingTransactionHelper` runs the callback
  again. The number of retries is limited there and unlimited in the models: a
  request that gives up is the failure that every handler may have at any time.
- *Names.* Two transactions may create children of the same name below
  `sys:children`; `childByNamePath` then finds one of them, always the same one.
- *Scripts.* The JavaScript controllers catch their exceptions and set the status,
  so what was written before the exception is committed with the answer 500 - unless
  the exception came through a repository service, which marks the transaction
  for rollback. Both are modelled.
- *Order.* `getChildAssocs` lists children in the order in which they were created, not committed: of two
  transactions that overlap, the one that commits later may come to stand first.
- *Requests of a page.* Requests under way together are executed and answered in
  any order, and any of them may fail, before or after it was executed.
- *Folders.* A folder of a name that is already there cannot be made (`createContainer`), unlike children
  below `sys:children`.
- *Prompts.* `destroy()` of a prompt that is destroyed already throws, and with it ends the callback that called it.
- *Alfresco's client.* Forms, the table's paginator, the preferences service and
  the people finder are external; a click on a control that is disabled or behind
  a modal panel does nothing.
- *Client queue.* `processAjaxQueue` (Alvex Utils, not part of this repository)
  sends one request after the other; what it does after an error is modelled both
  ways.

## 3. The plan

Written, in this order: `WfScheduler`, `CronExpression`, `SchedulerPromise`, with the proofs of all three
and the refinement in `WfSchedulerProofs`,
`Relations` with its proofs, `EmailService` with its proofs, `TaskDiscussion` with its proofs; then the pages: `TaskPage` with its proofs,
`RelationPanels` with its proofs, `TaskList` with its proofs, `ProjectItems` with its
proofs. Every safety property that a run checks is
now a theorem. What is left, the most important first:

1. The history variables' side of the properties: theorems that say how `stale`, `outdated` and
   `excused` come about, so that the exceptions of the properties are themselves bounded.
2. `WfScheduler`'s `fires` instantiated from `CronExpression`'s `isSatisfiedBy`, so that
   the two modules speak of one job.
3. `RelationPanels` over `Relations`: the panel's `Execute` replaced by that module's handlers.
4. The comparators of the list queries (with the width of `long` scaled down) as
   operators against a reference order.
5. Email: two `configure` calls at a time, UIDVALIDITY.

## 4. The modules and the code

A module has one action per handler or per step of a handler that other actors
can come between; `MC*.tla` names small constants for TLC; `*Proofs.tla` holds
theorems. Definitions keep the names of the code where it has them. The
definitions introduced as "a form that ..." are the mutations of `PROJECT.json`;
no specification uses them.

**`WfScheduler`** - `owner`, `content`, `written`, `lost` are the cronInfo nodes
(`written` tells a node whose content property was set from one that `wfinfo`
only created, `lost` a content file that is missing on disk); `conn` the requests
under way; `open`, `page` the schedules page, which has a Save button only for a
non-empty array; `run` the executions of `startWfByCurrentDate`. A request is
`Locate` (getCronRefByLogin and the read) followed by its commit
(`writeScheduleInfo`, `updateAllScheduleInfo`, `readAllRecordByUser`), or
`RetryRequest` when the node changed between; the job's step for a child is
`OpenChild` followed by `CommitChild`, `AbortOnFailure` or `RetryChild`. JSON and
the parameters of a start are the model value `job`; the array is a set (two
entries are never equal, since a submission has its own `job`). The clock has
`Hours` hours and starts again.

**`SchedulerPromise`** - the same scheduler as its users see it: entries wait, are
started in an hour in which they are due, once unless they repeat, and are taken
away by their author only. `WfScheduler!Promise` maps what waits to what some node holds;
requests, copies, conflicts, executions and servers disappear.

**`CronExpression`** - one widget, one entry. Selects are a function from fields
to numbers, the displayed ones are `Pinned[period]`; an expression has `Any` in the
other columns; `Calendar` is what `java.util.Calendar` answers. Minutes are left
out, as the job ignores them, and so is the year.
`HourStrikes` is a pass of `startSuitableWorkflow`. Names that `WfScheduler` has too begin with `Cron` here, because
`WfSchedulerProofs` extends both modules.

**`Relations`** - `folders` carry a rank, because two may have one name and one of
them is found; a relation node records the side it was created from (`by`), the
folder it is a child of (`home`) and the one that points at it (`link`). A request
is `Look` (all it reads) followed by its handler (all it writes). `kind` selects
project, discussion or related workflows; where the scripts differ, so do the
definitions (`Throws`, `Answered`, `createEvent`, `Detached`). The store of the
2013.09 release is the constant `Legacy`: it is only read.

**`EmailService`** - `tx[c]` is a fetch: `BeginFetch`, `OpenFolder`, per message
`SkipMessage` or `FetchMessage`, `CloseFolder`, `CommitFetch` or `AbortFetch`; the nodes of an
open transaction stand in `store` under their owner and others do not see them; `at` is the
place of a node among those of its folder, in the order of creation.
`providers` is the list in memory, in no transaction; `provNodes` the nodes.
`onNewMessageReceived` is the demo listener that files a message under each
project contact.

**`TaskDiscussion`** - per page: `load` is what it waits for, `queue` the levels
still to ask for, `reply` an answer that has come and is not drawn, `form` the
controls, `to` the target of the comment. The links of a workflow are a list per
folder in the order of their creation. The request that links a topic is `BeginPut`, which
finds the folder and takes a place in its list, and `CommitPut`, when others see the link (`linked`);
a request that fails leaves its place empty. The folder is shared with the workflow's other
relations, whose scripts may have made it without any topic (`getFolder`). Where the request found
no folder, the folder comes with the commit. `early` and `raced` record for the property that two
requests had both found nothing listed and were both committed. The PUT from a discussion's side, which
no page of the client sends, is in `Relations` only.

**`TaskPage`** - `owner`, `started` (bpm_status) and `completed` are the server's; `page` has one field for
what each component keeps. An event is one step in which all listeners are
called, in the order of the page's components; the participants' own answer is a step in which
the event is followed by their list. `updateTask` is the server's part of the toolbar's
request and checks only what the interceptor does. Managers and administrators, who
may do more than others, are left out, as are the diagram and the form that ends a task (`EndTask` is external).

**`RelationPanels`** - one module for three panels (`kind`) that are written alike;
where they differ so do the guards. A request is sent, executed (`Execute`) and answered
(`successCallback`), or it fails (`failureCallback`) before or after it was executed. `outdated` and `excused`
are history variables: they only record for the properties that answers overtook each other,
that a list was lost, that another page (`Elsewhere`) came between or that a callback threw. The callbacks of a detach begin by
destroying their prompt (`asks` tells that it is open): once `dismiss` or the answer to an earlier click has closed it,
the callback ends there (`Throw`) and no list is asked for; all others ask for it (`Again`).

**`TaskList`** - `label` is what buttons and title show, `liveData` the address of the table's data, `rows` what
was answered to it, `projectWorkflows` the client's copy of what is attached. `Answer` is the
server's page, `Ours` the client's filter. A page has one row, so a page of a project can be empty.

**`ProjectItems`** - `getContainer` and `createContainer` are two steps of each read; the second of two
creations fails. `page.drawn` and the two buttons are what a page needs to be usable. A request
of a page that was left is still executed (`NoPage`). What a list will show is read by the server (`Answered`) and drawn later
(`doBeforeLoadData`). A deletion has three steps: the prompt is opened (`onDeleteItem`), its button is clicked
once or more (`confirmDelete`), and it is closed by the first answer or before (`cancelDelete`); as in the
panels, a callback that finds its prompt closed throws (`Thrown`) and the list is not loaded (`Unloaded`).

The components meet in the repository, not in calls: `TaskDiscussion` uses the
links `Relations` keeps, `WfScheduler` and `CronExpression` share `isSatisfiedBy`
(there by the constant `fires`, here by what it computes); the panels and the task
list show relations, the task page fires the event that the panels of a workflow wait for
(`MaxEvents`).

## 5. The runs

Every run finishes in two to three minutes with two workers. "Violation" runs
check one statement of the repository about itself that the code does not keep.

| Run | Model and bounds | Shows |
|---|---|---|
| `Overlap` | 1 user, 2 submissions, 2 connections, 3 requests, 2 job threads on one server, a cronInfo node that can lose its file, 2 nodes; 1,087,080 states | entries survive overlapping submissions, saves, lost files, doubled nodes and two executions of the job; the scheduler implements `SchedulerPromise` |
| `Failures` | 2 users, 2 servers with a job thread each, 1 connection, 2 requests, a submission whose start breaks; 150,688 states | the same through failing starts, crashes and restarts; and once the system is healthy, what is due leaves its node |
| `CronExpression` | year of two months of 2 and 3 days, 3-day week, 2-hour day; 810,000 states | daily, weekly and monthly entries start when chosen; an untouched page changes nothing |
| `CronYearly` | same | violation: yearly entries start a month late |
| `Relations` | 2 workflows, 1 project, 2 connections, 3 requests of at most 2 items; 656,664 states | both sides agree, calendar follows, nothing attached twice, detaching detaches |
| `RelationsDiscussion` | 1 discussion, 1 connection, 3 requests | violation: a relation attached from the discussion cannot be detached |
| `EmailService` | 2 fetches at a time, a folder in a folder, 3 messages, 3 nodes a folder, 4 requests; 785,046 states | no gap, nothing fetched again, complete fetches, project complete |
| `TaskDiscussion` | 2 pages, 2 topics, 2 comments, a folder that another script may make; 6,543,601 states | found discussions stay the one that is shown, updates are complete |
| `TaskPage` | 2 users with a page each, a task of one of them and a pooled task, addresses with a task's id, a workflow's or both; 722,681 states | no stale button puts a task out of reach; people and tasks are listed once; buttons come back |
| `RelationPanels` | each of the 3 panels, an old item, one that can be started, 2 requests at a time; 1,434,481 states | a quiet panel shows its own changes; started workflows are linked or excused; prompts close |
| `TaskList` | project's list, own list and dashlet, 2 workflows with one task and page each, 2 orders, 2 filters, 2 requests and 1 preference at a time; 3,352,014 states | the table is what the labels say, a project's pages have its tasks, choices are remembered, the table appears |
| `ProjectItems` | checklists, and conversations with their header, a page that is left and opened again, 2 nodes, 3 requests at a time; 2,127,938 states | a quiet list shows what its page did; an existing container opens completely |

*Why the bounds are enough.* In the scheduler the properties speak of one entry;
to break them another writer has to come between the read and the write of one
array, which two requests and one execution, or two executions, can do, and two
nodes arise for one user when both of two first requests find none. Three
requests allow submit, open and save. Two hours tell an entry that is due from
one that is not. A calendar of two unequal months has every rollover that a long
one has (hour, day, week, month, year), and `Option` keeps a day that the shorter
month lacks. Relations between two workflows and a project give a shared folder
on one side and different ones on the other; three requests are attach, attach
or detach again, and one that overtakes; `Ranks` 2 gives the doubled folder. In the
mailbox the second message concerns two contacts and the other none, a message
can arrive, be removed or be answered although it is old, and a folder has
subfolders. A thread of two comments has a reply to a comment. Two pages
race for topic, link and folder. With `MaxFolders` 1 the folder is
there, empty, before both requests of the race, or is made between them, or not at all. On the task page one page per user
suffices for each to act on what the other changed; own and pooled task are the two
shapes that the predicates distinguish, and a page is opened by a task's id, a
pooled or an own one's, by a workflow's alone, or by both ids. The relation panel needs two requests
for one list to overtake another or a change; one event suffices, as a second one only
repeats what a list request does. Of the task list's two workflows one is attached by other
pages and the other is started in the header: that puts the
project's only task on the second page, behind an empty one. A page of conversations asks for the
container three times, so three requests are the smallest number in which all creations can
collide; they also suffice for two deletions, or a deletion and an addition, and a list under way. Two nodes let a
late answer to the deletion of one meet the prompt of the other. One page is enough, since it is left and opened again:
what the visit before has sent is executed as the change of another page is (`NoPage`, `Unseen`), and a container is made by
two requests of one visit (two pages with one node were checked as well, in five minutes; the theorems are about any number). Contacts differ from checklists by names only.

*Symmetry* is used only among what the specification does not tell apart
(connections, threads of one server, clients, pages; in `ProjectItems` also nodes), in
runs without liveness properties. `CHECK_DEADLOCK FALSE` appears only in
the `Relations` runs: once the bound on requests is used up and no workflow is
left to cancel, nothing happens. In the other models the clock, a reload
or a restart always can.

Conditions in the properties are there for a reason. `AckedKept` excludes authors
who saved their page: a page is a copy, and its Save may bring back what was
started or drop what was added since, by design of that operation.
`ListedOnBothSidesUnlessRaced`, `DeadlinesFollow` and `ListedCommentsStay` exclude folders that
two first requests doubled, and `FetchesOnlyNew` folders whose nodes two fetches left
out of order: there the code has no remedy (section 9). In the same way
`ShowsOwnChanges`, `ShownAsLabelled`, `ProjectTasksShown`, `PreferenceRemembered` and `ListShowsOwnChanges` speak of moments in
which nothing is under way, and except answers that overtook each other: the pages do not number
their requests, and the older answer then stays. `ShowsOwnChanges` and `ListShowsOwnChanges` also except
a detach or a deletion that is answered when its prompt is closed, after which nothing asks for the list. `ListedCommentsStay` also excepts
two first links that overlapped: the place of a link is taken when it is created, so the one that is committed later may come to stand
before the one that a page has found already. Without one of these two TLC finds the property violated. `OpensOnceThere` excepts the visit on
which the container is made. `PeopleListedOnce` is about addresses with one id.

## 6. Fairness

`Overlap`, the cron, relation, email and discussion runs and `ProjectItems` assume none.

- `WfScheduler!FairSpec` (run `Failures`): weak fairness of serving a request, of a
  trigger that is due, of each execution of the job, and of time: Quartz runs a trigger that
  is due when it has a thread, threads of the servers go on, retries do not go on for
  ever since the writers they meet are bounded. Nothing is assumed of users, of
  failures or of repairs. `DueIsStarted` therefore assumes `<>[]Healthy`: from some moment
  on the servers run, content is readable, no start throws and no node is without
  content - without the last of these the job stops at such a node in every hour (section 9).
- `TaskPage!FairSpec`: weak fairness, per page, of the toolbar's request being executed,
  answered or refused, and of its three-second timer. A browser ends every request, by
  an answer or by a failure, and runs its timers. The loaders may fail or never answer.
- `RelationPanels!FairSpec`: every request that was sent is executed, answered or fails, for the same
  reason. Lists may never be answered, users may never click.
- `TaskList!FairSpec`: the first two requests of the list are answered or fail (a failure is
  recorded in `failed`, and `TableAppears` excepts it).

## 7. What is proved

For all users, jobs, expressions, servers, threads, connections and bounds, from
`ConstantsAssumption` (what the constants are, nothing about their sizes):

- `WfSchedulerProofs!Typing` - `Spec => []TypeOK`.
- `WfSchedulerProofs!AckedSchedulesAreKept` - `Spec => []AckedKept`. `AckedKept` alone is
  not inductive: a commit of a request that read too early, or of a second
  request with the same submission, would break it. The invariant is
  `IInv == TypeOK /\ OwnEntries /\ FreshCopies /\ AckedOnce /\ AckedKept`.
  `OwnEntries`: what is stored, displayed or on its way stands under its own author, so
  no other user's save can touch it. `FreshCopies`: a transaction that is not stale
  has read what its node holds now - the optimistic check turned into a state
  predicate; every commit re-establishes it for the others by marking them stale.
  `AckedOnce`: a submission under way is not acknowledged yet, is in no node and has not been started.
  The proof has one step per action; each action that writes a node is a lemma.
- `WfSchedulerProofs!EntriesLeaveByStartOrSave` - `Spec => LeavesByStartOrSave`, an action
  property, from the same invariant.

- `WfSchedulerProofs!ImplementsPromise` - `Spec => Promise!Spec`. Under `IInv` a commit of
  `writeScheduleInfo` is `Accept`, of `updateAllScheduleInfo` `Replace`, of the job
  `Start` of what is due of the child's owner (or nothing, if nothing is), a click on Save is `Save`, and every
  other step leaves the abstract state alone. `AckedKept` is needed for `Start`: what is
  taken out of one node waits in no other.

From `CalendarAssumption` (positive sizes, months no longer than the day select):

- `WfSchedulerProofs!CronTyping` - `CronSpec => []CronTypeOK`.
- `WfSchedulerProofs!ReloadingKeepsEntries` - `CronSpec => []ReloadKeepsEntry`. The invariant
  is `CronInv == CronTypeOK /\ Stored`: a stored expression is pinned in the columns of one period
  and agrees with what the user asked for; no two periods pin the same columns, so the type is found again.
- `WfSchedulerProofs!StartsAsChosen` - `CronSpec => StartsWhenChosen`, for every calendar.

From `TaskPageAssumption` (who is assigned or pooled for a task, that a task has either an assignee or a pool,
that the tasks of a workflow are finitely many and one of them is its first):

- `TaskPageProofs!StaysInReach` - `Spec => []NeverOutOfReach`. What a page will write depends on
  what it was told long ago, so `NeverOutOfReach` is not inductive. `IInv` adds, per page, facts that
  never get old: a claim button is only on pages of pooled actors, a release button only
  for tasks with a pool, a reassign button and the people finder only for tasks without one, and
  a request under way carries somebody within reach. The argument is that whoever is
  in a pool stays in it, while owners change.
- `TaskPageProofs!HistoryIsComplete` - `Spec => []HistoryShowsEachTask`, from the same invariant. `AlikeOK` says which parts of
  a page it depends on, so that each listener needs one line.
- `TaskPageProofs!Typing` - `Spec => []TypeOK` - and `TaskPageProofs!EachListedOnce` - `Spec => []PeopleListedOnce`. The list
  of people is a sequence in an order that the server chooses, and it grows with every answer, so it is right only if
  no second answer comes. The second invariant is `KInv == IInv /\ Forms` with the types of what the server keeps. `Forms`
  says of each page (`ListOK`) which answers may still come: on a page of a workflow only its data, on a page of a
  task the participants, for whom the list waits empty; once people are listed none is under way. `BarOK`
  is the same for the toolbar: buttons are disabled exactly while a request is under way or the page is being left.
  `InAnyOrderOK` shows that the chosen order exists and has everybody once.

From `RelationPanelsAssumption` (the workflow of the panel is an item and cannot be started from it; nothing about sizes):

- `RelationPanelsProofs!Typing` - `Spec => []TypeOK`.
- `RelationPanelsProofs!OwnChangesAreShown` - `Spec => []ShowsOwnChanges`. This says nothing
  while something is under way, so it is not inductive. `Current` is what requests and answers keep: as
  long as no change waits for its list and no list waits to be read, the newest list
  that was read is what the server has, drawn or on its way - or, after a callback that threw, the list is known to be old.
- `RelationPanelsProofs!StartedWorkflowsAreLinked` - `Spec => []StartedIsLinked`, from the
  same invariant, `IInv == Types /\ OnlyStarted /\ Asking /\ Current /\ StartedIsLinked`. `OnlyStarted`:
  rows, requests and prompts name only items that were started, so that starting
  one changes nothing that is shown. `Asking`: only the request of an open prompt closes it, so a callback that
  closes one does not throw.

From `ProjectItemsAssumption` (what can be listed, and that no page and no node is the one that stands for none):

- `ProjectItemsProofs!Typing` - `Spec => []TypeOK`, `OwnItemsAreShown` - `Spec => []ListShowsOwnChanges` - and `ExistingFolderOpens` -
  `Spec => []OpensOnceThere`. The invariant is `IInv == Types /\ Placed /\ Asking /\ Single /\ Founded /\ PageOK`, of every
  request and page. `Asking`: only a deletion closes a prompt, its own. `ReadOK`: the newest list that the server has read is what the folder has, or
  a change that will ask for another was executed since.
  `ShownOK`: a page that is not known to be old shows what the folder has, or its newest list or a change that will
  ask for one is under way. `OpenOK`: a page opened when the folder was there has each of its parts or a request that
  will bring it, and none of its requests makes a folder. `Founded`: nodes are added with a reference to the folder only, so
  an item implies its folder.

From `TaskListAssumption` (what pages, workflows and choices are; nothing about sizes):

- `TaskListProofs!Typing` - `Spec => []TypeOK`, `TableAsLabelled` - `Spec => []ShownAsLabelled`, `TasksOfTheProject` -
  `Spec => []ProjectTasksShown`, `ChoiceIsRemembered` - `Spec => []PreferenceRemembered`. All three properties speak of a quiet
  list. The invariant is `IInv == Types /\ Calls /\ Puts /\ Shown /\ Attached /\ Stored` and follows the newest request of each
  kind. `Calls`: there is one request at most without which there is no table, and none once there is a table;
  so no late answer makes it again. `Shown`: the newest request for rows asks in the order of the labels, and the rows are in that order if
  none is under way. `Attached`: so are the rows of a project, unless a workflow is being attached or what is attached is being
  read. `Puts` and `Stored`: the newest request for a preference stores what its button shows, and what is stored is
  that if none is under way.

From `RelationsAssumption` (what the constants are, nothing about their sizes):

- `RelationsProofs!Typing` - `Spec => []TypeOK`.
- `RelationsProofs!DeadlinesFollowRelations` - `Spec => []DeadlinesFollow`. It counts, and it
  speaks of what is stored, while a request removes what it has read. The invariant is
  `IInv == Types /\ Requests /\ Housed(folders, nodes) /\ Events /\ AllPaired`. `Housed`:
  every node hangs on folders that exist, under the names of its pair. `AllPaired`: as long as
  no folder was made twice, the relations of a pair and its events carry the same
  numbers, in what is stored and in what each request has read. Where names have one folder, a node
  is known by its kind, pair and number; so a request that removes
  all it has read of a pair removes as many of both, or finds one missing and must be run again.
  The loop that ends early is one whose event lost its entry to a user.
- `RelationsProofs!VisibleIsNotAttachedAgain` - `Spec => AttachesOnce` if `"discussion" \notin Kinds`,
  from the same invariant: what a request read of the pair hangs on the one folder `relationExists`
  finds. With discussions it is false: they are attached from both sides, and each side looks into its own folder.
- `RelationsProofs!BothSidesListIt` - `Spec => []ListedOnBothSidesUnlessRaced`, from the same invariant: a relation hangs on a
  folder of each side (`Housed`), and a folder that is the only one of its name is the one that is found.
- `RelationsProofs!DetachedIsGone` - `Spec => DetachRemoves` if `"discussion" \notin Kinds` and `Legacy = {}`. A detach that is answered
  with success has removed all it has read of the pair, and the other conditions of the property say that there was no more. Both
  hypotheses are needed: for discussions the run `RelationsDiscussion` shows the opposite, and relations of the old store
  cannot be removed (section 9).

From `EmailAssumption` (folders, numbers and names, and that every folder is below the default folder; nothing about sizes):

- `EmailServiceProofs!Typing` - `Spec => []TypeOK`.
- `EmailServiceProofs!FetchesLeaveNoGap` - `Spec => []NoGap`. It speaks of committed nodes only, and a
  commit makes many at once. The invariant is `IInv == TypeOK /\ IsFiniteSet(store) /\ Arrivals /\ Boxes /\
  Gapless /\ NoOwnGap /\ Asked /\ ProjectHasStored`. `Gapless` is `NoGap` said of nodes. `NoOwnGap` says the
  same of what one fetch has stored, as that fetch sees it, and `Asked` of what it has still to read:
  whatever is older is stored or will be read, and whatever it will skip is stored. `Arrivals`: UIDs only grow, so
  a message that arrives makes no gap. `Boxes`: a fetch writes into the configuration it found or into none, so
  that what is dropped cannot be written behind. Both `NoOwnGap` and `Asked` survive the commits
  and rollbacks of others, because a fetch sees only committed nodes and its own.
- `EmailServiceProofs!ProjectIsComplete` - `Spec => []ProjectHasStored`: a commit adds to the visible nodes of a message at most
  those the fetch has made, and to the project as many for each contact.
- `EmailServiceProofs!OnlyNewIsFetched` - `Spec => []FetchesOnlyNew` - and `EmailServiceProofs!CompleteFetch` - `Spec => FetchIsComplete`. They are
  about the way of a fetch through the tree: the second invariant is `JInv == IInv /\ Places /\ Trees /\ Tour`. `Once`: the folders
  that are open or to be opened lie below none of each other, so no folder is read twice. `Behind`: what was stored when a
  folder was opened still is, and the fetch asks for what follows it if the nodes are in order. `Covers`: what the server had when the
  fetch began, and still has, is stored or lies in or below a folder still to be read. `Up(f)` is a folder with those
  above it; a set of folders that has with each one also its parent is empty, which is
  what the assumption says and all that is needed of the depth of the tree.

From `DiscussionAssumption` (the bounds are numbers):

- `TaskDiscussionProofs!Typing` - `Spec => []TypeOK`.
- `TaskDiscussionProofs!FoundDiscussionsStay` - `Spec => []ListedCommentsStay`. The invariant is
  `IInv == FoldersOK /\ CommentsOK /\ Links /\ (\A p \in Page : PageOK(page[p]))` with the types of pages. `Found(topic)` says that there is
  a folder and, if there is only one and no two first links were committed, that the topic is the first of its list whose link is
  committed. What could make it false is the commit of a link that was created before: `Links` says of every request
  under way that it stands behind the first committed link, or has found nothing listed, in which case its commit is the
  first or sets `raced`. A page with a listed thread, and each comment from such a page, carries `Found`.
- `TaskDiscussionProofs!UpdatesAreComplete` - `Spec => UpdateShowsAll`, an action property, from the same
  invariant. An update goes down the tree by a queue, and which comments it has asked for already is kept nowhere.
  `UpdateOK` says that there is such a set (`Visited`): it has the root or the root is queued, and a comment whose parent is in
  it is shown, and is in it or queued itself if it has replies. An answer that is drawn adds the head of the
  queue to the set. When the queue is empty, the oldest comment that is not shown would be a
  reply to one that is older and visited, which is impossible: replies are younger than what they reply to. The lemmas
  `HasOrder` and `InOrderOK` show that the chosen order of the replies exists and has each of them.

`tlapm` checks 1555 obligations in `WfSchedulerProofs`, 1312
in `TaskPageProofs`, 713 in `RelationPanelsProofs`, 1458 in `ProjectItemsProofs`,
1234 in `RelationsProofs`, 2070 in `EmailServiceProofs`, 2624 in `TaskDiscussionProofs` and 1204
in `TaskListProofs`. The step lemmas name the facts they use;
the last step of each theorem is temporal (`PTL`).

## 8. Only model-checked, and not modelled

Only model-checked: `DueIsStarted`, `ButtonsComeBack`, `PromptCloses`, `TableAppears`. They are
liveness properties under fairness, which the prover cannot reason about (`ENABLED`). Every other
property of a passing run is a theorem, two of them (`AttachesOnce`, `DetachRemoves`) under the hypotheses of section 7.

Not modelled: the components of section 1's last table; within the modelled
ones, formatting, JSON, wording and layout; the parameters of a workflow start;
minutes and time zones; IMAP UIDVALIDITY and two `configure` calls at a time;
sending of mail; avatars and highlighting of comments; managers and administrators on
the task page, who may do more; what cells of a list look like; searches
in the dialogs, which offer any item that is not related yet; the dialog that only
views a node; a page with a relation panel that is left between the two requests of a start (the workflow then runs and
is related to nothing, and nobody is told). `Legacy` relations are read
in the model but `None` in its runs: the delete script cannot remove
them, by its description it should, and one such run would say no more than that.

## 9. Disagreements between the code and its documentation

Shown by a violation run; `findings` of `PROJECT.json` quotes the lines.

- `CronYearly`: months are compared in two countings.
- `RelationsDiscussion`: the delete script looks on one side only.

Found by reading and by runs of an earlier state of these models, and too plain to need a
run of their own:

- The job logs "content cronInfo for node ... not found" and goes on when
  content is missing (`WfSchudulerServiceImpl.java:160`); for a node that never had content the
  reader is null and it throws instead (`:149`) and leaves the loop for everyone behind it.
- `pushProjectsForWorkflow` uses `projectFolder` before it is assigned
  (`workflow-project-relation.put.json.js:76`): attaching projects from a workflow never works.
- `loadProviders` looks the providers up by a type where an association belongs
  (`EmailServiceImpl.java:275`): a restart forgets them, which `EmailService.java:54` excludes.

Met while modelling, in the models, and with no statement of the repository that
they contradict: a Save from a page that was opened before an entry was started
brings the entry back; two first requests make two cronInfo nodes for a user, of which
a page shows one; two first attaches make two folders of one name, of which the
relations of one are not listed; relations of the old store cannot be removed;
two fetches at a time store a message twice and may leave nodes out of order, after
which the next fetch asks for too much; a click on "add comment" before the
thread is known disables the form for good; comments may go to a topic that no other
page will find; of two first links that overlap in a folder that exists already, the one created first and committed last becomes the
discussion, and comments posted to the other after it was found are no longer shown; when a request of an
update fails, it depends on the queue of Alvex Utils whether `isUpdating` is cleared, and if it is not the page draws no further comments.

On the pages: the participants' event replaces a task's header and dates by those of the
workflow's first task; the header posts "In Progress" each time the owner looks, over any
other status; with both ids in the address people are listed twice and the panels are set
up twice, and if the participants' own request fails nobody is listed; a prompt of a detach stays until
the answer, so its button can be clicked again, and its callbacks begin by destroying it: closed by "Cancel", or by the first answer of a
double click, it throws at the second `destroy()` and the list is not asked for, so the detached row stays
(`alvex-project-workflows.js:676`, `:689`, `alvex-task-projects.js:457`, `:470`); the prompt of a deleted checklist item, contact or conversation
does the same (`project-checklists.js:393`, `:402`); `cancelWorkflow` has no failure callback; a delete or
an addition that fails does not reload the list, though it may have been executed; the header of conversations adds
without telling the list; discussions that are attached from both sides are listed twice, as the
script looks at its own side only; the list script of a project's workflows ignores filter and
sorter; with the style `alfresco` the task list is never drawn (`Selector` is undeclared,
`alvex-task-list.js:521`); nothing fires `taskListPrefsUpdated`; outside of a project
a started workflow does not reload the list.

Smaller ones that `hazards` leaves out: a server that is down when the trigger
should fire skips the hour; `timeZoneOffset` is stored and never read; every
server of a cluster starts a repeating entry; `fetchFolderList` is refused once
the folders have nodes; `isConfigured` throws after `removeProvider`; a provider
whose transaction rolls back stays in the list; a workflow started from a project
runs without it when the second request fails; a comment stored while an update
runs is shown by the next update only; two `Integer` references are
compared in a filter and differences of dates as a sort order (`TaskInstancesGet.java:443`, `:545`); one relation to a
workflow that is gone fails the status of all projects (`projects-status.get.js:48`) or a list of
discussions (`workflow-discussion-relation.get.js:49`); a mailbox that is recreated starts its
UIDs again; a mail folder that was removed on the server makes every later fetch fail, because its node stays active (`EmailServiceImpl.java:376`).
