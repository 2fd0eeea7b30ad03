------------------------------ MODULE TaskList ------------------------------
(***************************************************************************)
(* The lists of tasks and workflows that a user has:                       *)
(*                                                                         *)
(*  site     the tasks in a project (alvex-task-list, task-list-header)    *)
(*  mine     the same list outside of a project                            *)
(*  dashlet  the workflows a user has started (my-workflows)               *)
(*                                                                         *)
(* In a project the list first asks which workflows are attached to it,    *)
(* then, as everywhere, for the user's preferences, and only then is the   *)
(* table made.  The server knows nothing of projects here: it pages all    *)
(* tasks of the user, and the client leaves out of each page what is not   *)
(* of the project.  Sorter and filter are chosen with buttons, put into    *)
(* the address of the table's data, and stored as preferences by requests  *)
(* of their own.  The header attaches workflows and makes the list read    *)
(* again what is attached.  Requests are answered in any order.            *)
(*                                                                         *)
(* The table itself (paging, the change of a filter) is Alfresco's: when   *)
(* it is loaded again it starts with the first page; a page has one row.   *)
(* Which of the lists it is, is chosen in the first state.                 *)
(***************************************************************************)
EXTENDS Naturals, FiniteSets

CONSTANTS
  Task, Workflow,
  WorkflowOf,  \* task -> its workflow
  PageOf,      \* task -> the page of the server's list it is on
  New,         \* bound: workflows that are started in the list's header
  Others,      \* bound: workflows that other pages attach and detach
  Sorter, Filter,
  DefaultSorter, DefaultFilter,
  NotSet,      \* no preference, or one the list does not know
  Call, Put    \* bounds: requests at a time; preferences on their way at a time

ASSUME TaskListAssumption ==
  /\ WorkflowOf \in [Task -> Workflow]
  /\ PageOf \in [Task -> Nat \ {0}]
  /\ New \subseteq Workflow /\ Others \subseteq Workflow \ New
  /\ DefaultSorter \in Sorter /\ DefaultFilter \in Filter
  /\ NotSet \notin Sorter \cup Filter

VARIABLES
  kind,      \* which list it is
  style,     \* the style the user has as a preference
  running,   \* workflows that were started
  attached,  \* workflows of the project
  stored,    \* the preferences
  projectWorkflows,  \* workflows of the project, as last answered
  table,     \* the table is made
  label,     \* sorter and filter that the buttons and the title show
  liveData,  \* sorter and filter in the address of the table's data
  rows,      \* what the table shows
  call,      \* requests
  put,       \* requests that store a preference
  failed,    \* history: a request without which there is no table has failed
  stale      \* history: what was not, or not in order, read or stored

server == <<running, attached, stored>>
ui == <<projectWorkflows, table, label, liveData, rows>>
ghost == <<failed, stale>>
fixed == <<kind, style>>
vars == <<fixed, server, ui, call, put, ghost>>

Key == {"sorter", "filter"}
View == [sorter : Sorter, filter : Filter]
Default == [sorter |-> DefaultSorter, filter |-> DefaultFilter]
KnownFor(key) == IF key = "sorter" THEN Sorter ELSE Filter

Pages(tasks) == {PageOf[t] : t \in tasks}
NoRows == [view |-> Default, page |-> 1, tasks |-> {}, pages |-> {}]

\* An attach goes from sent to stored.  What a read brings is what the server has
\* when the answer arrives.
Idle == [st |-> "idle", op |-> "list", first |-> FALSE, attach |-> {}, view |-> Default,
         page |-> 1, newest |-> FALSE]
NoPut == [key |-> "none", value |-> NotSet, newest |-> FALSE]

Free(c) == call[c].st = "idle"
Ask(op) == [Idle EXCEPT !.st = "asked", !.op = op, !.newest = TRUE]
AskWorkflows(first) == [Ask("workflows") EXCEPT !.first = first]
AskPreferences == Ask("preferences")
Attach(w) == [Idle EXCEPT !.st = "sent", !.op = "attach", !.attach = {w}]
loadDataTable(view, p) == [Ask("list") EXCEPT !.view = view, !.page = p]

\* What was asked for later, in the same way, makes an answer old.
Outdate(calls, op) == [d \in Call |-> IF calls[d].op = op THEN [calls[d] EXCEPT !.newest = FALSE] ELSE calls[d]]

Become(c, request) ==
  call' = [(IF request.newest THEN Outdate(call, request.op) ELSE call) EXCEPT ![c] = request]

\* Whether what is shown is the answer to the last request.
Known(c) == stale' = IF call[c].newest THEN stale \ {call[c].op} ELSE stale \cup {call[c].op}

-----------------------------------------------------------------------------
(* Making the list.                                                        *)

\* A form that does not go on to the preferences.
onWorkflowsOnly(c) ==
  /\ call[c].st = "asked" /\ call[c].op = "workflows" /\ call[c].first
  /\ projectWorkflows' = attached
  /\ Known(c)
  /\ Become(c, Idle)
  /\ UNCHANGED <<fixed, server, table, label, liveData, rows, put, failed>>

\* The project's workflows are there: now the preferences.
onWorkflows(c) ==
  /\ call[c].st = "asked" /\ call[c].op = "workflows" /\ call[c].first
  /\ projectWorkflows' = attached
  /\ Known(c)
  /\ Become(c, AskPreferences)
  /\ UNCHANGED <<fixed, server, table, label, liveData, rows, put, failed>>

\* A form that takes over whatever is stored.
PreferredUnknown == [key \in Key |->
  IF key = "sorter" \/ kind = "dashlet" THEN stored[key] ELSE Default[key]]

\* Only known sorters and filters are taken over; the lists of tasks always start
\* with the active ones.
Preferred == [key \in Key |->
  IF (key = "sorter" \/ kind = "dashlet") /\ stored[key] \in KnownFor(key) THEN stored[key]
  ELSE Default[key]]

\* initAlfrescoUI ends with a reference to an alias the file does not declare.
Drawable == style = "alvex" \/ kind = "dashlet"

onPreferencesLoaded(c) ==
  /\ call[c].st = "asked" /\ call[c].op = "preferences"
  /\ label' = Preferred
  /\ IF Drawable
       THEN /\ table' = TRUE /\ liveData' = Preferred
            /\ Become(c, loadDataTable(Preferred, 1))
       ELSE Become(c, Idle) /\ UNCHANGED <<table, liveData>>
  /\ UNCHANGED <<fixed, server, projectWorkflows, rows, put, ghost>>

-----------------------------------------------------------------------------
(* The server's side of a read.                                            *)

UserTasks == {t \in Task : WorkflowOf[t] \in running}

\* The server knows the user's tasks, not the project's.  Its total is the capacity
\* of the list it has made of them, and not its size: there may be empty pages.
Answer(c) == [view |-> call[c].view, page |-> call[c].page, pages |-> Pages(Task),
              tasks |-> {t \in UserTasks : PageOf[t] = call[c].page}]

\* What a page of the server becomes in a project.
Ours(tasks) == IF kind = "site" THEN {t \in tasks : WorkflowOf[t] \in projectWorkflows} ELSE tasks

\* A form that takes the number of pages from the rows that are left.
doBeforeLoadDataTotal(c) ==
  /\ call[c].st = "asked" /\ call[c].op = "list"
  /\ rows' = [Answer(c) EXCEPT !.tasks = Ours(@), !.pages = Pages(Ours(Answer(c).tasks))]
  /\ Known(c)
  /\ Become(c, Idle)
  /\ UNCHANGED <<fixed, server, projectWorkflows, table, label, liveData, put, failed>>

doBeforeLoadData(c) ==
  /\ call[c].st = "asked" /\ call[c].op = "list"
  /\ rows' = [Answer(c) EXCEPT !.tasks = Ours(@)]
  /\ Known(c)
  /\ Become(c, Idle)
  /\ UNCHANGED <<fixed, server, projectWorkflows, table, label, liveData, put, failed>>

\* A message at most.  Without its first answers the list is never made.
FailRead(c) ==
  /\ call[c].st = "asked"
  /\ Become(c, Idle)
  /\ failed' = (failed \/ call[c].first \/ call[c].op = "preferences")
  /\ stale' = IF call[c].newest THEN stale \cup {call[c].op} ELSE stale
  /\ UNCHANGED <<fixed, server, ui, put>>

-----------------------------------------------------------------------------
(* Sorting, filtering, paging.                                             *)

\* The choice: label and address, and for what is remembered a request to store it.
\* The request that was sent last is the one that should count.
Choose(c, key, value, p) ==
  /\ Free(c)
  /\ label' = [label EXCEPT ![key] = value]
  /\ liveData' = [liveData EXCEPT ![key] = value]
  /\ Become(c, loadDataTable(liveData', p))

Remember(key, value) ==
  \E s \in Put :
    /\ put[s].key = "none"
    /\ put' = [r \in Put |-> IF r = s THEN [key |-> key, value |-> value, newest |-> TRUE]
                             ELSE IF put[r].key = key THEN [put[r] EXCEPT !.newest = FALSE] ELSE put[r]]

\* Before there is a table the handler stops at its first use, the label changed.
SorterWithoutTable(s) ==
  /\ ~table
  /\ label' = [label EXCEPT !["sorter"] = s]
  /\ UNCHANGED <<fixed, server, projectWorkflows, table, liveData, rows, call, put, ghost>>

\* A form that loads the table before the address is changed.
onSorterSelectedLate(c) ==
  \E s \in Sorter :
    \/ /\ table /\ Free(c)
       /\ label' = [label EXCEPT !["sorter"] = s]
       /\ liveData' = [liveData EXCEPT !["sorter"] = s]
       /\ Become(c, loadDataTable(liveData, 1))
       /\ Remember("sorter", s)
       /\ UNCHANGED <<fixed, server, projectWorkflows, table, rows, ghost>>
    \/ SorterWithoutTable(s)

\* A form that stores nothing.
onSorterSelectedUnstored(c) ==
  \E s \in Sorter :
    \/ /\ table
       /\ Choose(c, "sorter", s, 1)
       /\ UNCHANGED <<fixed, server, projectWorkflows, table, rows, put, ghost>>
    \/ SorterWithoutTable(s)

onSorterSelected(c) ==
  \E s \in Sorter :
    \/ /\ table
       /\ Choose(c, "sorter", s, 1)
       /\ Remember("sorter", s)
       /\ UNCHANGED <<fixed, server, projectWorkflows, table, rows, ghost>>
    \/ SorterWithoutTable(s)

onFilterSelected(c) ==
  /\ kind = "dashlet" /\ table
  /\ \E f \in Filter : Choose(c, "filter", f, 1) /\ Remember("filter", f)
  /\ UNCHANGED <<fixed, server, projectWorkflows, table, rows, ghost>>

\* Alfresco's table loads the new filter's first page, and title and header follow.
onFilterChanged(c) ==
  /\ kind # "dashlet" /\ table
  /\ \E f \in Filter : Choose(c, "filter", f, 1)
  /\ UNCHANGED <<fixed, server, projectWorkflows, table, rows, put, ghost>>

changePage(c) ==
  /\ table /\ Free(c)
  /\ \E p \in rows.pages \ {rows.page} : Become(c, loadDataTable(liveData, p))
  /\ UNCHANGED <<fixed, server, projectWorkflows, table, label, liveData, rows, put, ghost>>

StorePreference(s) ==
  /\ put[s].key # "none"
  /\ stored' = [stored EXCEPT ![put[s].key] = put[s].value]
  /\ stale' = IF put[s].newest THEN stale \ {put[s].key} ELSE stale \cup {put[s].key}
  /\ put' = [put EXCEPT ![s] = NoPut]
  /\ UNCHANGED <<fixed, running, attached, ui, call, failed>>

FailPreference(s) ==
  /\ put[s].key # "none"
  /\ stale' = IF put[s].newest THEN stale \cup {put[s].key} ELSE stale
  /\ put' = [put EXCEPT ![s] = NoPut]
  /\ UNCHANGED <<fixed, server, ui, call, failed>>

-----------------------------------------------------------------------------
(* The header of a project's list.                                         *)

\* What the dialog's search finds.
Found == running

\* A click in the dialog on a workflow that was found.
onAttachWorkflow(c) ==
  /\ kind = "site"
  /\ \E w \in Found : Free(c) /\ Become(c, Attach(w))
  /\ UNCHANGED <<fixed, server, ui, put, ghost>>

\* What the header's menu offers.
createStartWorkflowMenu == New \ running

\* The form has started a workflow (external); in a project it is attached.  Outside
\* of one the list is not read again.
onStartWorkflowClick(c) ==
  /\ kind # "dashlet" /\ Free(c)
  /\ \E w \in createStartWorkflowMenu :
       /\ running' = running \cup {w}
       /\ IF kind = "site" THEN Become(c, Attach(w)) /\ stale' = stale
          ELSE call' = Outdate(call, "list") /\ stale' = stale \cup {"list"}
  /\ UNCHANGED <<fixed, attached, stored, ui, put, failed>>

StoreAttached(c) ==
  /\ call[c].st = "sent"
  /\ attached' = attached \cup call[c].attach
  /\ Become(c, [call[c] EXCEPT !.st = "stored"])
  /\ UNCHANGED <<fixed, running, stored, ui, put, ghost>>

\* A form that makes the list read again only what was attached for certain.
taskListTableReloadOnSuccess(c) ==
  /\ call[c].st \in {"sent", "stored"}
  /\ \E request \in {AskWorkflows(FALSE), Idle} : Become(c, request)
  /\ UNCHANGED <<fixed, server, ui, put, ghost>>

\* Attached, or the answer is lost, or it was refused: the event is fired.
taskListTableReload(c) ==
  /\ call[c].st \in {"sent", "stored"}
  /\ Become(c, AskWorkflows(FALSE))
  /\ UNCHANGED <<fixed, server, ui, put, ghost>>

\* Without a table the callback ends with an error, what is attached taken over.
onTableReload(c) ==
  /\ call[c].st = "asked" /\ call[c].op = "workflows" /\ ~call[c].first
  /\ projectWorkflows' = attached
  /\ Known(c)
  /\ Become(c, IF table THEN loadDataTable(liveData, 1) ELSE Idle)
  /\ UNCHANGED <<fixed, server, table, label, liveData, rows, put, failed>>

\* Other pages attach and detach.
Elsewhere ==
  /\ kind = "site"
  /\ \E w \in Others : attached' \in {attached \cup {w}, attached \ {w}}
  /\ stale' = stale \cup {"workflows"}
  /\ call' = Outdate(call, "workflows")
  /\ UNCHANGED <<fixed, running, stored, ui, put, failed>>

\* onReady sends the first request.
Init ==
  /\ kind \in {"site", "mine", "dashlet"}
  /\ style \in {"alvex", "alfresco"}
  /\ running = Workflow \ New
  /\ attached \in IF kind = "site" THEN SUBSET running ELSE {{}}
  /\ stored \in [Key -> {NotSet}] \cup [sorter : Sorter, filter : {NotSet}]
  /\ projectWorkflows = {} /\ table = FALSE
  /\ label = Default /\ liveData = Default /\ rows = NoRows
  /\ \E c \in Call :
       call = [d \in Call |-> IF d # c THEN Idle
                              ELSE IF kind = "site" THEN AskWorkflows(TRUE) ELSE AskPreferences]
  /\ put = [s \in Put |-> NoPut]
  /\ failed = FALSE /\ stale = {"workflows", "list"}

Answered(c) == onWorkflows(c) \/ onPreferencesLoaded(c)

Next ==
  \/ \E c \in Call :
       \/ Answered(c) \/ doBeforeLoadData(c) \/ FailRead(c)
       \/ onSorterSelected(c) \/ onFilterSelected(c) \/ onFilterChanged(c) \/ changePage(c)
       \/ onAttachWorkflow(c) \/ onStartWorkflowClick(c)
       \/ StoreAttached(c) \/ taskListTableReload(c) \/ onTableReload(c)
  \/ \E s \in Put : StorePreference(s) \/ FailPreference(s)
  \/ Elsewhere

Spec == Init /\ [][Next]_vars

\* Requests are answered, or fail, which disables the answer.
FairSpec == Spec /\ \A c \in Call : WF_vars(Answered(c))

-----------------------------------------------------------------------------
(* Properties.                                                             *)

\* Beside the types: of each kind of request one at most is the newest.
TypeOK ==
  /\ kind \in {"site", "mine", "dashlet"} /\ style \in {"alvex", "alfresco"}
  /\ running \subseteq Workflow /\ attached \subseteq running
  /\ \A key \in Key : stored[key] \in KnownFor(key) \cup {NotSet}
  /\ projectWorkflows \subseteq running
  /\ table \in BOOLEAN /\ failed \in BOOLEAN
  /\ label \in View /\ liveData \in View
  /\ rows.view \in View /\ rows.tasks \subseteq Task
  /\ stale \subseteq {"workflows", "preferences", "list"} \cup Key
  /\ \A c, d \in Call :
       call[c].newest /\ call[d].newest /\ call[c].op = call[d].op => c = d
  /\ \A r, s \in Put : put[r].newest /\ put[s].newest /\ put[r].key = put[s].key => r = s

Quiet == table /\ \A c \in Call : Free(c)

\* When nothing is under way, the table is in the order and has the filter
\* that the buttons and the title say - unless answers have
\* overtaken each other or a list could not be read.
ShownAsLabelled == Quiet /\ "list" \notin stale => rows.view = label

\* When nothing is under way, a page of a project's list shows just the tasks of
\* workflows attached to the project, what the header has attached or started
\* included, although its request may have failed on the page; and the paginator
\* has every page that a task of the project is on.
ProjectTasksShown ==
  Quiet /\ kind = "site" /\ stale \cap {"list", "workflows"} = {} =>
    /\ rows.tasks = {t \in UserTasks : WorkflowOf[t] \in attached /\ PageOf[t] = rows.page}
    /\ {t \in UserTasks : WorkflowOf[t] \in attached} \subseteq {t \in Task : PageOf[t] \in rows.pages}

\* When nothing is under way, the order that a button shows is the one that the next
\* visit starts with, unless its request failed or was overtaken: nothing else
\* than the user's choice changes either.
PreferenceRemembered ==
  Quiet /\ (\A s \in Put : put[s].key = "none") =>
    \A key \in IF kind = "dashlet" THEN Key ELSE {"sorter"} :
      key \notin stale => label[key] = Preferred[key]

\* A list whose first requests succeed is made, in the style that can be drawn.
TableAppears == <>(table \/ failed \/ ~Drawable)
=============================================================================
