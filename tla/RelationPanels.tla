--------------------------- MODULE RelationPanels ---------------------------
(***************************************************************************)
(* The three panels that show what is related to something and change it:  *)
(*                                                                         *)
(*  project   the workflows of a project (alvex-project-workflows)         *)
(*  projects  the projects of a workflow (alvex-task-projects)             *)
(*  related   the related workflows of a workflow (alvex-task-relations)   *)
(*                                                                         *)
(* A panel asks for its list, and asks again after each request that       *)
(* attaches, detaches or cancels, when this is answered and when it fails: *)
(* but not after a detach whose prompt was closed before its answer, and   *)
(* not after a cancel that fails.                                          *)
(* A workflow that is started in a panel is attached by a second request.  *)
(* Requests are on their way at the same time and are answered in any      *)
(* order.  Other pages change the relations meanwhile.  How the scripts    *)
(* store relations is Relations' subject; here a list is a set of items.   *)
(*                                                                         *)
(* One panel is modelled; which, is chosen in the first state.  A page of  *)
(* a task with two ids fires its event twice (TaskPage): the panels of a   *)
(* workflow are then set up twice.                                         *)
(***************************************************************************)
EXTENDS Naturals, FiniteSets

CONSTANTS
  Item,      \* workflows, or projects, that may be related
  Self,      \* the workflow of the panel; one of the items of the related panel
  New,       \* bound: items that may be started
  Call,      \* bound: requests at a time
  MaxEvents  \* bound: workflowDetailedData on one page

ASSUME RelationPanelsAssumption ==
  Self \in Item /\ New \subseteq Item \ {Self} /\ MaxEvents \in Nat

VARIABLES
  kind,      \* which panel it is
  started,   \* new items that were started
  exists,    \* items that exist
  active,    \* workflows in progress
  linked,    \* items related to the panel's subject
  ready,     \* the list is set up
  events,    \* events handled
  menu,      \* how often the start menu was filled
  rows,      \* the list as shown: <<item, in progress>>
  dialog,    \* which dialog is open
  prompt,    \* the question before detaching or cancelling
  call,      \* the requests under way
  outdated,  \* history: the list shown is not known to be the newest that was read
  excused    \* history: started items whose failure was shown, or detached again

server == <<started, exists, active, linked>>
ui == <<kind, ready, events, menu, dialog>>
vars == <<server, ui, rows, prompt, call, outdated, excused>>

Kind == {"project", "projects", "related"}
Op == {"attach", "detach", "cancel", "list"}

\* st goes from sent (not yet executed) to stored (executed, not yet answered)
\* for a change, and from asked to served for a list.  asks: its prompt is open.
Idle == [st |-> "idle", op |-> "list", item |-> Self, rows |-> {}, newest |-> FALSE, asks |-> FALSE]
Asked == [Idle EXCEPT !.st = "asked"]
Request(op, x) == [Idle EXCEPT !.st = "sent", !.op = op, !.item = x, !.asks = op = "detach"]

\* The items that are there already.  Only the related panel belongs to one of them.
Old == Item \ (New \cup IF kind = "related" THEN {} ELSE {Self})

NoPrompt == [open |-> FALSE, item |-> Self, sent |-> FALSE]

Free(c) == call[c].st = "idle"
Begin(c, request) == Free(c) /\ call' = [call EXCEPT ![c] = request]

\* Whatever the client sends, the server's lists stay until it is executed.
Client == UNCHANGED <<server, outdated, excused>>

\* What a row tells of an item, its links and dates left out.
Row(x) == <<x, x \in active>>

\* The table of related workflows leaves out the workflow itself.
Shown == {Row(x) : x \in (linked \cap exists) \ IF kind = "related" THEN {Self} ELSE {}}

-----------------------------------------------------------------------------
(* Setting up.                                                             *)

\* The project's page asks for the filter and the sorter that the user prefers;
\* the table is made when they are there, and not at all if the request fails.
onPreferencesLoaded(c) ==
  /\ kind = "project" /\ ~ready
  /\ ready' = TRUE
  /\ Begin(c, Asked)
  /\ Client /\ UNCHANGED <<kind, events, menu, rows, dialog, prompt>>

\* Allowed workflows, then definitions; the options are appended to the menu.
LoadStartMenu ==
  /\ kind # "projects"
  /\ menu < IF kind = "project" THEN 1 ELSE events
  /\ menu' = menu + 1
  /\ Client /\ UNCHANGED <<kind, ready, events, rows, dialog, prompt, call>>

\* The event of the task page: dialogs and table are made and the list is asked for.
onWorkflowDetailedData(c) ==
  /\ kind # "project" /\ events < MaxEvents
  /\ events' = events + 1
  /\ ready' = TRUE
  /\ Begin(c, Asked)
  /\ Client /\ UNCHANGED <<kind, menu, rows, dialog, prompt>>

\* The new value is stored as a preference and the table loaded again; the script
\* that answers does not look at filter or sorter.
onFilterSelected(c) ==
  /\ kind = "project" /\ ready
  /\ Begin(c, Asked)
  /\ Client /\ UNCHANGED <<ui, rows, prompt>>

-----------------------------------------------------------------------------
(* Attaching, and starting a workflow.                                     *)

Unprompted == ~prompt.open

onAttachDialog ==
  /\ Unprompted /\ dialog = "none"
  /\ kind = "project" \/ ready
  /\ dialog' = "attach"
  /\ Client /\ UNCHANGED <<kind, ready, events, menu, rows, prompt, call>>

onAttachCancel ==
  /\ dialog = "attach"
  /\ dialog' = "none"
  /\ Client /\ UNCHANGED <<kind, ready, events, menu, rows, prompt, call>>

\* What the table of the dialog may list: what was found by a search at any time.
Found == Old \cup started

\* A click on a row of the dialog; the same row may be clicked again.
onAttach(c) ==
  /\ dialog = "attach"
  /\ \E x \in Found : Begin(c, Request("attach", x))
  /\ Client /\ UNCHANGED <<ui, rows, prompt>>

onStartWorkflowDialog ==
  /\ Unprompted /\ dialog = "none" /\ menu > 0
  /\ dialog' = "start"
  /\ Client /\ UNCHANGED <<kind, ready, events, menu, rows, prompt, call>>

\* A form that forgets the second request.
StartWorkflowOnly(c) ==
  /\ dialog = "start" /\ Free(c)
  /\ dialog' = "none"
  /\ \E x \in New \ started : started' = started \cup {x} /\ exists' = exists \cup {x} /\ active' = active \cup {x}
  /\ UNCHANGED <<kind, ready, events, menu, linked, rows, prompt, call, outdated, excused>>

\* The form has started the workflow (external); the dialog's onSuccess attaches it.
StartWorkflow(c) ==
  /\ dialog = "start" /\ Free(c)
  /\ dialog' = "none"
  /\ \E x \in New \ started :
       /\ started' = started \cup {x} /\ exists' = exists \cup {x} /\ active' = active \cup {x}
       /\ Begin(c, Request("attach", x))
  /\ UNCHANGED <<kind, ready, events, menu, linked, rows, prompt, outdated, excused>>

\* The form is closed or refused, or the answer is lost and a failure shown.
FailStart ==
  /\ dialog = "start"
  /\ dialog' = "none"
  /\ \E x \in SUBSET (New \ started) :
       /\ Cardinality(x) <= 1
       /\ started' = started \cup x /\ exists' = exists \cup x /\ active' = active \cup x /\ excused' = excused \cup x
  /\ UNCHANGED <<kind, ready, events, menu, linked, rows, prompt, call, outdated>>

-----------------------------------------------------------------------------
(* Detaching and cancelling.                                               *)

\* What the action of a row asks about: only a workflow in progress is cancelled.
Offered == IF kind = "related" THEN {r[1] : r \in {s \in rows : s[2]}} ELSE {r[1] : r \in rows}

askFirst ==
  /\ Unprompted /\ dialog = "none"
  /\ \E x \in Offered : prompt' = [open |-> TRUE, item |-> x, sent |-> FALSE]
  /\ Client /\ UNCHANGED <<ui, rows, call>>

\* The prompt of a detach stays until the answer: its button can be clicked again.
onDetach(c) ==
  /\ prompt.open /\ kind # "related"
  /\ Begin(c, Request("detach", prompt.item))
  /\ prompt' = [prompt EXCEPT !.sent = TRUE]
  /\ Client /\ UNCHANGED <<ui, rows>>

\* The prompt of a cancel is closed with the click.
cancelWorkflow(c) ==
  /\ prompt.open /\ kind = "related"
  /\ Begin(c, Request("cancel", prompt.item))
  /\ prompt' = NoPrompt
  /\ Client /\ UNCHANGED <<ui, rows>>

\* A form in which the request would close whatever prompt is open by then.
dismissKept ==
  /\ prompt.open
  /\ prompt' = NoPrompt
  /\ Client /\ UNCHANGED <<ui, rows, call>>

\* Requests of a prompt that is closed by its other button go on.
dismiss ==
  /\ prompt.open
  /\ prompt' = NoPrompt
  /\ call' = [d \in Call |-> [call[d] EXCEPT !.asks = FALSE]]
  /\ Client /\ UNCHANGED <<ui, rows>>

-----------------------------------------------------------------------------
(* The requests.                                                           *)

Execute(c) ==
  /\ call[c].st = "sent"
  /\ LET x == call[c].item IN
     \/ /\ call[c].op = "attach" /\ linked' = linked \cup {x}
        /\ UNCHANGED <<exists, active, excused>>
     \/ /\ call[c].op = "detach" /\ linked' = linked \ {x}
        /\ excused' = excused \cup (New \cap {x})
        /\ UNCHANGED <<exists, active>>
     \/ /\ call[c].op = "cancel" /\ exists' = exists \ {x} /\ active' = active \ {x}
        /\ UNCHANGED <<linked, excused>>
  /\ call' = [call EXCEPT ![c].st = "stored"]
  /\ UNCHANGED <<started, ui, rows, prompt, outdated>>

\* The callbacks of a detach begin by destroying their prompt.  Once it is gone -
\* by its other button, or by the answer to an earlier click - this throws.
Thrown(c) == call[c].op = "detach" /\ ~call[c].asks

\* Nothing else of the callback runs, whatever was executed: no list is asked for.
Throw(c) ==
  LET old == [d \in Call |-> IF call[c].st = "stored" THEN [call[d] EXCEPT !.newest = FALSE] ELSE call[d]] IN
  /\ Thrown(c)
  /\ call' = [old EXCEPT ![c] = Idle]
  /\ outdated' = (outdated \/ call[c].st = "stored")
  /\ UNCHANGED prompt

\* The callbacks of attach and detach: close the prompt, ask for the list.  Without
\* a table - the preferences are not loaded - there is nothing to load.
Again(c) ==
  LET closed == [d \in Call |-> IF call[c].asks THEN [call[d] EXCEPT !.asks = FALSE] ELSE call[d]] IN
  /\ ~Thrown(c)
  /\ prompt' = IF call[c].asks THEN NoPrompt ELSE prompt
  /\ call' = [closed EXCEPT ![c] = IF ready THEN Asked ELSE Idle]
  /\ UNCHANGED outdated

successCallback(c) ==
  /\ call[c].st = "stored"
  /\ Again(c) \/ Throw(c)
  /\ UNCHANGED <<server, ui, rows, excused>>

\* A failed attach is shown to the user.
Told(c) == IF call[c].op = "attach" THEN New \cap {call[c].item} ELSE {}

\* A form that only says that it has failed.
failureCallbackSilent(c) ==
  /\ call[c].st \in {"sent", "stored"} /\ call[c].op # "cancel"
  /\ call' = [call EXCEPT ![c] = Idle]
  /\ excused' = excused \cup Told(c)
  /\ UNCHANGED <<server, ui, rows, prompt, outdated>>

\* Refused by the server, or executed and the answer lost: a message, and the list
\* is asked for just the same.
failureCallback(c) ==
  /\ call[c].st \in {"sent", "stored"} /\ call[c].op # "cancel"
  /\ Again(c) \/ Throw(c)
  /\ excused' = excused \cup Told(c)
  /\ UNCHANGED <<server, ui, rows>>

\* cancelWorkflow has no failure callback.
failCancel(c) ==
  /\ call[c].st \in {"sent", "stored"} /\ call[c].op = "cancel"
  /\ call' = [d \in Call |-> IF d = c THEN Idle ELSE [call[d] EXCEPT !.newest = FALSE]]
  /\ outdated' = TRUE
  /\ UNCHANGED <<server, ui, rows, prompt, excused>>

\* The server reads the list.
ServeList(c) ==
  /\ call[c].st = "asked"
  /\ call' = [d \in Call |->
       IF d = c THEN [Idle EXCEPT !.st = "served", !.rows = Shown, !.newest = TRUE]
                ELSE [call[d] EXCEPT !.newest = FALSE]]
  /\ UNCHANGED <<server, ui, rows, prompt, outdated, excused>>

onDataReturn(c) ==
  /\ call[c].st = "served"
  /\ rows' = call[c].rows
  /\ outdated' = ~call[c].newest
  /\ call' = [call EXCEPT ![c] = Idle]
  /\ UNCHANGED <<server, ui, prompt, excused>>

failList(c) ==
  /\ call[c].st \in {"asked", "served"}
  /\ call' = [d \in Call |-> IF d = c THEN Idle ELSE [call[d] EXCEPT !.newest = FALSE]]
  /\ outdated' = TRUE
  /\ UNCHANGED <<server, ui, rows, prompt, excused>>

\* Other pages attach and detach, and workflows end.
Elsewhere ==
  /\ \E x \in exists \ {Self} :
       \/ /\ linked' = linked \cup {x}
          /\ UNCHANGED <<active, excused>>
       \/ /\ linked' = linked \ {x} /\ excused' = excused \cup (New \cap {x})
          /\ UNCHANGED active
       \/ /\ active' = active \ {x}
          /\ UNCHANGED <<linked, excused>>
  /\ outdated' = TRUE
  /\ call' = [c \in Call |-> [call[c] EXCEPT !.newest = FALSE]]
  /\ UNCHANGED <<started, exists, ui, rows, prompt>>

Init ==
  /\ kind \in Kind
  /\ started = {} /\ exists = Old
  /\ active = exists
  /\ linked \in SUBSET (exists \ {Self})
  /\ ready = FALSE /\ events = 0 /\ menu = 0
  /\ rows = {}
  /\ dialog = "none" /\ prompt = NoPrompt
  /\ call = [c \in Call |-> Idle]
  /\ outdated = TRUE /\ excused = {}

Answered(c) == Execute(c) \/ successCallback(c) \/ failureCallback(c)

Next ==
  \/ \E c \in Call :
       \/ onPreferencesLoaded(c) \/ onWorkflowDetailedData(c) \/ onFilterSelected(c)
       \/ onAttach(c) \/ StartWorkflow(c) \/ onDetach(c) \/ cancelWorkflow(c)
       \/ Answered(c) \/ failCancel(c) \/ ServeList(c) \/ onDataReturn(c) \/ failList(c)
  \/ LoadStartMenu \/ onAttachDialog \/ onAttachCancel
  \/ onStartWorkflowDialog \/ FailStart \/ askFirst \/ dismiss
  \/ Elsewhere

Spec == Init /\ [][Next]_vars

\* Every request that was sent is executed or fails, and a callback runs.
FairSpec == Spec /\ \A c \in Call : WF_vars(Answered(c))

-----------------------------------------------------------------------------
(* Properties.                                                             *)

\* Beside the types: only the request of the open prompt will close it, and at
\* most one list is the newest.
TypeOK ==
  /\ kind \in Kind /\ ready \in BOOLEAN
  /\ events \in 0 .. MaxEvents /\ menu \in 0 .. MaxEvents + 1
  /\ exists \subseteq Item /\ active \subseteq exists /\ linked \subseteq Item
  /\ rows \subseteq Item \X BOOLEAN
  /\ dialog \in {"none", "attach", "start"}
  /\ prompt \in [open : BOOLEAN, item : Item, sent : BOOLEAN]
  /\ \A c \in Call :
       /\ call[c].st \in {"idle", "sent", "stored", "asked", "served"}
       /\ call[c].op \in Op /\ call[c].item \in Item /\ call[c].rows \subseteq Item \X BOOLEAN
       /\ call[c].asks => prompt.open /\ prompt.sent /\ prompt.item = call[c].item
       /\ \A d \in Call : call[c].newest /\ call[d].newest => c = d
  /\ started \subseteq New /\ excused \subseteq started

\* When nothing is under way, a panel shows all it has changed itself, also what
\* was executed though its request failed on the page - unless answers have
\* overtaken each other, a list could not be read, a cancel has failed, other pages
\* have changed something since, or the prompt of a detach was closed, by its other
\* button or by the answer to an earlier click, before this detach was answered: the
\* list is then not asked for, until something else does.
ShowsOwnChanges ==
  ready /\ (\A c \in Call : Free(c)) /\ ~outdated => rows = Shown

\* A workflow that a panel has started is related to the panel's subject, or a
\* request for this is on its way, or the user was told of a failure or has
\* undone it: the second of the two requests is never just forgotten.
StartedIsLinked ==
  \A x \in New \cap exists :
    \/ x \in linked \cup excused
    \/ \E c \in Call : call[c].st = "sent" /\ call[c].op = "attach" /\ call[c].item = x

\* The prompt of a detach closes, however often its button is clicked and however
\* the requests end.
PromptCloses == prompt.sent ~> ~prompt.open
=============================================================================
