---------------------------- MODULE ProjectItems ----------------------------
(***************************************************************************)
(* What a project keeps beside its workflows: checklists, contacts and     *)
(* conversations.  Each is a folder of the site, its container, and a      *)
(* page that lists the folder's nodes and adds, edits and deletes them.    *)
(*                                                                         *)
(* The container is made when it is first asked for, and it is asked for   *)
(* twice by every page that opens: by the request that only wants its      *)
(* reference, with which nodes are added later, and by the table's.  The   *)
(* page of conversations has a header that asks a third time and adds      *)
(* without telling the list.  Requests of several pages are at the server  *)
(* at the same time; site.getContainer and site.createContainer are two    *)
(* steps, and a folder of the same name cannot be made twice (Alfresco).   *)
(*                                                                         *)
(* Nodes are added and edited by Alfresco's forms (external); the deletion *)
(* is the project's own script, and asks first with a prompt that stays    *)
(* until the answer.  When it was closed before, the answer is lost on the *)
(* page.  One kind of item is modelled; which, is chosen in the first      *)
(* state.                                                                  *)
(***************************************************************************)
EXTENDS Naturals, FiniteSets

CONSTANTS
  Kind,    \* bound: what is listed; contacts and checklists differ in their names only
  Page,    \* browser pages
  NoPage,  \* the page of a request whose page was left
  Item,    \* nodes; each is made once
  NoItem,
  Call     \* bound: requests at a time

ASSUME ProjectItemsAssumption ==
  /\ Kind \subseteq {"checklists", "contacts", "conversations"}
  /\ NoPage \notin Page
  /\ NoItem \notin Item

VARIABLES
  kind,       \* what is listed
  container,  \* the site has the folder
  items,      \* nodes in it
  made,       \* nodes that were made
  edited,     \* nodes whose properties were changed
  page,       \* page -> what it shows
  call        \* requests

server == <<container, items, made, edited>>
vars == <<kind, server, page, call>>

Read == {"container", "header", "list"}
Write == {"add", "headerAdd", "edit", "delete"}

\* excused and outdated are history: whether the folder was not yet there when the
\* page was opened or a read of it was lost, and whether its list is not known to be
\* the newest.
NewPage == [open |-> FALSE, button |-> FALSE, headerButton |-> FALSE, drawn |-> FALSE, rows |-> {},
            prompt |-> NoItem, excused |-> TRUE, outdated |-> TRUE]

\* A read goes from sent, by way of creating where there is no folder, to done; a
\* write from sent to done.  rows is what the server has read for a list; asks: the
\* prompt from which a node is deleted is still open.
Idle == [st |-> "idle", op |-> "list", page |-> NoPage, item |-> NoItem, rows |-> {},
         newest |-> FALSE, asks |-> FALSE]
Request(op, p) == [Idle EXCEPT !.st = "sent", !.op = op, !.page = p, !.newest = op = "list"]

Free(c) == call[c].st = "idle"
Of(p) == {c \in Call : call[c].page = p}

\* A list that was asked for before is no longer the newest.
Outdate(p, calls) == [c \in Call |->
  IF calls[c].page = p THEN [calls[c] EXCEPT !.newest = FALSE] ELSE calls[c]]

\* The answer to a deletion closes the prompt that other deletions may be from.
Shut(c) == [d \in Call |->
  IF call[c].asks /\ call[d].page = call[c].page THEN [call[d] EXCEPT !.asks = FALSE] ELSE call[d]]
Closed(c) == IF call[c].asks THEN [page EXCEPT ![call[c].page].prompt = NoItem] ELSE page

Become(c, request) ==
  call' = [(IF request.op = "list" THEN Outdate(request.page, Shut(c)) ELSE Shut(c)) EXCEPT ![c] = request]

\* What a row shows of a node, and which nodes' rows have the links to edit and delete.
Row(i) == <<i, i \in edited>>
Actions(rows) == {r[1] : r \in rows}

Listed == {Row(i) : i \in items}

-----------------------------------------------------------------------------
(* Opening a page.                                                         *)

\* onReady of the list and, with conversations, of the header.
onReady(p) ==
  /\ ~page[p].open
  /\ \E f \in [IF kind = "conversations" THEN Read ELSE Read \ {"header"} -> {c \in Call : Free(c)}] :
       /\ \A a, b \in DOMAIN f : f[a] = f[b] => a = b
       /\ call' = [c \in Call |-> IF \E op \in DOMAIN f : f[op] = c
                                  THEN Request(CHOOSE op \in DOMAIN f : f[op] = c, p) ELSE call[c]]
  /\ page' = [page EXCEPT ![p] = [NewPage EXCEPT !.open = TRUE, !.excused = ~container]]
  /\ UNCHANGED <<kind, server>>

\* A form in which the callbacks of a page outlive it.
LeaveRunning(p) ==
  /\ page[p].open
  /\ page' = [page EXCEPT ![p] = NewPage]
  /\ UNCHANGED <<kind, server, call>>

\* What was written is still executed.
Leave(p) ==
  /\ page[p].open
  /\ page' = [page EXCEPT ![p] = NewPage]
  /\ call' = [c \in Call |->
       IF c \notin Of(p) THEN call[c]
       ELSE IF call[c].op \in Write /\ call[c].st = "sent"
         THEN [call[c] EXCEPT !.page = NoPage, !.asks = FALSE]
         ELSE Idle]
  /\ UNCHANGED <<kind, server>>

\* A form that makes the folder without looking for it.
getContainerBlind(c) ==
  /\ call[c].op \in Read /\ call[c].st = "sent"
  /\ call' = [call EXCEPT ![c].st = "creating"]
  /\ UNCHANGED <<kind, server, page>>

\* What a request reads in the folder.
Answered(r) == [r EXCEPT !.st = "done", !.rows = IF r.op = "list" THEN Listed ELSE {}]

getContainer(c) ==
  /\ call[c].op \in Read /\ call[c].st = "sent"
  /\ call' = [call EXCEPT ![c] = IF container THEN Answered(@) ELSE [@ EXCEPT !.st = "creating"]]
  /\ UNCHANGED <<kind, server, page>>

createContainer(c) ==
  /\ call[c].st = "creating" /\ ~container
  /\ container' = TRUE
  /\ call' = [call EXCEPT ![c] = Answered(@)]
  /\ UNCHANGED <<kind, items, made, edited, page>>

\* A page of which a read has failed.
Missing(pg, read) ==
  [pg EXCEPT !.excused = @ \/ read.st # "creating", !.outdated = @ \/ read.newest]

\* The second request to make the folder is refused, and any may be lost; for
\* neither has the page a callback.
FailRead(c) ==
  /\ ~Free(c) /\ call[c].op \in Read
  /\ call[c].st = "creating" => container
  /\ page' = [page EXCEPT ![call[c].page] = Missing(@, call[c])]
  /\ Become(c, Idle)
  /\ UNCHANGED <<kind, server>>

\* The reference is there: the button to add something is made.
onContainer(c) ==
  /\ call[c].st = "done" /\ call[c].op \in {"container", "header"}
  /\ page' = [page EXCEPT ![call[c].page] =
                IF call[c].op = "header" THEN [@ EXCEPT !.headerButton = TRUE] ELSE [@ EXCEPT !.button = TRUE]]
  /\ Become(c, Idle)
  /\ UNCHANGED <<kind, server>>

\* An empty list is shown as one row of help, which has no actions.
doBeforeLoadData(c) ==
  /\ call[c].st = "done" /\ call[c].op = "list"
  /\ page' = [page EXCEPT ![call[c].page] =
                [@ EXCEPT !.rows = call[c].rows, !.drawn = TRUE, !.outdated = ~call[c].newest]]
  /\ Become(c, Idle)
  /\ UNCHANGED <<kind, server>>

-----------------------------------------------------------------------------
(* Dialogs.  A form is opened and submitted in one step: what it is about may be *)
(* gone all the same, the list it was opened from being old.  A prompt is open   *)
(* before it is answered, and keeps all other buttons from being used.           *)

Submit(p, c, op, item) ==
  /\ Free(c)
  /\ Become(c, [Request(op, p) EXCEPT !.item = item, !.asks = op = "delete"])
  /\ UNCHANGED <<kind, server, page>>

Unprompted(p) == page[p].prompt = NoItem

\* The list's button and that of the header.
onAddItemClick(p, c) ==
  /\ Unprompted(p)
  /\ \/ page[p].button /\ Submit(p, c, "add", NoItem)
     \/ page[p].headerButton /\ Submit(p, c, "headerAdd", NoItem)

onEditItem(p, c) ==
  /\ Unprompted(p)
  /\ \E i \in Actions(page[p].rows) : Submit(p, c, "edit", i)

onDeleteItem(p) ==
  /\ Unprompted(p)
  /\ \E i \in Actions(page[p].rows) : page' = [page EXCEPT ![p].prompt = i]
  /\ UNCHANGED <<kind, server, call>>

\* The prompt stays: its button can be clicked again.
confirmDelete(p, c) == ~Unprompted(p) /\ Submit(p, c, "delete", page[p].prompt)

\* A deletion that was sent goes on.
cancelDelete(p) ==
  /\ ~Unprompted(p)
  /\ page' = [page EXCEPT ![p].prompt = NoItem]
  /\ call' = [d \in Call |-> IF call[d].page = p THEN [call[d] EXCEPT !.asks = FALSE] ELSE call[d]]
  /\ UNCHANGED <<kind, server>>

-----------------------------------------------------------------------------
(* The requests that write.                                                *)

\* Other pages do not learn of it.  Nor does the list of what the header adds, nor
\* a page that is left or opened in between.
Unseen(c) ==
  {p \in Page : p # call[c].page \/ call[c].op = "headerAdd"}

Changed(c, calls) ==
  /\ page' = [p \in Page |-> IF p \in Unseen(c) THEN [page[p] EXCEPT !.outdated = TRUE] ELSE page[p]]
  /\ call' = [d \in Call |-> IF calls[d].page \in Unseen(c) THEN [calls[d] EXCEPT !.newest = FALSE] ELSE calls[d]]

Executed(c) == [call EXCEPT ![c] = IF call[c].page = NoPage THEN Idle ELSE [@ EXCEPT !.st = "done"]]

createNode(c) ==
  /\ call[c].st = "sent" /\ call[c].op \in {"add", "headerAdd"}
  /\ \E i \in Item \ made : items' = items \cup {i} /\ made' = made \cup {i}
  /\ Changed(c, Executed(c))
  /\ UNCHANGED <<kind, container, edited>>

\* The form of a node that is gone is refused.
editNode(c) ==
  /\ call[c].st = "sent" /\ call[c].op = "edit" /\ call[c].item \in items
  /\ edited' = edited \cup {call[c].item}
  /\ Changed(c, Executed(c))
  /\ UNCHANGED <<kind, container, items, made>>

\* A node that is gone is deleted without an error.
deleteNode(c) ==
  /\ call[c].st = "sent" /\ call[c].op = "delete"
  /\ items' = items \ {call[c].item}
  /\ Changed(c, Executed(c))
  /\ UNCHANGED <<kind, container, made, edited>>

\* The list is left as it is, whatever was executed.
Unloaded(c) ==
  /\ page' = [Closed(c) EXCEPT ![call[c].page].outdated = TRUE]
  /\ call' = [Outdate(call[c].page, Shut(c)) EXCEPT ![c] = Idle]

\* The callbacks of a deletion begin by destroying the prompt.  Once it is gone - by
\* its other button, or by the answer to an earlier click - this throws.
Thrown(c) == call[c].op = "delete" /\ ~call[c].asks

\* A form that leaves the list alone.
onSuccessOnly(c) ==
  /\ call[c].st = "done" /\ call[c].op \in Write
  /\ Become(c, Idle)
  /\ page' = Closed(c)
  /\ UNCHANGED <<kind, server>>

\* Every success but the header's, and one that throws, loads the list again.
onSuccess(c) ==
  /\ call[c].st = "done" /\ call[c].op \in Write
  /\ IF Thrown(c) THEN Unloaded(c)
     ELSE /\ Become(c, IF call[c].op = "headerAdd" THEN Idle ELSE Request("list", call[c].page))
          /\ page' = Closed(c)
  /\ UNCHANGED <<kind, server>>

\* Refused, or executed and the answer lost: a message, and the list is not loaded.
onFailure(c) ==
  /\ call[c].st \in {"sent", "done"} /\ call[c].op \in Write
  /\ IF call[c].st = "done" THEN Unloaded(c) ELSE Become(c, Idle) /\ page' = Closed(c)
  /\ UNCHANGED <<kind, server>>

Init ==
  /\ kind \in Kind
  /\ container \in BOOLEAN
  /\ items \in IF container THEN {{}} \cup {{i} : i \in Item} ELSE {{}}
  /\ made = items /\ edited = {}
  /\ page = [p \in Page |-> NewPage]
  /\ call = [c \in Call |-> Idle]

Next ==
  \/ \E p \in Page :
       \/ onReady(p) \/ Leave(p) \/ onDeleteItem(p) \/ cancelDelete(p)
       \/ \E c \in Call : onAddItemClick(p, c) \/ onEditItem(p, c) \/ confirmDelete(p, c)
  \/ \E c \in Call :
       \/ getContainer(c) \/ createContainer(c) \/ FailRead(c) \/ onContainer(c) \/ doBeforeLoadData(c)
       \/ createNode(c) \/ editNode(c) \/ deleteNode(c) \/ onSuccess(c) \/ onFailure(c)

Spec == Init /\ [][Next]_vars

-----------------------------------------------------------------------------
(* Properties.                                                             *)

\* Beside the types: a page has one newest list, a node is in a folder, a request is
\* of an open page or only to be executed, and one that will close a prompt is that
\* of its page's open prompt.
TypeOK ==
  /\ kind \in Kind /\ container \in BOOLEAN
  /\ items \subseteq made /\ made \subseteq Item /\ edited \subseteq made
  /\ made # {} => container
  /\ \A p \in Page :
       /\ page[p].rows \subseteq Item \X BOOLEAN
  /\ \A c \in Call :
       /\ call[c].st \in {"idle", "sent", "creating", "done"}
       /\ call[c].st = "creating" => call[c].op \in Read
       /\ call[c].page \in Page => page[call[c].page].open
       /\ call[c].asks => page[call[c].page].prompt = call[c].item /\ call[c].item \in Item
       /\ \A d \in Call : call[c].newest /\ call[d].newest /\ call[c].page = call[d].page => c = d

\* When nothing is under way, a list shows all that its page has added, edited and
\* deleted, also when a list that was read before the change is answered after it -
\* unless the answer to a change was lost, a list failed or was overtaken by an older
\* one, another page or the header has changed something, or the prompt of a deletion
\* was closed, by its other button or by the answer to an earlier click, before the
\* deletion was answered.
ListShowsOwnChanges ==
  \A p \in Page : page[p].open /\ Of(p) = {} /\ ~page[p].outdated => page[p].rows = Listed

\* A page that is opened when the folder is there gets its button and its list,
\* unless a request is lost: only the first visit can find another request making
\* the folder at the same time.
OpensOnceThere ==
  \A p \in Page :
    page[p].open /\ ~page[p].excused /\ {c \in Of(p) : call[c].op \in Read} = {} =>
      /\ page[p].button /\ page[p].drawn
      /\ kind = "conversations" => page[p].headerButton
=============================================================================
