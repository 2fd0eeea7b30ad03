------------------------------ MODULE Relations ------------------------------
(***************************************************************************)
(* Relations between workflows and projects, discussions and other         *)
(* workflows.                                                              *)
(*                                                                         *)
(* Every workflow, project and discussion that takes part in a relation    *)
(* has a folder, found by its name and created when it is not found.  A    *)
(* relation is one node: a child of the folder on the side the request     *)
(* came from, and the target of an association of the other side's folder. *)
(* Attaching a workflow with a due date to a project also puts an event    *)
(* into the project's calendar, and a node of kind "event" remembers it.   *)
(*                                                                         *)
(* A request is one repository transaction: it reads what is committed     *)
(* (Look) and writes later (the other handlers); an exception in a script  *)
(* is caught by the script, so what was written before it is committed     *)
(* with the answer 500.                                                    *)
(***************************************************************************)
EXTENDS Naturals, FiniteSets

CONSTANTS
  Workflow,
  Project,
  Discussion,
  Kinds,       \* the kinds of relations under study
  Due,         \* workflows that have a due date
  Legacy,      \* pairs attached by the 2013.09 release, in the old store
  Conn,        \* requests under way at a time
  Ranks,       \* bound: folders of one name; the least one is found first
  MaxDoubles,  \* bound: nodes that differ in nothing
  MaxItems,    \* bound: objects named in one request
  MaxRequests  \* bound: requests ever sent

Kind == {"project", "discussion", "related"}
Side == {"wf", "obj"}

ASSUME RelationsAssumption ==
  /\ Kinds \subseteq Kind
  /\ Due \subseteq Workflow
  /\ Legacy \subseteq Workflow \X Project
  /\ Ranks \subseteq Nat
  /\ MaxDoubles \in Nat
  /\ MaxItems \in Nat
  /\ MaxRequests \in Nat

Object(k) == CASE k = "project" -> Project
               [] k = "discussion" -> Discussion
               [] k = "related" -> Workflow
Objects   == Workflow \cup Project \cup Discussion
Pairs(k)  == {p \in Workflow \X Object(k) : p[1] # p[2]}

\* Folders live in two stores: project-management and advanced-workflows.
Store(k) == IF k \in {"project", "event"} THEN "pm" ELSE "aw"
Name     == {"pm", "aw"} \X Objects
Folder   == [name : Name, rank : Ranks]
RelNode  == [kind : Kind \cup {"event"}, wf : Workflow, obj : Objects, by : Side,
             home : Ranks, link : Ranks, no : 1 .. MaxDoubles]

VARIABLES
  folders,   \* the folders of both stores
  nodes,     \* the relation nodes
  calendar,  \* nodes of kind "event" whose calendar entry exists
  alive,     \* workflows the engine knows
  conn,      \* connection -> the request under way, or the last answer
  sent,      \* number of requests sent (bound)
  removed    \* history: pairs of which a user removed the calendar entry

vars == <<folders, nodes, calendar, alive, conn, sent, removed>>

Idle(status) == [op |-> "idle", kind |-> "project", by |-> "obj", items |-> {},
                 looked |-> FALSE, folders |-> {}, seen |-> {}, status |-> status]
Request == [op : {"idle", "put", "delete", "attach", "detach", "list"}, kind : Kind, by : Side,
            items : SUBSET (Workflow \X Objects), looked : BOOLEAN,
            folders : SUBSET Folder, seen : SUBSET RelNode, status : {0, 200, 500}]

TypeOK ==
  /\ folders \subseteq Folder
  /\ nodes \subseteq RelNode
  /\ calendar \subseteq nodes
  /\ alive \subseteq Workflow
  /\ \A c \in Conn : conn[c] \in Request
  /\ sent \in 0 .. MaxRequests
  /\ removed \subseteq Workflow \X Project

Init ==
  /\ folders = {}
  /\ nodes = {}
  /\ calendar = {}
  /\ alive = Workflow
  /\ conn = [c \in Conn |-> Idle(0)]
  /\ sent = 0
  /\ removed = {}

-----------------------------------------------------------------------------
(* Folders and what a request reads from them.                             *)

NameOf(k, side, p) == <<Store(k), IF side = "wf" THEN p[1] ELSE p[2]>>
Other(side)        == IF side = "wf" THEN "obj" ELSE "wf"
PairOf(n)          == <<n.wf, n.obj>>

\* childByNamePath: the first of the folders of that name, as a rank.
Ranked(fs, name) == {f.rank : f \in {g \in fs : g.name = name}}
IsFirst(fs, name, r) == r \in Ranked(fs, name) /\ \A q \in Ranked(fs, name) : r <= q

\* The children of the folder of one side of p, and the targets of its
\* associations, among the nodes ns.
Children(fs, ns, k, side, p) ==
  {n \in ns : /\ n.kind = k
              /\ n.by = side
              /\ NameOf(k, side, PairOf(n)) = NameOf(k, side, p)
              /\ IsFirst(fs, NameOf(k, side, p), n.home)}
Linked(fs, ns, k, side, p) ==
  {n \in ns : /\ n.kind = k
              /\ n.by = Other(side)
              /\ NameOf(k, side, PairOf(n)) = NameOf(k, side, p)
              /\ IsFirst(fs, NameOf(k, side, p), n.link)}

\* A form that would list the children of the folder only.
getNodesChildren(k, side, p) == {PairOf(n) : n \in Children(folders, nodes, k, side, p)}

\* The pairs found from one side of p, in the legacy store, too.
getNodes(k, side, p) ==
  {PairOf(n) : n \in Children(folders, nodes, k, side, p) \cup Linked(folders, nodes, k, side, p)}
    \cup (IF k = "project" THEN {q \in Legacy : NameOf(k, side, q) = NameOf(k, side, p)} ELSE {})

\* What the get scripts answer: they pass over workflows the engine does not
\* know, but the one for discussions fails at the first of them.
Known(k, p) == p[1] \in alive /\ (k = "related" => p[2] \in alive)
Answered(k, side, p) ==
  LET found == getNodes(k, side, p)
      known == {q \in found : Known(k, q)}
  IN IF k = "discussion" /\ known # found THEN {} ELSE known

\* A form that would look at the other side's folder only.
relationExistsLinked(c, p) ==
  LET q == conn[c] IN
  \E n \in Linked(q.folders, q.seen, q.kind, q.by, p) : PairOf(n) = p

relationExists(c, p) ==
  LET q == conn[c] IN
  \E n \in Children(q.folders, q.seen, q.kind, q.by, p) : PairOf(n) = p

-----------------------------------------------------------------------------
(* The pages.                                                              *)

Send(c, op, k, by, items) ==
  /\ conn[c].op = "idle"
  /\ sent < MaxRequests
  /\ sent' = sent + 1
  /\ conn' = [conn EXCEPT ![c] = [Idle(0) EXCEPT !.op = op, !.kind = k, !.by = by,
                                                 !.items = items]]

\* One side is the same in all items of a request.
OneSided(by, items) ==
  \A p, q \in items : IF by = "wf" THEN p[1] = q[1] ELSE p[2] = q[2]

onAttachWorkflow(c) ==
  /\ \E k \in Kinds, by \in Side : \E items \in SUBSET Pairs(k) :
       /\ items # {} /\ Cardinality(items) <= MaxItems
       /\ OneSided(by, items)
       /\ k = "related" => by = "wf"
       /\ Send(c, "put", k, by, items)
  /\ UNCHANGED <<folders, nodes, calendar, alive, removed>>

onDetachWorkflow(c) ==
  /\ \E k \in Kinds : \E p \in Pairs(k) :
       Send(c, "delete", k, IF k = "project" THEN "obj" ELSE "wf", {p})
  /\ UNCHANGED <<folders, nodes, calendar, alive, removed>>

\* The service for scripts of other extensions knows related workflows only.
CallService(c) ==
  /\ "related" \in Kinds
  /\ \E op \in {"attach", "detach", "list"}, p \in Pairs("related") :
       Send(c, op, "related", "wf", {p})
  /\ UNCHANGED <<folders, nodes, calendar, alive, removed>>

-----------------------------------------------------------------------------
(* The handlers.                                                           *)

Look(c) ==
  /\ conn[c].op # "idle"
  /\ ~conn[c].looked
  /\ conn' = [conn EXCEPT ![c].looked = TRUE, ![c].folders = folders, ![c].seen = nodes]
  /\ UNCHANGED <<folders, nodes, calendar, alive, sent, removed>>

Answer(c, status) == conn' = [conn EXCEPT ![c] = Idle(status)]

\* getFolder: the names the request did not find get a folder each.
Missing(c, names) == {n \in names : Ranked(conn[c].folders, n) = {}}
getFolder(rank) == {[name |-> n, rank |-> rank[n]] : n \in DOMAIN rank}

RankIn(fs, name) == CHOOSE r \in Ranks : IsFirst(fs, name, r)

\* A node that is not there yet, like n in everything but its number.
Fresh(n) ==
  LET used == {m.no : m \in {x \in nodes : [x EXCEPT !.no = 0] = n}}
  IN [n EXCEPT !.no = CHOOSE i \in 1 .. MaxDoubles : i \notin used /\ \A j \in 1 .. i - 1 : j \in used]
Room(n) == \E i \in 1 .. MaxDoubles : [n EXCEPT !.no = i] \notin nodes

\* The relation of p in the folders fs, and its deadline event.
Relation(fs, k, by, p) ==
  [kind |-> k, wf |-> p[1], obj |-> p[2], by |-> by,
   home |-> RankIn(fs, NameOf(k, by, p)), link |-> RankIn(fs, NameOf(k, Other(by), p)), no |-> 0]
Event(fs, p) == [Relation(fs, "event", "wf", p) EXCEPT !.link = RankIn(fs, NameOf("event", "wf", p))]
createEvent(k, ps) == IF k = "project" THEN {p \in ps : p[1] \in Due} ELSE {}

\* Items a put still has to create, and those at which it throws: a project
\* cannot be pushed from the workflow's side, nor an unknown workflow.
New(c)    == {p \in conn[c].items : ~relationExists(c, p)}
Throws(c) == IF conn[c].kind # "project" THEN {}
             ELSE IF conn[c].by = "wf" THEN conn[c].items
             ELSE {p \in New(c) : p[1] \notin alive}

\* Creates the relations of ps and the folders they need.
Create(c, ps) ==
  LET k == conn[c].kind
      by == conn[c].by
      needed == {NameOf(k, by, p) : p \in conn[c].items} \cup {NameOf(k, Other(by), p) : p \in ps}
  IN \E rank \in [Missing(c, needed) -> Ranks] :
       LET fs   == conn[c].folders \cup getFolder(rank)
           rels == {Relation(fs, k, by, p) : p \in ps}
           evts == {Event(fs, p) : p \in createEvent(k, ps)}
       IN /\ getFolder(rank) \cap folders = {}
          /\ \A n \in rels \cup evts : Room(n)
          /\ folders' = folders \cup getFolder(rank)
          /\ nodes' = nodes \cup {Fresh(n) : n \in rels \cup evts}
          /\ calendar' = calendar \cup {Fresh(n) : n \in evts}

\* pushWorkflowsForProject and its likes: all items.
pushWorkflows(c) ==
  /\ conn[c].op \in {"put", "attach"}
  /\ conn[c].looked
  /\ Throws(c) = {}
  /\ Create(c, New(c))
  /\ Answer(c, 200)
  /\ UNCHANGED <<alive, sent, removed>>

\* The loop throws at an item: what stands before it in the list is created,
\* or nothing, if the exception came through a repository service.
pushWorkflowsThrows(c) ==
  /\ conn[c].op = "put"
  /\ conn[c].looked
  /\ Throws(c) # {}
  /\ \/ UNCHANGED <<folders, nodes, calendar>>
     \/ \E ps \in SUBSET (New(c) \ Throws(c)) : Create(c, ps)
  /\ Answer(c, 500)
  /\ UNCHANGED <<alive, sent, removed>>

\* A form that would look at the targets of associations only.
DetachedLinked(c, p) ==
  {n \in Linked(conn[c].folders, conn[c].seen, conn[c].kind, conn[c].by, p) : PairOf(n) = p}

\* What a delete removes: children of one folder, and deadline events.  (The
\* service looks at the targets of associations, too; none has p as its pair.)
Detached(c, p) ==
  {n \in Children(conn[c].folders, conn[c].seen, conn[c].kind, conn[c].by, p) : PairOf(n) = p}
Deadlines(c, p) ==
  IF conn[c].kind = "project"
  THEN {n \in Children(conn[c].folders, conn[c].seen, "event", "wf", p) : PairOf(n) = p}
  ELSE {}

\* A form that leaves the calendar alone.
DeleteNodesOnly(c, ns) ==
  /\ ns \subseteq nodes
  /\ nodes' = nodes \ ns
  /\ UNCHANGED calendar

Delete(c, ns) ==
  /\ ns \subseteq nodes
  /\ nodes' = nodes \ ns
  /\ calendar' = calendar \ ns

\* A form that forgets the events.
deleteRelationOnly(c) ==
  /\ conn[c].op = "delete"
  /\ conn[c].looked
  /\ \A p \in conn[c].items : Deadlines(c, p) \subseteq calendar /\ Delete(c, Detached(c, p))
  /\ Answer(c, 200)
  /\ UNCHANGED <<folders, alive, sent, removed>>

deleteRelation(c) ==
  /\ conn[c].op = "delete"
  /\ conn[c].looked
  /\ \A p \in conn[c].items :
       /\ Deadlines(c, p) \subseteq calendar
       /\ Delete(c, Detached(c, p) \cup Deadlines(c, p))
  /\ Answer(c, 200)
  /\ UNCHANGED <<folders, alive, sent, removed>>

\* An event of which a user removed the calendar entry: findNode answers
\* null, and the loop ends there, with the relation gone.
deleteRelationThrows(c) ==
  /\ conn[c].op = "delete"
  /\ conn[c].looked
  /\ \A p \in conn[c].items :
       /\ ~(Deadlines(c, p) \subseteq calendar)
       /\ \E es \in SUBSET (Deadlines(c, p) \cap calendar) : Delete(c, Detached(c, p) \cup es)
  /\ Answer(c, 500)
  /\ UNCHANGED <<folders, alive, sent, removed>>

\* The service creates the folder it is asked about, even to read it, and
\* removes one node at most.
detachRelatedWorkflow(c) ==
  /\ conn[c].op = "detach"
  /\ conn[c].looked
  /\ \A p \in conn[c].items :
       LET found == Detached(c, p) IN
       \/ /\ found # {}
          /\ \E n \in found : Delete(c, {n})
          /\ UNCHANGED folders
       \/ found = {} /\ Create(c, {})
  /\ Answer(c, 200)
  /\ UNCHANGED <<alive, sent, removed>>

getRelatedWorkflows(c) ==
  /\ conn[c].op = "list"
  /\ conn[c].looked
  /\ Create(c, {})
  /\ Answer(c, 200)
  /\ UNCHANGED <<alive, sent, removed>>

\* Another request removed what this one is about to remove: run again.
RetryRequest(c) ==
  /\ conn[c].op \in {"delete", "detach"}
  /\ conn[c].looked
  /\ \E p \in conn[c].items : ~(Detached(c, p) \cup Deadlines(c, p) \subseteq nodes)
  /\ conn' = [conn EXCEPT ![c].looked = FALSE, ![c].folders = {}, ![c].seen = {}]
  /\ UNCHANGED <<folders, nodes, calendar, alive, sent, removed>>

\* The connection or the server fails: nothing is committed, nothing answered.
LoseRequest(c) ==
  /\ conn[c].op # "idle"
  /\ Answer(c, 0)
  /\ UNCHANGED <<folders, nodes, calendar, alive, sent, removed>>

-----------------------------------------------------------------------------
(* The world.                                                              *)

RemoveCalendarEntry(e) ==
  /\ calendar' = calendar \ {e}
  /\ removed' = removed \cup {PairOf(e)}
  /\ UNCHANGED <<folders, nodes, alive, conn, sent>>

cancelWorkflow(w) ==
  /\ alive' = alive \ {w}
  /\ UNCHANGED <<folders, nodes, calendar, conn, sent, removed>>

Serve(c) ==
  \/ Look(c)
  \/ pushWorkflows(c) \/ pushWorkflowsThrows(c)
  \/ deleteRelation(c) \/ deleteRelationThrows(c)
  \/ detachRelatedWorkflow(c) \/ getRelatedWorkflows(c)
  \/ RetryRequest(c)

Next ==
  \/ \E c \in Conn : onAttachWorkflow(c) \/ onDetachWorkflow(c) \/ CallService(c)
  \/ \E c \in Conn : Serve(c) \/ LoseRequest(c)
  \/ \E e \in calendar : RemoveCalendarEntry(e)
  \/ \E w \in alive : cancelWorkflow(w)

Spec == Init /\ [][Next]_vars

-----------------------------------------------------------------------------
(* Properties.                                                             *)

Relations == {n \in nodes : n.kind # "event"}
FoldersUnique == \A f, g \in folders : f.name = g.name => f = g
Listed(k, p) == \E side \in Side : p \in Answered(k, side, p)

\* A relation of a workflow that still exists is listed for both of its
\* sides: the page of the project and the page of the workflow show the same.
ListedOnBothSides ==
  \A n \in Relations, side \in Side :
    n.kind # "discussion" /\ Known(n.kind, PairOf(n)) =>
      PairOf(n) \in Answered(n.kind, side, PairOf(n))

\* The same as long as no two requests created a folder of one name.
ListedOnBothSidesUnlessRaced == FoldersUnique => ListedOnBothSides

\* As long as no folder was created twice and no user removed the calendar
\* entry, the project's calendar has one event for every attached workflow
\* with a due date, and none for a workflow that is not attached: not after
\* failed requests, retries, concurrent attaching and detaching.
DeadlinesFollow ==
  FoldersUnique =>
    \A p \in (Workflow \X Project) \ removed :
      Cardinality({n \in calendar : PairOf(n) = p}) =
        IF p[1] \in Due THEN Cardinality({n \in nodes : n.kind = "project" /\ PairOf(n) = p})
        ELSE 0

\* Attaching what is attached already, also by another way or again after a
\* failure, does not attach it twice: no request creates a relation of a pair
\* of which it could see one (as long as no folder was created twice).
AttachesOnce ==
  [][\A c \in Conn : \A n \in nodes' \ nodes, m \in nodes \cap conn[c].seen :
       FoldersUnique /\ n.kind # "event" /\ m.kind = n.kind /\ PairOf(m) = PairOf(n)
       => conn'[c] = conn[c]]_vars

\* No two concurrent requests have attached one pair, or made one folder.
AttachedOnce ==
  \A m, n \in Relations : m.kind = n.kind /\ PairOf(m) = PairOf(n) => m = n
Unraced == FoldersUnique /\ AttachedOnce

\* A detach that is answered with success leaves the pair listed nowhere: the
\* script "deletes relation between" the two.  (While it ran, nothing that it
\* did not see was attached.)
DetachRemoves ==
  [][\A c \in Conn, k \in Kinds : \A p \in Pairs(k) :
       /\ conn[c].op \in {"delete", "detach"} /\ conn[c].kind = k /\ p \in conn[c].items
       /\ conn'[c] = Idle(200)
       /\ Unraced /\ nodes \subseteq conn[c].seen
       => ~Listed(k, p)']_vars
=============================================================================
