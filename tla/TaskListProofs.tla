--------------------------- MODULE TaskListProofs ---------------------------
(***************************************************************************)
(* Theorems about TaskList: for every set of tasks, workflows, sorters and *)
(* filters, and any number of requests on their way in any order, what a   *)
(* list shows when nothing is under way is what its labels, the project    *)
(* and the stored preferences say.                                         *)
(*                                                                         *)
(* None of the three properties is inductive: each speaks of a quiet list, *)
(* and what makes it right is under way before.  The invariant follows the *)
(* newest request of each kind: the newest for the list asks for the order *)
(* of the labels, the newest for a preference stores what its button       *)
(* shows, and as long as a workflow is being attached, or what is attached *)
(* is asked for, nothing is said of the rows.  The table is made by the    *)
(* end of one chain of requests, so no answer that makes it comes later.   *)
(***************************************************************************)
EXTENDS TaskList, TLAPS

-----------------------------------------------------------------------------
(* Choices and requests.                                                   *)

\* A sorter and a filter.
Choice(v) == v = [key \in Key |-> v[key]] /\ \A key \in Key : v[key] \in KnownFor(key)

\* Choices as the records the types speak of.
LEMMA ChoiceView == \A v : Choice(v) => v \in View
<1> SUFFICES ASSUME NEW v, Choice(v) PROVE v \in View
  OBVIOUS
<1>1. v["sorter"] \in Sorter /\ v["filter"] \in Filter
  BY DEF Choice, Key, KnownFor
<1>2. v = [sorter |-> v["sorter"], filter |-> v["filter"]]
  BY DEF Choice, Key
<1> QED BY <1>1, <1>2 DEF View

\* What a list starts with is a choice.
LEMMA DefaultChoice == Choice(Default)
BY TaskListAssumption DEF Choice, Key, KnownFor, Default

\* So is what is taken over of the preferences, whatever is stored.
LEMMA PreferredChoice == Choice(Preferred)
<1>1. \A key \in Key : Default[key] \in KnownFor(key)
  BY DefaultChoice DEF Choice
<1>2. \A key \in Key : Preferred[key] \in KnownFor(key)
  BY <1>1 DEF Preferred
<1>3. Preferred = [key \in Key |-> Preferred[key]]
  BY DEF Preferred
<1> QED BY <1>2, <1>3 DEF Choice

\* One key of a choice is changed.
LEMMA Chosen ==
  ASSUME NEW v, Choice(v), NEW key \in Key, NEW x \in KnownFor(key)
  PROVE  /\ Choice([v EXCEPT ![key] = x]) /\ [v EXCEPT ![key] = x][key] = x
         /\ \A k \in Key \ {key} : [v EXCEPT ![key] = x][k] = v[k]
BY DEF Choice

Field == {"st", "op", "first", "attach", "view", "page", "newest"}
IsCall(q) == q = [f \in Field |-> q[f]]

\* The requests, field by field.
LEMMA Requests ==
  /\ IsCall(Idle) /\ Idle.st = "idle" /\ Idle.op = "list" /\ Idle.first = FALSE /\ Idle.attach = {}
  /\ Idle.view = Default /\ Idle.newest = FALSE
  /\ IsCall(AskPreferences) /\ AskPreferences.st = "asked" /\ AskPreferences.op = "preferences"
  /\ AskPreferences.first = FALSE /\ AskPreferences.attach = {} /\ AskPreferences.view = Default
  /\ AskPreferences.newest = TRUE
  /\ \A b : /\ IsCall(AskWorkflows(b)) /\ AskWorkflows(b).st = "asked" /\ AskWorkflows(b).op = "workflows"
            /\ AskWorkflows(b).first = b /\ AskWorkflows(b).attach = {} /\ AskWorkflows(b).view = Default
            /\ AskWorkflows(b).newest = TRUE
  /\ \A w : /\ IsCall(Attach(w)) /\ Attach(w).st = "sent" /\ Attach(w).op = "attach"
            /\ Attach(w).first = FALSE /\ Attach(w).attach = {w} /\ Attach(w).view = Default
            /\ Attach(w).newest = FALSE
  /\ \A v, p : /\ IsCall(loadDataTable(v, p)) /\ loadDataTable(v, p).st = "asked"
               /\ loadDataTable(v, p).op = "list" /\ loadDataTable(v, p).first = FALSE
               /\ loadDataTable(v, p).attach = {} /\ loadDataTable(v, p).view = v
               /\ loadDataTable(v, p).page = p /\ loadDataTable(v, p).newest = TRUE
<1>1. /\ IsCall(Idle) /\ Idle.st = "idle" /\ Idle.op = "list" /\ Idle.first = FALSE /\ Idle.attach = {}
      /\ Idle.view = Default /\ Idle.newest = FALSE
  BY DEF Idle, IsCall, Field
<1>2. \A op : /\ IsCall(Ask(op)) /\ Ask(op).st = "asked" /\ Ask(op).op = op
              /\ Ask(op).first = FALSE /\ Ask(op).attach = {} /\ Ask(op).view = Default
              /\ Ask(op).newest = TRUE
  BY <1>1 DEF Ask, IsCall, Field
<1>3. \A b : /\ IsCall(AskWorkflows(b)) /\ AskWorkflows(b).st = "asked" /\ AskWorkflows(b).op = "workflows"
            /\ AskWorkflows(b).first = b /\ AskWorkflows(b).attach = {} /\ AskWorkflows(b).view = Default
            /\ AskWorkflows(b).newest = TRUE
  BY <1>2 DEF AskWorkflows, IsCall, Field
<1>4. \A w : /\ IsCall(Attach(w)) /\ Attach(w).st = "sent" /\ Attach(w).op = "attach"
            /\ Attach(w).first = FALSE /\ Attach(w).attach = {w} /\ Attach(w).view = Default
            /\ Attach(w).newest = FALSE
  BY <1>1 DEF Attach, IsCall, Field
<1>5. \A v, p : /\ IsCall(loadDataTable(v, p)) /\ loadDataTable(v, p).st = "asked"
               /\ loadDataTable(v, p).op = "list" /\ loadDataTable(v, p).first = FALSE
               /\ loadDataTable(v, p).attach = {} /\ loadDataTable(v, p).view = v
               /\ loadDataTable(v, p).page = p /\ loadDataTable(v, p).newest = TRUE
  BY <1>2 DEF loadDataTable, IsCall, Field
<1> QED BY <1>1, <1>2, <1>3, <1>4, <1>5 DEF AskPreferences

\* The same request, or older.
Alike(q, r) ==
  /\ IsCall(r)
  /\ r.st = q.st /\ r.op = q.op /\ r.first = q.first /\ r.attach = q.attach /\ r.view = q.view

\* Only the newest of a kind changes, and it only gets old.
LEMMA OutdatedOK ==
  ASSUME NEW op, \A d \in Call : IsCall(call[d]) /\ call[d].newest \in BOOLEAN, NEW n, n = Outdate(call, op)
  PROVE  /\ n = [d \in Call |-> n[d]]
         /\ \A d \in Call : Alike(call[d], n[d]) /\ n[d].newest = (call[d].newest /\ call[d].op # op)
<1>1. n = [d \in Call |-> n[d]]
  BY DEF Outdate
<1>2. ASSUME NEW d \in Call
      PROVE  Alike(call[d], n[d]) /\ n[d].newest = (call[d].newest /\ call[d].op # op)
  <2>1. n[d] = IF call[d].op = op THEN [call[d] EXCEPT !.newest = FALSE] ELSE call[d]
    BY DEF Outdate
  <2> QED BY <2>1 DEF Alike, IsCall, Field
<1> QED BY <1>1, <1>2

\* A call becomes a request, and those of the same kind get old.
LEMMA BecameOK ==
  ASSUME call = [d \in Call |-> call[d]], \A d \in Call : IsCall(call[d]) /\ call[d].newest \in BOOLEAN,
         NEW c \in Call, NEW request, request.newest \in BOOLEAN, Become(c, request)
  PROVE  /\ call' = [d \in Call |-> call'[d]] /\ call'[c] = request
         /\ \A d \in Call \ {c} :
              /\ Alike(call[d], call'[d])
              /\ call'[d].newest = (call[d].newest /\ (request.newest => call[d].op # request.op))
<1>1. PICK n : n = IF request.newest THEN Outdate(call, request.op) ELSE call
  OBVIOUS
<1>2. call' = [n EXCEPT ![c] = request]
  BY <1>1 DEF Become
<1>3. /\ n = [d \in Call |-> n[d]]
      /\ \A d \in Call : /\ Alike(call[d], n[d])
                         /\ n[d].newest = (call[d].newest /\ (request.newest => call[d].op # request.op))
  <2>1. CASE request.newest
    BY <1>1, <2>1, OutdatedOK
  <2>2. CASE ~request.newest
    BY <1>1, <2>2 DEF Alike
  <2> QED BY <2>1, <2>2
<1> QED BY <1>2, <1>3

-----------------------------------------------------------------------------
(* The invariant.                                                          *)

Op == {"list", "workflows", "preferences"}

Types ==
  /\ kind \in {"site", "mine", "dashlet"} /\ style \in {"alvex", "alfresco"}
  /\ Workflow \ New \subseteq running /\ running \subseteq Workflow
  /\ attached \subseteq running /\ projectWorkflows \subseteq running
  /\ stored = [key \in Key |-> stored[key]]
  /\ \A key \in Key : stored[key] \in KnownFor(key) \cup {NotSet}
  /\ table \in BOOLEAN /\ failed \in BOOLEAN
  /\ Choice(label) /\ Choice(liveData)
  /\ Choice(rows.view) /\ rows.tasks \subseteq Task
  /\ stale \subseteq Op \cup Key

CallOK(q) ==
  /\ IsCall(q)
  /\ q.st \in {"idle", "asked", "sent", "stored"} /\ q.op \in Op \cup {"attach"}
  /\ q.first \in BOOLEAN /\ q.newest \in BOOLEAN /\ Choice(q.view)
  /\ q.st = "idle" => q.op = "list"
  /\ q.newest => q.st = "asked"
  /\ q.op = "attach" <=> q.st \in {"sent", "stored"}
  /\ q.first => q.op = "workflows"

\* One of the two requests without which there is no table.
Chain(q) == q.first \/ q.op = "preferences"

\* There is one such request at most, and none when there is a table.
Calls ==
  /\ call = [c \in Call |-> call[c]]
  /\ \A c \in Call : CallOK(call[c]) /\ call[c].attach \subseteq running
  /\ \A c \in Call : Chain(call[c]) => ~table
  /\ \A c, d \in Call : Chain(call[c]) /\ Chain(call[d]) => c = d
  /\ \A c, d \in Call : call[c].newest /\ call[d].newest /\ call[c].op = call[d].op => c = d

\* What a newest request will store is what the button shows.
Puts ==
  /\ put = [s \in Put |-> put[s]]
  /\ \A s \in Put : put[s].key # "none" =>
       /\ table /\ put[s].key \in Key /\ put[s].value \in KnownFor(put[s].key)
       /\ put[s].key = "filter" => kind = "dashlet"
  /\ \A s \in Put : put[s].newest => put[s].key # "none" /\ put[s].value = label[put[s].key]
  /\ \A r, s \in Put : put[r].newest /\ put[s].newest /\ put[r].key = put[s].key => r = s

Asked(op) == \E c \in Call : call[c].newest /\ call[c].op = op
Attaching == \E c \in Call : call[c].op = "attach"
Writing(key) == \E s \in Put : put[s].newest /\ put[s].key = key

\* The list that was asked for last, or was answered if none is asked for, is in the order
\* of the labels.
Shown ==
  /\ table => liveData = label
  /\ \A c \in Call : call[c].newest /\ call[c].op = "list" => call[c].view = liveData
  /\ "list" \notin stale => rows.pages = Pages(Task)
  /\ "list" \notin stale /\ ~Asked("list") => rows.view = liveData

\* The list of the project's workflows is right unless one is being attached or it is
\* being read, and so are the rows unless they or those workflows are.
Attached ==
  kind = "site" =>
    /\ "workflows" \notin stale /\ ~Asked("workflows") /\ ~Attaching => projectWorkflows = attached
    /\ /\ table /\ "list" \notin stale /\ "workflows" \notin stale
       /\ ~Asked("list") /\ ~Asked("workflows") /\ ~Attaching
       => rows.tasks = {t \in UserTasks : WorkflowOf[t] \in projectWorkflows /\ PageOf[t] = rows.page}

Remembered == IF kind = "dashlet" THEN Key ELSE {"sorter"}

Stored ==
  table => \A key \in Remembered : key \notin stale /\ ~Writing(key) => label[key] = Preferred[key]

IInv == Types /\ Calls /\ Puts /\ Shown /\ Attached /\ Stored

-----------------------------------------------------------------------------
(* What a request changes in the others.                                   *)

\* Every request is well formed.
LEMMA RequestsOK ==
  /\ CallOK(Idle) /\ ~Chain(Idle) /\ CallOK(AskPreferences)
  /\ \A b \in BOOLEAN : CallOK(AskWorkflows(b)) /\ (Chain(AskWorkflows(b)) => b)
  /\ \A w : CallOK(Attach(w)) /\ ~Chain(Attach(w))
  /\ \A v, p : Choice(v) => CallOK(loadDataTable(v, p)) /\ ~Chain(loadDataTable(v, p))
<1>1. CallOK(Idle) /\ ~Chain(Idle) /\ CallOK(AskPreferences)
  BY Requests, DefaultChoice DEF CallOK, Chain, Op
<1>2. \A b \in BOOLEAN : CallOK(AskWorkflows(b)) /\ (Chain(AskWorkflows(b)) => b)
  BY Requests, DefaultChoice DEF CallOK, Chain, Op
<1>3. \A w : CallOK(Attach(w)) /\ ~Chain(Attach(w))
  BY Requests, DefaultChoice DEF CallOK, Chain, Op
<1>4. ASSUME NEW v, NEW p, Choice(v)
      PROVE  CallOK(loadDataTable(v, p)) /\ ~Chain(loadDataTable(v, p))
  <2>1. PICK q : q = loadDataTable(v, p)
    OBVIOUS
  <2>2. IsCall(q) /\ q.st = "asked" /\ q.op = "list" /\ q.first = FALSE /\ q.view = v /\ q.newest = TRUE
    BY <2>1, Requests
  <2>3. CallOK(q) /\ ~Chain(q)
    BY <1>4, <2>2 DEF CallOK, Chain, Op
  <2> QED BY <2>1, <2>3
<1> QED BY <1>1, <1>2, <1>3, <1>4

\* A request for the list, whatever it asks for.
ForList(q, v) == q.op = "list" /\ q.view = v /\ q.newest = TRUE /\ q.attach = {}

LEMMA ListRequest ==
  ASSUME NEW v, NEW p, Choice(v), NEW q, q = loadDataTable(v, p)
  PROVE  CallOK(q) /\ ~Chain(q) /\ ForList(q, v)
BY Requests, RequestsOK DEF ForList

\* A request that is only outdated.
LEMMA AlikeOK ==
  ASSUME NEW q, NEW r, CallOK(q), Alike(q, r), r.newest \in BOOLEAN, r.newest => q.newest
  PROVE  CallOK(r) /\ (Chain(r) <=> Chain(q))
BY DEF CallOK, Alike, Chain

\* A request takes its place: of its kind it is the newest, and no other becomes so.
LEMMA Becoming ==
  ASSUME Calls, NEW c \in Call, NEW request, CallOK(request), Become(c, request)
  PROVE  /\ call' = [d \in Call |-> call'[d]] /\ call'[c] = request
         /\ \A d \in Call \ {c} :
              /\ CallOK(call'[d]) /\ Alike(call[d], call'[d])
              /\ call'[d].newest => call[d].newest /\ ~(request.newest /\ call[d].op = request.op)
         /\ request.newest => Asked(request.op)'
         /\ \A op : ~Asked(op)' /\ ~(call[c].newest /\ call[c].op = op) => ~Asked(op)
         /\ request.op = "attach" => Attaching'
         /\ ~Attaching' /\ call[c].op # "attach" => ~Attaching
<1>1. /\ call' = [d \in Call |-> call'[d]] /\ call'[c] = request
      /\ \A d \in Call \ {c} :
           /\ Alike(call[d], call'[d])
           /\ call'[d].newest = (call[d].newest /\ (request.newest => call[d].op # request.op))
  BY BecameOK DEF Calls, CallOK
<1>2. \A d \in Call \ {c} : CallOK(call'[d])
  BY <1>1 DEF Calls, CallOK, Alike
<1>3. request.newest => Asked(request.op)'
  BY <1>1 DEF Asked
<1>4. ASSUME NEW op, ~Asked(op)', ~(call[c].newest /\ call[c].op = op)
      PROVE  ~Asked(op)
  <2> SUFFICES ASSUME NEW d \in Call, call[d].newest, call[d].op = op PROVE FALSE
    BY DEF Asked
  <2>1. d # c
    BY <1>4
  <2>2. CASE request.newest /\ request.op = op
    BY <1>3, <1>4, <2>2
  <2>3. CASE ~(request.newest /\ request.op = op)
    BY <1>1, <1>4, <2>1, <2>3 DEF Asked, Alike
  <2> QED BY <2>2, <2>3
<1>5. request.op = "attach" => Attaching'
  BY <1>1 DEF Attaching
<1>6. ~Attaching' /\ call[c].op # "attach" => ~Attaching
  BY <1>1 DEF Attaching, Alike
<1> QED BY <1>1, <1>2, <1>3, <1>4, <1>5, <1>6

\* Only a request of the chain is followed by one.
LEMMA CallsStep ==
  ASSUME Calls, NEW c \in Call, NEW request, CallOK(request), Become(c, request),
         running \subseteq running', request.attach \subseteq running',
         Chain(request) => Chain(call[c]) /\ ~table',
         table' = table \/ Chain(call[c])
  PROVE  Calls'
<1>1. /\ call' = [d \in Call |-> call'[d]] /\ call'[c] = request
      /\ \A d \in Call \ {c} :
           /\ CallOK(call'[d]) /\ Alike(call[d], call'[d])
           /\ call'[d].newest => call[d].newest /\ ~(request.newest /\ call[d].op = request.op)
  BY Becoming
<1>2. \A d \in Call : CallOK(call'[d]) /\ call'[d].attach \subseteq running'
  BY <1>1 DEF Calls, Alike
<1>3. \A d \in Call \ {c} : Chain(call'[d]) <=> Chain(call[d])
  BY <1>1 DEF Alike, Chain
<1>4. \A d \in Call : Chain(call'[d]) => Chain(call[d])
  BY <1>1, <1>3
<1>5. \A d \in Call : Chain(call'[d]) => ~table'
  BY <1>1, <1>3 DEF Calls
<1>6. \A d, e \in Call : Chain(call'[d]) /\ Chain(call'[e]) => d = e
  BY <1>4 DEF Calls
<1>7. \A d, e \in Call : call'[d].newest /\ call'[e].newest /\ call'[d].op = call'[e].op => d = e
  BY <1>1 DEF Calls, Alike
<1> QED BY <1>1, <1>2, <1>5, <1>6, <1>7 DEF Calls

\* What neither the preferences' requests nor the labels change.
LEMMA PutsFrame == Puts /\ UNCHANGED <<put, kind, label, table>> => Puts'
BY DEF Puts

\* The same for what is stored.
LEMMA StoredFrame ==
  ASSUME Stored, UNCHANGED <<put, kind, label, table, stored>>, \A key \in Key : key \in stale' <=> key \in stale
  PROVE  Stored'
BY DEF Stored, Writing, Preferred, Remembered, Key

\* An answer says how old it is, and that of no other kind.
LEMMA KnownOK ==
  ASSUME NEW c \in Call, Known(c), call[c].op \in Op, call[c].newest \in BOOLEAN, stale \subseteq Op \cup Key
  PROVE  /\ stale' \subseteq Op \cup Key
         /\ \A key \in Key : key \in stale' <=> key \in stale
         /\ \A op : op # call[c].op => (op \in stale' <=> op \in stale)
         /\ call[c].op \notin stale' <=> call[c].newest
BY DEF Known, Op, Key

-----------------------------------------------------------------------------
(* Making the list.                                                        *)

\* The project's workflows are there, and the table is not yet.
LEMMA WorkflowsStep == ASSUME IInv, NEW c \in Call, onWorkflows(c) PROVE IInv'
<1>1. CallOK(call[c]) /\ call[c].op = "workflows" /\ Chain(call[c]) /\ ~table
  BY DEF onWorkflows, IInv, Calls, Chain
<1>2. Become(c, AskPreferences) /\ Known(c) /\ projectWorkflows' = attached
  BY DEF onWorkflows
<1>3. UNCHANGED <<kind, style, running, attached, stored, table, label, liveData, rows, put, failed>>
  BY DEF onWorkflows, fixed, server
<1>4. /\ AskPreferences.op = "preferences" /\ AskPreferences.attach = {} /\ CallOK(AskPreferences)
  BY Requests, RequestsOK
<1>5. /\ stale' \subseteq Op \cup Key /\ \A key \in Key : key \in stale' <=> key \in stale
      /\ "list" \in stale' <=> "list" \in stale
  BY <1>1, <1>2, KnownOK DEF CallOK, Op, IInv, Types
<1>6. Types'
  BY <1>2, <1>3, <1>5 DEF IInv, Types
<1>7. Calls'
  BY <1>1, <1>2, <1>3, <1>4, CallsStep DEF IInv
<1>8. Puts' /\ Stored'
  BY <1>3, <1>5, PutsFrame, StoredFrame DEF IInv
<1>9. /\ call'[c] = AskPreferences
      /\ \A d \in Call \ {c} : Alike(call[d], call'[d]) /\ (call'[d].newest => call[d].newest)
      /\ ~Asked("list")' => ~Asked("list")
  BY <1>1, <1>2, <1>4, Becoming DEF IInv
<1>10. Shown'
  BY <1>1, <1>3, <1>4, <1>5, <1>9 DEF IInv, Shown, Alike
<1>11. Attached'
  BY <1>1, <1>2, <1>3 DEF IInv, Attached
<1> QED BY <1>6, <1>7, <1>8, <1>10, <1>11 DEF IInv

\* The table is made, in the order that is preferred.
LEMMA PreferencesStep == ASSUME IInv, NEW c \in Call, onPreferencesLoaded(c) PROVE IInv'
<1>1. CallOK(call[c]) /\ call[c].op = "preferences" /\ Chain(call[c]) /\ ~table
  BY DEF onPreferencesLoaded, IInv, Calls, Chain
<1>2. label' = Preferred
  BY DEF onPreferencesLoaded
<1>3. UNCHANGED <<kind, style, running, attached, stored, projectWorkflows, rows, put, failed, stale>>
  BY DEF onPreferencesLoaded, fixed, server, ghost
<1>4. Puts'
  BY <1>1, <1>3 DEF IInv, Puts
<1>5. CASE Drawable
  <2>1. table' = TRUE /\ liveData' = Preferred /\ Become(c, loadDataTable(Preferred, 1))
    BY <1>5 DEF onPreferencesLoaded
  <2>2. PICK q : q = loadDataTable(Preferred, 1)
    OBVIOUS
  <2>3. q.op = "list" /\ q.view = Preferred /\ q.newest = TRUE /\ q.attach = {} /\ CallOK(q) /\ ~Chain(q)
    BY <2>2, Requests, RequestsOK, PreferredChoice
  <2>4. Types'
    BY <1>2, <1>3, <2>1, PreferredChoice DEF IInv, Types
  <2>5. Calls'
    BY <1>1, <1>3, <2>1, <2>2, <2>3, CallsStep DEF IInv
  <2>6. /\ call'[c] = q /\ Asked("list")'
        /\ \A d \in Call \ {c} : Alike(call[d], call'[d]) /\ (call'[d].newest => call[d].op # "list")
        /\ ~Asked("workflows")' => ~Asked("workflows")
        /\ ~Attaching' => ~Attaching
    BY <1>1, <2>1, <2>2, <2>3, Becoming DEF IInv
  <2>7. Shown'
    BY <1>2, <1>3, <2>1, <2>3, <2>6 DEF IInv, Shown, Alike
  <2>8. Attached'
    BY <1>3, <2>6 DEF IInv, Attached
  <2>9. Stored'
    BY <1>2, <1>3 DEF Stored, Preferred, Remembered, Key
  <2> QED BY <1>4, <2>4, <2>5, <2>7, <2>8, <2>9 DEF IInv
<1>6. CASE ~Drawable
  <2>1. Become(c, Idle) /\ table' = table /\ liveData' = liveData
    BY <1>6 DEF onPreferencesLoaded
  <2>2. Idle.op = "list" /\ Idle.newest = FALSE /\ Idle.attach = {} /\ CallOK(Idle) /\ ~Chain(Idle)
    BY Requests, RequestsOK
  <2>3. Types'
    BY <1>2, <1>3, <2>1, PreferredChoice DEF IInv, Types
  <2>4. Calls'
    BY <1>1, <1>3, <2>1, <2>2, CallsStep DEF IInv
  <2>5. /\ call'[c] = Idle
        /\ \A d \in Call \ {c} : Alike(call[d], call'[d]) /\ (call'[d].newest => call[d].newest)
        /\ ~Asked("list")' => ~Asked("list")
        /\ ~Asked("workflows")' => ~Asked("workflows")
        /\ ~Attaching' => ~Attaching
    BY <1>1, <2>1, <2>2, Becoming DEF IInv
  <2>6. Shown'
    BY <1>1, <1>3, <2>1, <2>2, <2>5 DEF IInv, Shown, Alike
  <2>7. Attached' /\ Stored'
    BY <1>1, <1>3, <2>1, <2>5 DEF IInv, Attached, Stored
  <2> QED BY <1>4, <2>3, <2>4, <2>6, <2>7 DEF IInv
<1> QED BY <1>5, <1>6

\* Rows arrive: those of the last request, or not.
LEMMA LoadStep == ASSUME IInv, NEW c \in Call, doBeforeLoadData(c) PROVE IInv'
<1>1. CallOK(call[c]) /\ call[c].op = "list" /\ ~Chain(call[c])
  BY DEF doBeforeLoadData, IInv, Calls, Chain, CallOK
<1>2. Become(c, Idle) /\ Known(c)
  BY DEF doBeforeLoadData
<1>3. UNCHANGED <<kind, style, running, attached, stored, projectWorkflows, table, label, liveData, put, failed>>
  BY DEF doBeforeLoadData, fixed, server
<1>4. /\ rows'.view = call[c].view /\ rows'.page = call[c].page /\ rows'.pages = Pages(Task)
      /\ rows'.tasks = Ours({t \in UserTasks : PageOf[t] = call[c].page})
  BY DEF doBeforeLoadData, Answer
<1>5. /\ stale' \subseteq Op \cup Key /\ \A key \in Key : key \in stale' <=> key \in stale
      /\ "workflows" \in stale' <=> "workflows" \in stale
      /\ "list" \notin stale' <=> call[c].newest
  BY <1>1, <1>2, KnownOK DEF CallOK, Op, IInv, Types
<1>6. Types'
  <2>1. rows'.tasks \subseteq Task /\ Choice(rows'.view)
    BY <1>1, <1>4 DEF Ours, UserTasks, CallOK
  <2> QED BY <1>3, <1>5, <2>1 DEF IInv, Types
<1>7. Idle.op = "list" /\ Idle.newest = FALSE /\ Idle.attach = {} /\ CallOK(Idle) /\ ~Chain(Idle)
  BY Requests, RequestsOK
<1>8. Calls'
  BY <1>1, <1>2, <1>3, <1>7, CallsStep DEF IInv
<1>9. Puts' /\ Stored'
  BY <1>3, <1>5, PutsFrame, StoredFrame DEF IInv
<1>10. /\ call'[c] = Idle
       /\ \A d \in Call \ {c} : Alike(call[d], call'[d]) /\ (call'[d].newest => call[d].newest)
       /\ ~Asked("workflows")' => ~Asked("workflows")
       /\ ~Attaching' => ~Attaching
  BY <1>1, <1>2, <1>7, Becoming DEF IInv
<1>11. Shown'
  BY <1>1, <1>3, <1>4, <1>5, <1>7, <1>10 DEF IInv, Shown, Alike
<1>12. Attached'
  <2> SUFFICES ASSUME kind' = "site" PROVE Attached'
    BY DEF Attached
  <2>1. rows'.tasks = {t \in UserTasks' : WorkflowOf[t] \in projectWorkflows' /\ PageOf[t] = rows'.page}
    BY <1>3, <1>4 DEF Ours, UserTasks
  <2> QED BY <1>3, <1>5, <1>10, <2>1 DEF IInv, Attached
<1> QED BY <1>6, <1>8, <1>9, <1>11, <1>12 DEF IInv

\* A request that fails leaves what it was to bring stale, unless another is newer.
LEMMA FailStep == ASSUME IInv, NEW c \in Call, FailRead(c) PROVE IInv'
<1>1. CallOK(call[c]) /\ call[c].op \in Op
  BY DEF FailRead, IInv, Calls, CallOK, Op
<1>2. Become(c, Idle) /\ stale' = IF call[c].newest THEN stale \cup {call[c].op} ELSE stale
  BY DEF FailRead
<1>3. UNCHANGED <<kind, style, running, attached, stored, projectWorkflows, table, label, liveData, rows, put>>
  BY DEF FailRead, fixed, server, ui
<1>4. Types'
  <2>1. failed' \in BOOLEAN
    BY DEF FailRead
  <2> QED BY <1>1, <1>2, <1>3, <2>1 DEF IInv, Types
<1>5. Idle.op = "list" /\ Idle.newest = FALSE /\ Idle.attach = {} /\ CallOK(Idle) /\ ~Chain(Idle)
  BY Requests, RequestsOK
<1>6. Calls'
  BY <1>1, <1>2, <1>3, <1>5, CallsStep DEF IInv
<1>7. \A key \in Key : key \in stale' <=> key \in stale
  BY <1>1, <1>2 DEF Op, Key
<1>8. Puts' /\ Stored'
  BY <1>3, <1>7, PutsFrame, StoredFrame DEF IInv
<1>9. /\ call'[c] = Idle
      /\ \A d \in Call \ {c} : Alike(call[d], call'[d]) /\ (call'[d].newest => call[d].newest)
      /\ \A op : ~Asked(op)' /\ op \notin stale' => ~Asked(op) /\ op \notin stale
      /\ ~Attaching' => ~Attaching
  BY <1>1, <1>2, <1>5, Becoming DEF IInv, Op
<1>10. \A op : op \notin stale' => op \notin stale
  BY <1>2
<1>11. Shown'
  BY <1>3, <1>5, <1>9, <1>10 DEF IInv, Shown, Alike
<1>12. Attached'
  BY <1>3, <1>9, <1>10 DEF IInv, Attached, UserTasks
<1> QED BY <1>4, <1>6, <1>8, <1>11, <1>12 DEF IInv

-----------------------------------------------------------------------------
(* Sorting, filtering, paging.                                             *)

\* What no choice changes.
RestSame ==
  /\ kind' = kind /\ style' = style /\ table' = table /\ rows' = rows
  /\ running' = running /\ attached' = attached /\ stored' = stored /\ projectWorkflows' = projectWorkflows
  /\ failed' = failed /\ stale' = stale

\* The newest request of all is call c, for the list in the order v.
LastAsked(c, v) ==
  /\ CallOK(call[c]) /\ call[c].op = "list" /\ call[c].newest = TRUE /\ call[c].view = v
  /\ \A d \in Call : call[d].newest /\ call[d].op = "list" => d = c

\* A list is asked for where no request is.
LEMMA ListCall ==
  ASSUME Calls, NEW c \in Call, Free(c), NEW v, NEW p, Choice(v), Become(c, loadDataTable(v, p)),
         running' = running, table' = table
  PROVE  /\ Calls' /\ LastAsked(c, v)'
         /\ ~Asked("workflows")' => ~Asked("workflows")
         /\ ~Attaching' => ~Attaching
<1>1. CallOK(call[c]) /\ call[c].op # "attach" /\ ~call[c].newest
  BY DEF Free, Calls, CallOK
<1>2. PICK q : q = loadDataTable(v, p)
  OBVIOUS
<1>a. CallOK(q) /\ ~Chain(q) /\ ForList(q, v)
  BY <1>2, ListRequest
<1>3. q.op = "list" /\ q.view = v /\ q.newest = TRUE /\ q.attach = {} /\ CallOK(q) /\ ~Chain(q)
  BY <1>a DEF ForList
<1>4. Calls'
  BY <1>2, <1>3, CallsStep
<1>5. /\ call'[c] = q
      /\ \A d \in Call \ {c} : Alike(call[d], call'[d]) /\ (call'[d].newest => call[d].op # "list")
      /\ ~Asked("workflows")' => ~Asked("workflows")
      /\ ~Attaching' => ~Attaching
  BY <1>1, <1>2, <1>3, Becoming
<1>6. LastAsked(c, v)'
  BY <1>3, <1>5 DEF LastAsked, Alike
<1> QED BY <1>4, <1>5, <1>6

\* The labels and the address of the data agree, and the list is asked for accordingly.
LEMMA ListAsked ==
  ASSUME IInv, NEW c \in Call, NEW v, LastAsked(c, v)', Calls', RestSame,
         ~Asked("workflows")' => ~Asked("workflows"), ~Attaching' => ~Attaching,
         Choice(v), label' = v, liveData' = v
  PROVE  Types' /\ Shown' /\ Attached'
<1>1. Types'
  BY DEF IInv, Types, RestSame
<1>2. Asked("list")'
  BY DEF LastAsked, Asked
<1>3. Shown'
  BY <1>2 DEF IInv, Shown, LastAsked, RestSame
<1>4. Attached'
  BY <1>2 DEF IInv, Attached, RestSame
<1> QED BY <1>1, <1>3, <1>4

\* What is chosen is shown, and the list is asked for.
LEMMA ChooseStep ==
  ASSUME IInv, table, NEW c \in Call, NEW key \in Key, NEW x \in KnownFor(key), NEW p,
         Choose(c, key, x, p), RestSame
  PROVE  /\ Types' /\ Calls' /\ Shown' /\ Attached'
         /\ label'[key] = x /\ \A k \in Key \ {key} : label'[k] = label[k]
<1>1. Choice(label)
  BY DEF IInv, Types
<1>2. PICK v : v = [label EXCEPT ![key] = x]
  OBVIOUS
<1>a. Choice([label EXCEPT ![key] = x])
  BY <1>1, Chosen
<1>3. Choice(v) /\ v[key] = x /\ \A k \in Key \ {key} : v[k] = label[k]
  <2>1. v[key] = x /\ \A k \in Key \ {key} : v[k] = label[k]
    BY <1>1, <1>2 DEF Choice
  <2> QED BY <1>2, <1>a, <2>1
<1>4. Free(c) /\ label' = v /\ liveData' = v
  BY <1>2 DEF IInv, Shown, Choose
<1>5. Become(c, loadDataTable(v, p))
  BY <1>4 DEF Choose
<1>6. /\ Calls' /\ LastAsked(c, v)'
      /\ ~Asked("workflows")' => ~Asked("workflows")
      /\ ~Attaching' => ~Attaching
  <2>1. Free(c) /\ running' = running /\ table' = table /\ Calls
    BY <1>4 DEF RestSame, IInv
  <2> QED BY <1>3, <1>5, <2>1, ListCall
<1>7. Types' /\ Shown' /\ Attached'
  BY <1>3, <1>4, <1>6, ListAsked
<1>8. label'[key] = x /\ \A k \in Key \ {key} : label'[k] = label[k]
  BY <1>3, <1>4
<1> QED BY <1>6, <1>7, <1>8

\* A choice that is to be remembered is on its way to be stored.
LEMMA RememberStep ==
  ASSUME IInv, table, NEW key \in Key, NEW x \in KnownFor(key), key = "filter" => kind = "dashlet",
         label'[key] = x, \A k \in Key \ {key} : label'[k] = label[k], Remember(key, x),
         UNCHANGED <<kind, table, stored, stale>>
  PROVE  Puts' /\ Stored'
<1>1. PICK s \in Put :
        /\ put[s].key = "none"
        /\ put' = [r \in Put |-> IF r = s THEN [key |-> key, value |-> x, newest |-> TRUE]
                                 ELSE IF put[r].key = key THEN [put[r] EXCEPT !.newest = FALSE] ELSE put[r]]
  BY DEF Remember
<1>2. PICK q : q = [key |-> key, value |-> x, newest |-> TRUE]
  OBVIOUS
<1>3. q.key = key /\ q.value = x /\ q.newest = TRUE
  BY <1>2
<1>4. put' = [r \in Put |-> put'[r]] /\ put'[s] = q
  BY <1>1, <1>2
<1>5. \A r \in Put \ {s} : put'[r] = IF put[r].key = key THEN [put[r] EXCEPT !.newest = FALSE] ELSE put[r]
  BY <1>1
<1>6. ASSUME NEW r \in Put \ {s}
      PROVE  /\ put'[r].key = put[r].key /\ put'[r].value = put[r].value
             /\ put'[r].newest => put[r].newest /\ put[r].key # key
  <2>1. CASE put[r].key = key
    <3>1. put[r].key # "none" 
      BY <2>1 DEF Key
    <3>2. put'[r] = [put[r] EXCEPT !.newest = FALSE]
      BY <1>5, <2>1
    <3> QED BY <3>2
  <2>2. CASE put[r].key # key
    BY <1>5, <2>2
  <2> QED BY <2>1, <2>2
<1>7. key # "none"
  BY DEF Key
<1>8. Puts'
  <2>1. \A r \in Put : put'[r].key # "none" =>
          /\ table' /\ put'[r].key \in Key /\ put'[r].value \in KnownFor(put'[r].key)
          /\ put'[r].key = "filter" => kind' = "dashlet"
    BY <1>3, <1>4, <1>6 DEF IInv, Puts
  <2>2. \A r \in Put : put'[r].newest => put'[r].key # "none" /\ put'[r].value = label'[put'[r].key]
    BY <1>3, <1>4, <1>6, <1>7 DEF IInv, Puts
  <2>3. \A r, t \in Put : put'[r].newest /\ put'[t].newest /\ put'[r].key = put'[t].key => r = t
    BY <1>3, <1>4, <1>6 DEF IInv, Puts
  <2> QED BY <1>4, <2>1, <2>2, <2>3 DEF Puts
<1>9. Writing(key)'
  BY <1>3, <1>4 DEF Writing
<1>10. ASSUME NEW k \in Key \ {key}, ~Writing(k)' PROVE ~Writing(k)
  <2> SUFFICES ASSUME NEW r \in Put, put[r].newest, put[r].key = k PROVE FALSE
    BY DEF Writing
  <2>1. r # s
    BY <1>1, <1>10 DEF Key
  <2>2. put'[r] = put[r]
    BY <1>5, <2>1
  <2> QED BY <1>10, <2>2 DEF Writing
<1>11. Stored'
  BY <1>9, <1>10 DEF IInv, Stored, Preferred, Remembered, Key
<1> QED BY <1>8, <1>11

\* A sorter is chosen, before or after there is a table.
LEMMA SorterStep == ASSUME IInv, NEW c \in Call, onSorterSelected(c) PROVE IInv'
<1>1. PICK s \in Sorter :
        \/ /\ table /\ Choose(c, "sorter", s, 1) /\ Remember("sorter", s)
           /\ UNCHANGED <<fixed, server, projectWorkflows, table, rows, ghost>>
        \/ SorterWithoutTable(s)
  BY DEF onSorterSelected
<1>2. "sorter" \in Key /\ s \in KnownFor("sorter") /\ "sorter" # "filter"
  BY DEF Key, KnownFor
<1>3. CASE /\ table /\ Choose(c, "sorter", s, 1) /\ Remember("sorter", s)
           /\ UNCHANGED <<fixed, server, projectWorkflows, table, rows, ghost>>
  <2>1. RestSame
    BY <1>3 DEF RestSame, fixed, server, ghost
  <2>2. /\ Types' /\ Calls' /\ Shown' /\ Attached'
        /\ label'["sorter"] = s /\ \A k \in Key \ {"sorter"} : label'[k] = label[k]
    BY <1>2, <1>3, <2>1, ChooseStep
  <2>3. Puts' /\ Stored'
    BY <1>2, <1>3, <2>1, <2>2, RememberStep DEF RestSame
  <2> QED BY <2>2, <2>3 DEF IInv
<1>4. CASE SorterWithoutTable(s)
  <2>1. ~table /\ label' = [label EXCEPT !["sorter"] = s]
    BY <1>4 DEF SorterWithoutTable
  <2>2. UNCHANGED <<kind, style, running, attached, stored, projectWorkflows, table, liveData, rows, call, put,
                    failed, stale>>
    BY <1>4 DEF SorterWithoutTable, fixed, server, ghost
  <2>3. Choice(label')
    BY <1>2, <2>1, Chosen DEF IInv, Types
  <2>4. Types'
    BY <2>2, <2>3 DEF IInv, Types
  <2>5. Calls' /\ Puts'
    BY <2>1, <2>2 DEF IInv, Calls, Puts
  <2>6. Shown'
    BY <2>1, <2>2 DEF IInv, Shown, Asked
  <2>7. Attached' /\ Stored'
    BY <2>1, <2>2 DEF IInv, Attached, Stored, Asked, Attaching
  <2> QED BY <2>4, <2>5, <2>6, <2>7 DEF IInv
<1> QED BY <1>1, <1>3, <1>4

\* A filter of the dashlet is remembered.
LEMMA FilterStep == ASSUME IInv, NEW c \in Call, onFilterSelected(c) PROVE IInv'
<1>1. PICK f \in Filter : Choose(c, "filter", f, 1) /\ Remember("filter", f)
  BY DEF onFilterSelected
<1>2. "filter" \in Key /\ f \in KnownFor("filter") /\ kind = "dashlet" /\ table
  BY DEF Key, KnownFor, onFilterSelected
<1>3. RestSame
  BY DEF RestSame, onFilterSelected, fixed, server, ghost
<1>4. /\ Types' /\ Calls' /\ Shown' /\ Attached'
      /\ label'["filter"] = f /\ \A k \in Key \ {"filter"} : label'[k] = label[k]
  BY <1>1, <1>2, <1>3, ChooseStep
<1>5. Puts' /\ Stored'
  BY <1>1, <1>2, <1>3, <1>4, RememberStep DEF RestSame
<1> QED BY <1>4, <1>5 DEF IInv

\* The filter of the lists of tasks is not remembered.
LEMMA FilterChangedStep == ASSUME IInv, NEW c \in Call, onFilterChanged(c) PROVE IInv'
<1>1. PICK f \in Filter : Choose(c, "filter", f, 1)
  BY DEF onFilterChanged
<1>2. "filter" \in Key /\ f \in KnownFor("filter") /\ kind # "dashlet" /\ table
  BY DEF Key, KnownFor, onFilterChanged
<1>3. RestSame /\ put' = put
  BY DEF RestSame, onFilterChanged, fixed, server, ghost
<1>4. /\ Types' /\ Calls' /\ Shown' /\ Attached'
      /\ \A k \in Key \ {"filter"} : label'[k] = label[k]
  BY <1>1, <1>2, <1>3, ChooseStep
<1>5. Puts'
  BY <1>2, <1>3, <1>4 DEF IInv, Puts, RestSame
<1>6. Stored'
  BY <1>2, <1>3, <1>4 DEF IInv, Stored, Writing, Preferred, Remembered, Key, RestSame
<1> QED BY <1>4, <1>5, <1>6 DEF IInv

\* Another page, in the same order.
LEMMA PageStep == ASSUME IInv, NEW c \in Call, changePage(c) PROVE IInv'
<1>1. PICK p : Become(c, loadDataTable(liveData, p))
  BY DEF changePage
<1>2. table /\ Free(c)
  BY DEF changePage
<1>3. RestSame /\ label' = label /\ liveData' = liveData /\ put' = put
  BY DEF RestSame, changePage, fixed, server, ghost
<1>4. /\ Calls' /\ LastAsked(c, liveData)'
      /\ ~Asked("workflows")' => ~Asked("workflows")
      /\ ~Attaching' => ~Attaching
  BY <1>1, <1>2, <1>3, ListCall DEF IInv, RestSame, Types
<1>5. Types' /\ Shown' /\ Attached'
  <2>1. label' = liveData /\ Choice(liveData)
    BY <1>2, <1>3 DEF IInv, Shown, Types
  <2> QED BY <1>3, <1>4, <2>1, ListAsked
<1>6. Puts' /\ Stored'
  BY <1>3, PutsFrame, StoredFrame DEF IInv, RestSame
<1> QED BY <1>4, <1>5, <1>6 DEF IInv

-----------------------------------------------------------------------------
(* The preferences' requests.                                              *)

\* A preference is stored, or not; what is sent last is what the button shows.
LEMMA PreferenceStep == ASSUME IInv, NEW s \in Put, StorePreference(s) \/ FailPreference(s) PROVE IInv'
<1>1. PICK key : key = put[s].key
  OBVIOUS
<1>2. /\ key \in Key /\ table /\ put[s].value \in KnownFor(key) /\ (key = "filter" => kind = "dashlet")
      /\ put[s].newest => put[s].value = label[key]
  BY <1>1 DEF StorePreference, FailPreference, IInv, Puts
<1>3. UNCHANGED <<kind, style, running, attached, projectWorkflows, table, label, liveData, rows, call, failed>>
  BY DEF StorePreference, FailPreference, fixed, server, ui
<1>4. put' = [put EXCEPT ![s] = NoPut]
  BY DEF StorePreference, FailPreference
<1>5. /\ put' = [r \in Put |-> put'[r]] /\ \A r \in Put \ {s} : put'[r] = put[r]
      /\ put'[s].key = "none" /\ put'[s].newest = FALSE
  BY <1>4 DEF IInv, Puts, NoPut
<1>6. Puts'
  BY <1>3, <1>5 DEF IInv, Puts
<1>7. /\ stale' \subseteq Op \cup Key
      /\ \A op \in Op : op \in stale' <=> op \in stale
      /\ \A k \in Key \ {key} : k \in stale' <=> k \in stale
  BY <1>1, <1>2 DEF StorePreference, FailPreference, IInv, Types, Op, Key
<1>8. /\ stored' = [k \in Key |-> stored'[k]]
      /\ \A k \in Key \ {key} : stored'[k] = stored[k]
      /\ stored'[key] \in {put[s].value, stored[key]}
  <2>1. CASE StorePreference(s)
    BY <1>1, <1>2, <2>1 DEF StorePreference, IInv, Types
  <2>2. CASE FailPreference(s)
    BY <1>1, <1>2, <2>2 DEF FailPreference, IInv, Types, server
  <2> QED BY <2>1, <2>2
<1>9. Types'
  BY <1>2, <1>3, <1>7, <1>8 DEF IInv, Types
<1>10. Calls'
  BY <1>3 DEF IInv, Calls
<1>11. Shown' /\ Attached'
  BY <1>3, <1>7 DEF IInv, Shown, Attached, Asked, Attaching, UserTasks, Op
<1>12. key \in Remembered
  BY <1>2 DEF Remembered, Key
<1>13. key \notin stale' => (\/ stored'[key] = put[s].value /\ put[s].newest
                             \/ stored'[key] = stored[key] /\ ~put[s].newest /\ key \notin stale)
  <2>1. CASE StorePreference(s)
    BY <1>1, <1>2, <2>1 DEF StorePreference, IInv, Types
  <2>2. CASE FailPreference(s)
    BY <1>1, <1>2, <2>2 DEF FailPreference, server
  <2> QED BY <2>1, <2>2
<1>14. ASSUME NEW k \in Remembered, k \notin stale', ~Writing(k)'
       PROVE  label'[k] = Preferred'[k]
  <2>0. k \in Key
    BY DEF Remembered, Key
  <2>1. CASE k # key
    <3>1. k \notin stale /\ ~Writing(k)
      BY <1>1, <1>5, <1>7, <1>14, <2>0, <2>1 DEF Writing
    <3>2. label[k] = Preferred[k]
      BY <1>2, <1>14, <3>1 DEF IInv, Stored
    <3> QED BY <1>3, <1>8, <2>0, <2>1, <3>2 DEF Preferred
  <2>2. CASE k = key /\ put[s].newest
    <3>1. stored'[key] = label[key] /\ label[key] \in KnownFor(key)
      BY <1>2, <1>13, <1>14, <2>2
    <3>2. key = "sorter" \/ kind = "dashlet"
      BY <1>2 DEF Key
    <3> QED BY <1>2, <1>3, <2>2, <3>1, <3>2 DEF Preferred
  <2>3. CASE k = key /\ ~put[s].newest
    <3>1. key \notin stale /\ stored'[key] = stored[key]
      BY <1>13, <1>14, <2>3
    <3>2. ~Writing(key)
      BY <1>5, <1>14, <2>3 DEF Writing
    <3>3. label[key] = Preferred[key]
      BY <1>2, <1>12, <3>1, <3>2 DEF IInv, Stored
    <3> QED BY <1>2, <1>3, <2>3, <3>1, <3>3 DEF Preferred
  <2> QED BY <2>1, <2>2, <2>3
<1>15. Stored'
  BY <1>3, <1>14 DEF Stored, Remembered
<1> QED BY <1>6, <1>9, <1>10, <1>11, <1>15 DEF IInv

-----------------------------------------------------------------------------
(* The header of a project's list.                                         *)

\* From the attach on until the list is read again nothing is promised.
LEMMA AttachStep == ASSUME IInv, NEW c \in Call, onAttachWorkflow(c) PROVE IInv'
<1>1. PICK w \in running : Free(c) /\ Become(c, Attach(w))
  BY DEF onAttachWorkflow, Found
<1>2. UNCHANGED <<kind, style, running, attached, stored, projectWorkflows, table, label, liveData, rows, put,
                  failed, stale>>
  BY DEF onAttachWorkflow, fixed, server, ui, ghost
<1>3. CallOK(call[c]) /\ ~call[c].newest
  BY <1>1 DEF Free, IInv, Calls, CallOK
<1>4. PICK q : q = Attach(w)
  OBVIOUS
<1>5. q.op = "attach" /\ q.newest = FALSE /\ q.attach = {w} /\ CallOK(q) /\ ~Chain(q)
  BY <1>4, Requests, RequestsOK
<1>6. Types'
  BY <1>2 DEF IInv, Types
<1>7. Calls'
  BY <1>1, <1>2, <1>4, <1>5, CallsStep DEF IInv
<1>8. Puts' /\ Stored'
  BY <1>2, PutsFrame, StoredFrame DEF IInv
<1>9. /\ call'[c] = q /\ Attaching'
      /\ \A d \in Call \ {c} : Alike(call[d], call'[d]) /\ (call'[d].newest => call[d].newest)
      /\ ~Asked("list")' => ~Asked("list")
  BY <1>1, <1>3, <1>4, <1>5, Becoming DEF IInv
<1>10. Shown'
  BY <1>2, <1>5, <1>9 DEF IInv, Shown, Alike
<1>11. Attached'
  BY <1>9 DEF Attached
<1> QED BY <1>6, <1>7, <1>8, <1>10, <1>11 DEF IInv

\* A workflow is started: attached in a project, and missing in the list outside of one.
LEMMA StartStep == ASSUME IInv, NEW c \in Call, onStartWorkflowClick(c) PROVE IInv'
<1>1. PICK w \in New :
        /\ running' = running \cup {w}
        /\ IF kind = "site" THEN Become(c, Attach(w)) /\ stale' = stale
           ELSE call' = Outdate(call, "list") /\ stale' = stale \cup {"list"}
  BY DEF onStartWorkflowClick, createStartWorkflowMenu
<1>2. UNCHANGED <<kind, style, attached, stored, projectWorkflows, table, label, liveData, rows, put, failed>>
  BY DEF onStartWorkflowClick, fixed, ui
<1>3. CallOK(call[c]) /\ ~call[c].newest
  BY DEF onStartWorkflowClick, Free, IInv, Calls, CallOK
<1>4. Types'
  BY <1>1, <1>2, TaskListAssumption DEF IInv, Types, Op
<1>5. \A key \in Key : key \in stale' <=> key \in stale
  BY <1>1 DEF Key
<1>6. Puts' /\ Stored'
  BY <1>2, <1>5, PutsFrame, StoredFrame DEF IInv
<1>7. CASE kind = "site"
  <2>1. Become(c, Attach(w)) /\ stale' = stale
    BY <1>1, <1>7
  <2>2. PICK q : q = Attach(w)
    OBVIOUS
  <2>3. q.op = "attach" /\ q.newest = FALSE /\ q.attach = {w} /\ CallOK(q) /\ ~Chain(q)
    BY <2>2, Requests, RequestsOK
  <2>4. Calls'
    BY <1>1, <1>2, <2>1, <2>2, <2>3, CallsStep DEF IInv
  <2>5. /\ call'[c] = q /\ Attaching'
        /\ \A d \in Call \ {c} : Alike(call[d], call'[d]) /\ (call'[d].newest => call[d].newest)
        /\ ~Asked("list")' => ~Asked("list")
    BY <1>3, <2>1, <2>2, <2>3, Becoming DEF IInv
  <2>6. Shown'
    BY <1>2, <2>1, <2>3, <2>5 DEF IInv, Shown, Alike
  <2>7. Attached'
    BY <2>5 DEF Attached
  <2> QED BY <1>4, <1>6, <2>4, <2>6, <2>7 DEF IInv
<1>8. CASE kind # "site"
  <2>1. call' = Outdate(call, "list") /\ stale' = stale \cup {"list"}
    BY <1>1, <1>8
  <2>2. /\ call' = [d \in Call |-> call'[d]]
        /\ \A d \in Call : Alike(call[d], call'[d]) /\ call'[d].newest = (call[d].newest /\ call[d].op # "list")
    <3>1. \A d \in Call : IsCall(call[d]) /\ call[d].newest \in BOOLEAN
      BY DEF IInv, Calls, CallOK
    <3>2. PICK n : n = Outdate(call, "list")
      OBVIOUS
    <3>3. /\ n = [d \in Call |-> n[d]]
          /\ \A d \in Call : Alike(call[d], n[d]) /\ n[d].newest = (call[d].newest /\ call[d].op # "list")
      BY <3>1, <3>2, OutdatedOK
    <3> QED BY <2>1, <3>2, <3>3
  <2>3. \A d \in Call : CallOK(call'[d]) /\ (Chain(call'[d]) <=> Chain(call[d]))
    <3>1. \A d \in Call : CallOK(call[d]) /\ call'[d].newest \in BOOLEAN
      BY <2>2 DEF IInv, Calls
    <3> QED BY <2>2, <3>1, AlikeOK
  <2>4. Calls'
    BY <1>1, <1>2, <2>2, <2>3 DEF IInv, Calls, Alike
  <2>5. Shown'
    BY <1>2, <2>1, <2>2 DEF IInv, Shown, Alike
  <2>6. Attached'
    BY <1>2, <1>8 DEF Attached
  <2> QED BY <1>4, <1>6, <2>4, <2>5, <2>6 DEF IInv
<1> QED BY <1>7, <1>8

\* The server has attached the workflow, and the answer is still to come.
LEMMA StoreStep == ASSUME IInv, NEW c \in Call, StoreAttached(c) PROVE IInv'
<1>1. /\ call[c].st = "sent" /\ attached' = attached \cup call[c].attach
      /\ Become(c, [call[c] EXCEPT !.st = "stored"])
  BY DEF StoreAttached
<1>2. UNCHANGED <<kind, style, running, stored, projectWorkflows, table, label, liveData, rows, put,
                  failed, stale>>
  BY DEF StoreAttached, fixed, ui, ghost
<1>3. CallOK(call[c]) /\ call[c].op = "attach" /\ call[c].attach \subseteq running /\ ~call[c].newest
  BY <1>1 DEF IInv, Calls, CallOK
<1>4. PICK q : q = [call[c] EXCEPT !.st = "stored"]
  OBVIOUS
<1>5. /\ IsCall(q) /\ q.st = "stored" /\ q.op = call[c].op /\ q.first = call[c].first
      /\ q.attach = call[c].attach /\ q.view = call[c].view /\ q.newest = call[c].newest
  BY <1>3, <1>4 DEF CallOK, IsCall, Field
<1>6. CallOK(q) /\ ~Chain(q)
  BY <1>3, <1>5 DEF CallOK, Chain
<1>7. Types'
  BY <1>1, <1>2, <1>3 DEF IInv, Types
<1>8. Become(c, q)
  BY <1>1, <1>4
<1>9. Calls'
  BY <1>2, <1>3, <1>5, <1>6, <1>8, CallsStep DEF IInv
<1>10. Puts' /\ Stored'
  BY <1>2, PutsFrame, StoredFrame DEF IInv
<1>11. /\ call'[c] = q /\ Attaching'
       /\ \A d \in Call \ {c} : Alike(call[d], call'[d]) /\ (call'[d].newest => call[d].newest)
       /\ ~Asked("list")' => ~Asked("list")
  BY <1>3, <1>5, <1>6, <1>8, Becoming DEF IInv
<1>12. Shown'
  BY <1>2, <1>3, <1>5, <1>11 DEF IInv, Shown, Alike
<1>13. Attached'
  BY <1>11 DEF Attached
<1> QED BY <1>7, <1>9, <1>10, <1>12, <1>13 DEF IInv

\* The event makes the list ask again what is attached, whatever became of the request.
LEMMA ReloadStep == ASSUME IInv, NEW c \in Call, taskListTableReload(c) PROVE IInv'
<1>1. call[c].st \in {"sent", "stored"} /\ Become(c, AskWorkflows(FALSE))
  BY DEF taskListTableReload
<1>2. UNCHANGED <<kind, style, running, attached, stored, projectWorkflows, table, label, liveData, rows, put,
                  failed, stale>>
  BY DEF taskListTableReload, fixed, server, ui, ghost
<1>3. CallOK(call[c]) /\ call[c].op = "attach" /\ ~call[c].newest
  BY <1>1 DEF IInv, Calls, CallOK
<1>4. PICK q : q = AskWorkflows(FALSE)
  OBVIOUS
<1>5. q.op = "workflows" /\ q.newest = TRUE /\ q.attach = {} /\ CallOK(q) /\ ~Chain(q)
  BY <1>4, Requests, RequestsOK
<1>6. Types'
  BY <1>2 DEF IInv, Types
<1>7. Calls'
  BY <1>1, <1>2, <1>4, <1>5, CallsStep DEF IInv
<1>8. Puts' /\ Stored'
  BY <1>2, PutsFrame, StoredFrame DEF IInv
<1>9. /\ call'[c] = q /\ Asked("workflows")'
      /\ \A d \in Call \ {c} : Alike(call[d], call'[d]) /\ (call'[d].newest => call[d].newest)
      /\ ~Asked("list")' => ~Asked("list")
  BY <1>1, <1>3, <1>4, <1>5, Becoming DEF IInv
<1>10. Shown'
  BY <1>2, <1>5, <1>9 DEF IInv, Shown, Alike
<1>11. Attached'
  BY <1>9 DEF Attached
<1> QED BY <1>6, <1>7, <1>8, <1>10, <1>11 DEF IInv

\* What is attached is taken over, and the rows are asked for if there is a table.
LEMMA TableReloadStep == ASSUME IInv, NEW c \in Call, onTableReload(c) PROVE IInv'
<1>1. call[c].op = "workflows" /\ projectWorkflows' = attached /\ Known(c)
  BY DEF onTableReload
<1>2. CallOK(call[c])
  BY DEF IInv, Calls
<1>3. UNCHANGED <<kind, style, running, attached, stored, table, label, liveData, rows, put, failed>>
  BY DEF onTableReload, fixed, server
<1>4. /\ stale' \subseteq Op \cup Key /\ \A key \in Key : key \in stale' <=> key \in stale
      /\ "list" \in stale' <=> "list" \in stale
  BY <1>1, <1>2, KnownOK DEF CallOK, Op, IInv, Types
<1>5. Types'
  BY <1>1, <1>3, <1>4 DEF IInv, Types
<1>6. Puts' /\ Stored'
  BY <1>3, <1>4, PutsFrame, StoredFrame DEF IInv
<1>7. CASE table
  <2>1. Become(c, loadDataTable(liveData, 1))
    BY <1>7 DEF onTableReload
  <2>2. PICK q : q = loadDataTable(liveData, 1)
    OBVIOUS
  <2>3. CallOK(q) /\ ~Chain(q) /\ ForList(q, liveData)
    BY <2>2, ListRequest DEF IInv, Types
  <2>4. q.op = "list" /\ q.view = liveData /\ q.newest = TRUE /\ q.attach = {}
    BY <2>3 DEF ForList
  <2>5. Calls'
    BY <1>3, <2>1, <2>2, <2>3, <2>4, CallsStep DEF IInv
  <2>6. /\ call'[c] = q /\ Asked("list")'
        /\ \A d \in Call \ {c} : Alike(call[d], call'[d]) /\ (call'[d].newest => call[d].op # "list")
    BY <2>1, <2>2, <2>3, <2>4, Becoming DEF IInv
  <2>7. Shown'
    BY <1>3, <1>4, <2>4, <2>6 DEF IInv, Shown, Alike
  <2>8. Attached'
    BY <1>1, <1>3, <2>6 DEF Attached
  <2> QED BY <1>5, <1>6, <2>5, <2>7, <2>8 DEF IInv
<1>8. CASE ~table
  <2>1. Become(c, Idle)
    BY <1>8 DEF onTableReload
  <2>2. Idle.op = "list" /\ Idle.newest = FALSE /\ Idle.attach = {} /\ CallOK(Idle) /\ ~Chain(Idle)
    BY Requests, RequestsOK
  <2>3. Calls'
    BY <1>3, <2>1, <2>2, CallsStep DEF IInv
  <2>4. /\ call'[c] = Idle
        /\ \A d \in Call \ {c} : Alike(call[d], call'[d]) /\ (call'[d].newest => call[d].newest)
        /\ ~Asked("list")' => ~Asked("list")
    BY <1>1, <2>1, <2>2, Becoming DEF IInv
  <2>5. Shown'
    BY <1>3, <1>4, <1>8, <2>2, <2>4 DEF IInv, Shown, Alike
  <2>6. Attached'
    BY <1>1, <1>3, <1>8 DEF Attached
  <2> QED BY <1>5, <1>6, <2>3, <2>5, <2>6 DEF IInv
<1> QED BY <1>7, <1>8

\* Other pages attach and detach: what was read of it is stale.
LEMMA ElsewhereStep == ASSUME IInv, Elsewhere PROVE IInv'
<1>1. /\ stale' = stale \cup {"workflows"} /\ call' = Outdate(call, "workflows")
      /\ \E w \in Others : attached' \in {attached \cup {w}, attached \ {w}}
  BY DEF Elsewhere
<1>2. UNCHANGED <<kind, style, running, stored, projectWorkflows, table, label, liveData, rows, put, failed>>
  BY DEF Elsewhere, fixed, ui
<1>3. /\ call' = [d \in Call |-> call'[d]]
      /\ \A d \in Call : Alike(call[d], call'[d])
                         /\ call'[d].newest = (call[d].newest /\ call[d].op # "workflows")
  <2>1. \A d \in Call : IsCall(call[d]) /\ call[d].newest \in BOOLEAN
    BY DEF IInv, Calls, CallOK
  <2>2. PICK n : n = Outdate(call, "workflows")
    OBVIOUS
  <2>3. /\ n = [d \in Call |-> n[d]]
        /\ \A d \in Call : Alike(call[d], n[d]) /\ n[d].newest = (call[d].newest /\ call[d].op # "workflows")
    BY <2>1, <2>2, OutdatedOK
  <2>4. call' = n
    BY <2>2 DEF Elsewhere
  <2> QED BY <2>3, <2>4
<1>4. \A d \in Call : CallOK(call'[d]) /\ (Chain(call'[d]) <=> Chain(call[d]))
  <2>1. \A d \in Call : CallOK(call[d]) /\ call'[d].newest \in BOOLEAN
    BY <1>3 DEF IInv, Calls
  <2> QED BY <1>3, <2>1, AlikeOK
<1>5. Types'
  BY <1>1, <1>2, TaskListAssumption DEF IInv, Types, Op
<1>6. Calls'
  BY <1>2, <1>3, <1>4 DEF IInv, Calls, Alike
<1>7. Puts' /\ Stored'
  BY <1>1, <1>2, PutsFrame, StoredFrame DEF IInv, Key
<1>8. ~Asked("list")' => ~Asked("list")
  BY <1>3 DEF Asked, Alike
<1>9. Shown'
  BY <1>1, <1>2, <1>3, <1>8 DEF IInv, Shown, Alike
<1>10. Attached'
  BY <1>1 DEF Attached
<1> QED BY <1>5, <1>6, <1>7, <1>9, <1>10 DEF IInv

-----------------------------------------------------------------------------
(* The theorems.                                                           *)

\* The first request is on its way, and nothing is shown yet.
LEMMA InitIInv == Init => IInv
<1> SUFFICES ASSUME Init PROVE IInv
  OBVIOUS
<1>1. PICK q : q = IF kind = "site" THEN AskWorkflows(TRUE) ELSE AskPreferences
  OBVIOUS
<1>2. PICK c \in Call : call = [d \in Call |-> IF d # c THEN Idle ELSE q]
  BY <1>1 DEF Init
<1>3. CallOK(q) /\ q.attach = {} /\ q.op # "list"
  BY <1>1, Requests, RequestsOK
<1>4. CallOK(Idle) /\ ~Chain(Idle) /\ Idle.newest = FALSE /\ Idle.attach = {}
  BY Requests, RequestsOK
<1>5. call = [d \in Call |-> call[d]] /\ call[c] = q /\ \A d \in Call \ {c} : call[d] = Idle
  BY <1>2
<1>6. ~table /\ stale = {"workflows", "list"}
  BY DEF Init
<1>7. Types
  <2>1. stored = [key \in Key |-> stored[key]] /\ \A key \in Key : stored[key] \in KnownFor(key) \cup {NotSet}
    <3>1. CASE stored \in [Key -> {NotSet}]
      BY <3>1
    <3>2. CASE stored \in [sorter : Sorter, filter : {NotSet}]
      BY <3>2 DEF Key, KnownFor
    <3> QED BY <3>1, <3>2 DEF Init
  <2>2. Choice(label) /\ Choice(liveData)
    BY DefaultChoice DEF Init
  <2>3. Choice(rows.view) /\ rows.tasks \subseteq Task
    BY DefaultChoice DEF Init, NoRows
  <2>4. attached \subseteq running
    BY DEF Init
  <2> QED BY <2>1, <2>2, <2>3, <2>4 DEF Init, Types, Op
<1>8. Calls
  BY <1>3, <1>4, <1>5, <1>6 DEF Calls
<1>9. Puts
  BY DEF Init, Puts, NoPut
<1>10. Shown
  BY <1>3, <1>4, <1>5, <1>6 DEF Shown
<1>11. Attached /\ Stored
  BY <1>6 DEF Attached, Stored
<1> QED BY <1>7, <1>8, <1>9, <1>10, <1>11 DEF IInv

\* Every step keeps the invariant.
LEMMA NextIInv == IInv /\ [Next]_vars => IInv'
<1> SUFFICES ASSUME IInv, [Next]_vars PROVE IInv'
  OBVIOUS
<1>1. ASSUME UNCHANGED vars PROVE IInv'
  <2>1. UNCHANGED <<kind, style, running, attached, stored, projectWorkflows, table, label, liveData, rows,
                    call, put, failed, stale>>
    BY <1>1 DEF vars, fixed, server, ui, ghost
  <2>2. Types' /\ Calls' /\ Puts'
    BY <2>1 DEF IInv, Types, Calls, Puts
  <2>3. Shown' /\ Attached'
    BY <2>1 DEF IInv, Shown, Attached, Asked, Attaching, UserTasks
  <2>4. Stored'
    BY <2>1, StoredFrame DEF IInv
  <2> QED BY <2>2, <2>3, <2>4 DEF IInv
<1> QED BY <1>1, WorkflowsStep, PreferencesStep, LoadStep, FailStep, SorterStep, FilterStep,
       FilterChangedStep, PageStep, AttachStep, StartStep, StoreStep, ReloadStep, TableReloadStep,
       PreferenceStep, ElsewhereStep DEF Next, Answered

\* Beside the types: of each kind of request one at most is the newest.
THEOREM Typing == Spec => []TypeOK
<1>1. IInv => TypeOK
  <2> SUFFICES ASSUME IInv PROVE TypeOK
    OBVIOUS
  <2>1. label \in View /\ liveData \in View /\ rows.view \in View
    BY ChoiceView DEF IInv, Types
  <2>2. \A r, s \in Put : put[r].newest /\ put[s].newest /\ put[r].key = put[s].key => r = s
    BY DEF IInv, Puts
  <2>3. \A c, d \in Call : call[c].newest /\ call[d].newest /\ call[c].op = call[d].op => c = d
    BY DEF IInv, Calls
  <2> QED BY <2>1, <2>2, <2>3 DEF IInv, Types, TypeOK, Op
<1> QED BY <1>1, InitIInv, NextIInv, PTL DEF Spec

\* When nothing is under way the table is in the order and has the filter that the buttons
\* and the title say, whatever was clicked and answered in whatever order
\* (alvex-task-list.js, my-workflows.js).
THEOREM TableAsLabelled == Spec => []ShownAsLabelled
<1>1. IInv => ShownAsLabelled
  <2> SUFFICES ASSUME IInv, Quiet, "list" \notin stale PROVE rows.view = label
    BY DEF ShownAsLabelled
  <2>1. ~Asked("list")
    BY DEF Quiet, Free, Asked, IInv, Calls, CallOK
  <2> QED BY <2>1 DEF IInv, Shown, Quiet
<1> QED BY <1>1, InitIInv, NextIInv, PTL DEF Spec

\* When nothing is under way a page of a project's list shows just the tasks of workflows
\* attached to the project, and the paginator has every page that a task of the project is
\* on (task-list-header.js, alvex-task-list.js).
THEOREM TasksOfTheProject == Spec => []ProjectTasksShown
<1>1. IInv => ProjectTasksShown
  <2> SUFFICES ASSUME IInv, Quiet, kind = "site", "list" \notin stale, "workflows" \notin stale
               PROVE  /\ rows.tasks = {t \in UserTasks : WorkflowOf[t] \in attached /\ PageOf[t] = rows.page}
                      /\ {t \in UserTasks : WorkflowOf[t] \in attached} \subseteq {t \in Task : PageOf[t] \in rows.pages}
    BY DEF ProjectTasksShown
  <2>1. ~Asked("list") /\ ~Asked("workflows") /\ ~Attaching
    BY DEF Quiet, Free, Asked, Attaching, IInv, Calls, CallOK
  <2>2. projectWorkflows = attached
    BY <2>1 DEF IInv, Attached
  <2>3. rows.tasks = {t \in UserTasks : WorkflowOf[t] \in projectWorkflows /\ PageOf[t] = rows.page}
    BY <2>1 DEF IInv, Attached, Quiet
  <2>4. \A t \in UserTasks : t \in Task /\ PageOf[t] \in rows.pages
    BY DEF IInv, Shown, Pages, UserTasks
  <2> QED BY <2>2, <2>3, <2>4
<1> QED BY <1>1, InitIInv, NextIInv, PTL DEF Spec

\* When nothing is under way the order a button shows is the one the next visit starts with,
\* unless its request failed or was overtaken (alvex-task-list.js, my-workflows.js).
THEOREM ChoiceIsRemembered == Spec => []PreferenceRemembered
<1>1. IInv => PreferenceRemembered
  <2> SUFFICES ASSUME IInv, Quiet, \A s \in Put : put[s].key = "none", NEW key \in Remembered, key \notin stale
               PROVE  label[key] = Preferred[key]
    BY DEF PreferenceRemembered, Remembered
  <2>1. ~Writing(key)
    BY DEF Writing, Remembered, Key
  <2> QED BY <2>1 DEF IInv, Stored, Quiet
<1> QED BY <1>1, InitIInv, NextIInv, PTL DEF Spec
=============================================================================
