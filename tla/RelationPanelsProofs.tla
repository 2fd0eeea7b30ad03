------------------------ MODULE RelationPanelsProofs ------------------------
(***************************************************************************)
(* Theorems about RelationPanels: for every number of items and of         *)
(* requests at a time, a quiet panel shows what it has changed itself, and *)
(* a workflow it has started is related or its failure was shown.          *)
(*                                                                         *)
(* ShowsOwnChanges says nothing while something is under way.  What keeps  *)
(* it true is Current: as long as no change waits for its list and no list *)
(* waits to be read, the newest list that was read is what the server has, *)
(* whether it was drawn or is on its way.  A detach whose prompt was       *)
(* closed leaves the change without a list: the panel is then outdated.    *)
(***************************************************************************)
EXTENDS RelationPanels, TLAPS

CallType == [st : {"idle", "sent", "stored", "asked", "served"}, op : Op, item : Item,
             rows : SUBSET (Item \X BOOLEAN), newest : BOOLEAN, asks : BOOLEAN]

Types ==
  /\ kind \in Kind /\ ready \in BOOLEAN /\ outdated \in BOOLEAN
  /\ events \in 0 .. MaxEvents /\ menu \in 0 .. MaxEvents + 1
  /\ exists \subseteq Item /\ active \subseteq exists /\ linked \subseteq Item
  /\ rows \subseteq Item \X BOOLEAN
  /\ dialog \in {"none", "attach", "start"}
  /\ prompt \in [open : BOOLEAN, item : Item, sent : BOOLEAN]
  /\ call \in [Call -> CallType]
  /\ started \subseteq New /\ excused \subseteq started

\* Wherever an item that can be started is met, it was started.
Met(x) == x \in New => x \in started

OnlyStarted ==
  /\ \A x \in linked \cup exists : Met(x)
  /\ \A r \in rows : Met(r[1])
  /\ Met(prompt.item)
  /\ \A c \in Call : Met(call[c].item) /\ \A r \in call[c].rows : Met(r[1])

\* Only a detach closes a prompt, its own; the panel of related workflows has none.
Asking ==
  \A c \in Call : call[c].asks =>
    /\ kind # "related"
    /\ prompt.open /\ prompt.sent /\ prompt.item = call[c].item

Waiting == \E c \in Call : call[c].st \in {"stored", "asked"}

Current ==
  /\ \A c \in Call : call[c].newest => call[c].st = "served"
  /\ \A c, d \in Call : call[c].newest /\ call[d].newest => c = d
  /\ ready =>
       \/ Waiting
       \/ \E c \in Call : call[c].newest /\ call[c].rows = Shown
       \/ (\A c \in Call : ~call[c].newest) /\ (outdated \/ rows = Shown)

IInv == Types /\ OnlyStarted /\ Asking /\ Current /\ StartedIsLinked

-----------------------------------------------------------------------------
(* Requests.                                                               *)

\* The requests as they begin.
LEMMA RequestOK ==
  /\ Idle \in CallType /\ Idle.st = "idle" /\ Idle.item = Self /\ Idle.rows = {} /\ ~Idle.newest /\ ~Idle.asks
  /\ Asked \in CallType /\ Asked.st = "asked" /\ Asked.item = Self /\ Asked.rows = {} /\ ~Asked.newest /\ ~Asked.asks
  /\ \A op \in Op, x \in Item :
       LET r == Request(op, x) IN
       /\ r \in CallType /\ r.st = "sent" /\ r.op = op /\ r.item = x /\ r.rows = {} /\ ~r.newest
       /\ r.asks <=> op = "detach"
<1>1. Self \in Item /\ "list" \in Op
  BY RelationPanelsAssumption DEF Op
<1>2. Idle \in CallType /\ Idle.st = "idle" /\ Idle.item = Self /\ Idle.rows = {} /\ ~Idle.newest /\ ~Idle.asks
  BY <1>1 DEF Idle, CallType
<1>3. Asked \in CallType /\ Asked.st = "asked" /\ Asked.item = Self /\ Asked.rows = {} /\ ~Asked.newest /\ ~Asked.asks
  BY <1>1 DEF Asked, Idle, CallType
<1>4. ASSUME NEW op \in Op, NEW x \in Item
      PROVE  LET r == Request(op, x) IN
             /\ r \in CallType /\ r.st = "sent" /\ r.op = op /\ r.item = x /\ r.rows = {} /\ ~r.newest
             /\ r.asks <=> op = "detach"
  BY <1>1 DEF Request, Idle, CallType
<1> QED BY <1>2, <1>3, <1>4

\* What becomes of a request that only is no longer the newest, loses its prompt or
\* is executed.
LEMMA ExceptOK ==
  ASSUME NEW r \in CallType
  PROVE  /\ LET s == [r EXCEPT !.newest = FALSE] IN
            s \in CallType /\ ~s.newest /\ s.st = r.st /\ s.op = r.op /\ s.item = r.item /\ s.rows = r.rows /\ s.asks = r.asks
         /\ LET s == [r EXCEPT !.asks = FALSE] IN
            s \in CallType /\ ~s.asks /\ s.st = r.st /\ s.op = r.op /\ s.item = r.item /\ s.rows = r.rows /\ s.newest = r.newest
         /\ LET s == [r EXCEPT !.st = "stored"] IN
            s \in CallType /\ s.st = "stored" /\ s.op = r.op /\ s.item = r.item /\ s.rows = r.rows /\ s.newest = r.newest
              /\ s.asks = r.asks
BY DEF CallType

\* A request that begins does not disturb what the panel knows.
LEMMA BeginStep ==
  ASSUME IInv, NEW c \in Call, NEW r \in CallType, Begin(c, r),
         r.st \in {"sent", "asked"}, r.rows = {}, ~r.newest,
         rows' = rows, outdated' = outdated, Shown' = Shown, ready' => ready \/ r.st = "asked"
  PROVE  /\ call' \in [Call -> CallType] /\ Current'
         /\ call[c].st = "idle" /\ call'[c] = r /\ \A d \in Call \ {c} : call'[d] = call[d]
<1>1. call' \in [Call -> CallType] /\ call[c].st = "idle" /\ call'[c] = r /\ \A d \in Call \ {c} : call'[d] = call[d]
  BY DEF IInv, Types, Begin, Free
<1>2. \A d \in Call : call'[d].newest => d # c /\ call[d].newest /\ call'[d].st = "served"
  BY <1>1 DEF IInv, Current
<1>3. ASSUME ready'
      PROVE  \/ \E d \in Call : call'[d].st \in {"stored", "asked"}
             \/ \E d \in Call : call'[d].newest /\ call'[d].rows = Shown
             \/ (\A d \in Call : ~call'[d].newest) /\ (outdated \/ rows = Shown)
  <2>1. CASE r.st = "asked"
    BY <1>1, <2>1
  <2>2. CASE ready /\ \E d \in Call : call[d].st \in {"stored", "asked"}
    BY <1>1, <2>2
  <2>3. CASE ready /\ \E d \in Call : call[d].newest /\ call[d].rows = Shown
    BY <1>1, <2>3 DEF IInv, Current
  <2>4. CASE ready /\ (\A d \in Call : ~call[d].newest) /\ (outdated \/ rows = Shown)
    BY <1>2, <2>4
  <2> QED BY <1>3, <2>1, <2>2, <2>3, <2>4 DEF IInv, Current, Waiting
<1>4. \A d, e \in Call : call'[d].newest /\ call'[e].newest => d = e
  BY <1>2 DEF IInv, Current
<1> QED BY <1>1, <1>2, <1>3, <1>4 DEF Current, Waiting

\* What is started anew was not shown and is not shown yet.
LEMMA StartStep ==
  ASSUME OnlyStarted, NEW S \in SUBSET (New \ started), exists' = exists \cup S,
         active' = active \cup S, linked' = linked, kind' = kind
  PROVE  Shown' = Shown
<1>1. linked' \cap exists' = linked \cap exists
  BY DEF OnlyStarted, Met
<1>2. \A x \in linked \cap exists : Row(x)' = Row(x)
  BY DEF OnlyStarted, Met, Row
<1> QED BY <1>1, <1>2 DEF Shown

-----------------------------------------------------------------------------
(* The steps.                                                              *)

\* A panel that is not set up shows nothing, and knows that.
LEMMA InitIInv == Init => IInv
<1> SUFFICES ASSUME Init PROVE IInv
  OBVIOUS
<1>1. Self \notin New /\ Self \in Item /\ NoPrompt.item = Self /\ NoPrompt \in [open : BOOLEAN, item : Item, sent : BOOLEAN]
        /\ Old \subseteq Item /\ Old \cap New = {}
  BY RelationPanelsAssumption DEF NoPrompt, Old
<1>2. \A c \in Call : call[c] = Idle
  BY DEF Init
<1>3. 0 \in 0 .. MaxEvents /\ 0 \in 0 .. MaxEvents + 1
  BY RelationPanelsAssumption
<1>4. Types
  <2>1. /\ kind \in Kind /\ ready \in BOOLEAN /\ outdated \in BOOLEAN
        /\ dialog \in {"none", "attach", "start"} /\ events = 0 /\ menu = 0 /\ prompt = NoPrompt
    BY DEF Init
  <2>2. /\ exists \subseteq Item /\ active \subseteq exists /\ linked \subseteq Item
        /\ rows \subseteq Item \X BOOLEAN /\ started \subseteq New /\ excused \subseteq started
    BY <1>1 DEF Init
  <2>3. call \in [Call -> CallType]
    BY RequestOK DEF Init
  <2> QED BY <1>1, <1>3, <2>1, <2>2, <2>3 DEF Types
<1>5. OnlyStarted
  BY <1>1, <1>2, RequestOK DEF Init, OnlyStarted, Met
<1>6. Asking /\ Current
  BY <1>2, RequestOK DEF Init, Asking, Current
<1>7. StartedIsLinked
  BY <1>1 DEF Init, StartedIsLinked
<1> QED BY <1>4, <1>5, <1>6, <1>7 DEF IInv

\* Menus and dialogs.
LEMMA DialogStep ==
  ASSUME IInv, LoadStartMenu \/ onAttachDialog \/ onAttachCancel \/ onStartWorkflowDialog \/ askFirst
  PROVE  IInv'
<1>1. /\ UNCHANGED <<server, outdated, excused, rows, call>> /\ kind' = kind /\ ready' = ready /\ events' = events
  BY DEF LoadStartMenu, onAttachDialog, onAttachCancel, onStartWorkflowDialog, askFirst, Client, ui
<1>2. menu' \in 0 .. MaxEvents + 1
  BY RelationPanelsAssumption
     DEF LoadStartMenu, onAttachDialog, onAttachCancel, onStartWorkflowDialog, askFirst, Client, ui, IInv, Types
<1>3. dialog' \in {"none", "attach", "start"}
  BY DEF LoadStartMenu, onAttachDialog, onAttachCancel, onStartWorkflowDialog, askFirst, Client, ui, IInv, Types
<1>4. /\ prompt' \in [open : BOOLEAN, item : Item, sent : BOOLEAN] /\ Met(prompt'.item)
      /\ prompt' = prompt \/ ~prompt.open
  <2>1. CASE askFirst
    <3>1. PICK x \in Offered : prompt' = [open |-> TRUE, item |-> x, sent |-> FALSE]
      BY <2>1 DEF askFirst
    <3>2. x \in Item /\ Met(x)
      BY DEF Offered, IInv, Types, OnlyStarted
    <3> QED BY <2>1, <3>1, <3>2 DEF askFirst, Unprompted
  <2>2. CASE ~askFirst
    BY <2>2 DEF LoadStartMenu, onAttachDialog, onAttachCancel, onStartWorkflowDialog, IInv, Types, OnlyStarted
  <2> QED BY <2>1, <2>2
<1>5. Types'
  BY <1>1, <1>2, <1>3, <1>4 DEF IInv, Types, server
<1>6. OnlyStarted'
  BY <1>1, <1>4 DEF IInv, OnlyStarted, Met, server
<1>7. Asking'
  BY <1>1, <1>4 DEF IInv, Asking
<1>8. Current' /\ StartedIsLinked'
  BY <1>1 DEF IInv, Current, Waiting, Shown, Row, StartedIsLinked, server
<1> QED BY <1>5, <1>6, <1>7, <1>8 DEF IInv

\* The list is asked for when the panel is set up, or again.
LEMMA AskStep ==
  ASSUME IInv, NEW c \in Call, onPreferencesLoaded(c) \/ onWorkflowDetailedData(c) \/ onFilterSelected(c)
  PROVE  IInv'
<1>1. /\ UNCHANGED <<server, outdated, excused, rows, prompt>> /\ kind' = kind /\ menu' = menu /\ dialog' = dialog
      /\ Begin(c, Asked)
  BY DEF onPreferencesLoaded, onWorkflowDetailedData, onFilterSelected, Client, ui
<1>2. events' \in 0 .. MaxEvents /\ ready' \in BOOLEAN
  <2>1. CASE onPreferencesLoaded(c)
    BY <2>1 DEF onPreferencesLoaded, IInv, Types
  <2>2. CASE onWorkflowDetailedData(c)
    <3>1. events \in 0 .. MaxEvents /\ events < MaxEvents => events + 1 \in 0 .. MaxEvents
      BY RelationPanelsAssumption
    <3> QED BY <2>2, <3>1 DEF onWorkflowDetailedData, IInv, Types
  <2>3. CASE onFilterSelected(c)
    BY <2>3 DEF onFilterSelected, ui, IInv, Types
  <2> QED BY <2>1, <2>2, <2>3
<1>3. Shown' = Shown
  BY <1>1 DEF Shown, Row, server
<1>4. /\ call' \in [Call -> CallType] /\ Current'
      /\ call[c].st = "idle" /\ call'[c] = Asked /\ \A d \in Call \ {c} : call'[d] = call[d]
  BY <1>1, <1>3, RequestOK, BeginStep
<1>5. Types'
  BY <1>1, <1>2, <1>4 DEF IInv, Types, server
<1>6. OnlyStarted'
  BY <1>1, <1>4, RequestOK, RelationPanelsAssumption DEF IInv, OnlyStarted, Met, server
<1>7. Asking'
  BY <1>1, <1>4, RequestOK DEF IInv, Asking
<1>8. StartedIsLinked'
  BY <1>1, <1>4 DEF IInv, StartedIsLinked, server
<1> QED BY <1>4, <1>5, <1>6, <1>7, <1>8 DEF IInv

\* A click sends a request about an item that exists or did.
LEMMA ClickStep ==
  ASSUME IInv, NEW c \in Call, onAttach(c) \/ onDetach(c) \/ cancelWorkflow(c)
  PROVE  IInv'
<1>1. /\ UNCHANGED <<server, outdated, excused, rows>> /\ UNCHANGED ui
  BY DEF onAttach, onDetach, cancelWorkflow, Client
<1>2. Shown' = Shown
  BY <1>1 DEF Shown, Row, server, ui
<1>3. PICK op \in {"attach", "detach", "cancel"}, x \in Item :
        /\ Begin(c, Request(op, x)) /\ Met(x)
        /\ \/ op = "detach" /\ kind # "related" /\ prompt'.open /\ prompt'.sent /\ prompt'.item = x
              /\ prompt.open /\ prompt.item = x
           \/ op = "attach" /\ prompt' = prompt
           \/ op = "cancel" /\ kind = "related"
        /\ prompt' \in [open : BOOLEAN, item : Item, sent : BOOLEAN] /\ Met(prompt'.item)
  <2>1. CASE onAttach(c)
    <3>1. PICK x \in Found : Begin(c, Request("attach", x))
      BY <2>1 DEF onAttach
    <3>2. x \in Item /\ Met(x)
      BY <3>1, RelationPanelsAssumption DEF Found, Old, Met, IInv, Types
    <3> QED BY <2>1, <3>1, <3>2 DEF onAttach, IInv, Types, OnlyStarted
  <2>2. CASE onDetach(c)
    BY <2>2 DEF onDetach, IInv, Types, OnlyStarted
  <2>3. CASE cancelWorkflow(c)
    <3>1. NoPrompt \in [open : BOOLEAN, item : Item, sent : BOOLEAN] /\ Met(NoPrompt.item)
      BY RelationPanelsAssumption DEF NoPrompt, Met
    <3> QED BY <2>3, <3>1 DEF cancelWorkflow, IInv, Types, OnlyStarted
  <2> QED BY <2>1, <2>2, <2>3
<1> DEFINE r == Request(op, x)
<1>4. r \in CallType /\ r.st = "sent" /\ r.op = op /\ r.item = x /\ r.rows = {} /\ ~r.newest
        /\ (r.asks <=> op = "detach")
  BY RequestOK DEF Op
<1> HIDE DEF r
<1>5. /\ call' \in [Call -> CallType] /\ Current'
      /\ call[c].st = "idle" /\ call'[c] = r /\ \A d \in Call \ {c} : call'[d] = call[d]
  <2>1. Begin(c, r) /\ ready' = ready
    BY <1>1, <1>3 DEF r, ui
  <2> QED BY <1>1, <1>2, <1>4, <2>1, BeginStep
<1>6. Types'
  BY <1>1, <1>3, <1>5 DEF IInv, Types, server, ui
<1>7. OnlyStarted'
  BY <1>1, <1>3, <1>4, <1>5 DEF IInv, OnlyStarted, Met, server
<1>8. Asking'
  BY <1>1, <1>3, <1>4, <1>5 DEF IInv, Asking, ui
<1>9. StartedIsLinked'
  BY <1>1, <1>5 DEF IInv, StartedIsLinked, server
<1> QED BY <1>5, <1>6, <1>7, <1>8, <1>9 DEF IInv

\* A workflow that is started has its request, or its failure is shown.
LEMMA StartedStep ==
  ASSUME IInv, FailStart \/ \E c \in Call : StartWorkflow(c)
  PROVE  IInv'
<1>1. /\ UNCHANGED <<kind, ready, events, menu, linked, rows, prompt, outdated>> /\ dialog' = "none"
  BY DEF FailStart, StartWorkflow
<1>2. CASE FailStart
  <2>1. PICK S \in SUBSET (New \ started) :
          started' = started \cup S /\ exists' = exists \cup S /\ active' = active \cup S /\ excused' = excused \cup S
    BY <1>2 DEF FailStart
  <2>2. call' = call
    BY <1>2 DEF FailStart
  <2>3. Shown' = Shown
    BY <1>1, <2>1, StartStep DEF IInv
  <2>4. Types'
    BY <1>1, <2>1, <2>2, RelationPanelsAssumption DEF IInv, Types
  <2>5. OnlyStarted'
    BY <1>1, <2>1, <2>2 DEF IInv, OnlyStarted, Met
  <2>6. Asking' /\ Current'
    BY <1>1, <2>2, <2>3 DEF IInv, Asking, Current, Waiting
  <2>7. StartedIsLinked'
    BY <1>1, <2>1, <2>2 DEF IInv, StartedIsLinked
  <2> QED BY <2>4, <2>5, <2>6, <2>7 DEF IInv
<1>3. ASSUME NEW c \in Call, StartWorkflow(c) PROVE IInv'
  <2>1. PICK x \in New \ started :
          /\ started' = started \cup {x} /\ exists' = exists \cup {x} /\ active' = active \cup {x}
          /\ Begin(c, Request("attach", x))
    BY <1>3 DEF StartWorkflow
  <2>2. x \in Item /\ excused' = excused
    BY <1>3, <2>1, RelationPanelsAssumption DEF StartWorkflow
  <2>3. Shown' = Shown
    <3>1. {x} \in SUBSET (New \ started)
      OBVIOUS
    <3> QED BY <1>1, <2>1, <3>1, StartStep DEF IInv
  <2> DEFINE r == Request("attach", x)
  <2>4. r \in CallType /\ r.st = "sent" /\ r.op = "attach" /\ r.item = x /\ r.rows = {} /\ ~r.newest /\ ~r.asks
    BY <2>2, RequestOK DEF Op
  <2> HIDE DEF r
  <2>5. /\ call' \in [Call -> CallType] /\ Current'
        /\ call[c].st = "idle" /\ call'[c] = r /\ \A d \in Call \ {c} : call'[d] = call[d]
    <3>1. Begin(c, r)
      BY <2>1 DEF r
    <3> QED BY <1>1, <2>3, <2>4, <3>1, BeginStep
  <2>6. Types'
    BY <1>1, <2>1, <2>2, <2>5 DEF IInv, Types
  <2>7. OnlyStarted'
    BY <1>1, <2>1, <2>4, <2>5 DEF IInv, OnlyStarted, Met
  <2>8. Asking'
    BY <1>1, <2>4, <2>5 DEF IInv, Asking
  <2>9. StartedIsLinked'
    BY <1>1, <2>1, <2>2, <2>4, <2>5 DEF IInv, StartedIsLinked
  <2> QED BY <2>5, <2>6, <2>7, <2>8, <2>9 DEF IInv
<1> QED BY <1>2, <1>3

\* The other button of a prompt.
LEMMA DismissStep ==
  ASSUME IInv, dismiss
  PROVE  IInv'
<1>1. UNCHANGED <<server, outdated, excused, rows>> /\ UNCHANGED ui /\ prompt' = NoPrompt
  BY DEF dismiss, Client
<1>2. Shown' = Shown
  BY <1>1 DEF Shown, Row, server, ui
<1>3. call' \in [Call -> CallType] /\ \A d \in Call :
        /\ ~call'[d].asks /\ call'[d].st = call[d].st /\ call'[d].op = call[d].op /\ call'[d].item = call[d].item
        /\ call'[d].rows = call[d].rows /\ call'[d].newest = call[d].newest
  BY ExceptOK DEF dismiss, IInv, Types
<1>4. NoPrompt \in [open : BOOLEAN, item : Item, sent : BOOLEAN] /\ Met(NoPrompt.item)
  BY RelationPanelsAssumption DEF NoPrompt, Met
<1>5. Types'
  BY <1>1, <1>3, <1>4 DEF IInv, Types, server, ui
<1>6. OnlyStarted'
  BY <1>1, <1>3, <1>4 DEF IInv, OnlyStarted, Met, server
<1>7. Asking' /\ Current'
  BY <1>1, <1>2, <1>3 DEF IInv, Asking, Current, Waiting, ui
<1>8. StartedIsLinked'
  BY <1>1, <1>3 DEF IInv, StartedIsLinked, server
<1> QED BY <1>5, <1>6, <1>7, <1>8 DEF IInv

\* What a request has changed waits for its list.
LEMMA ExecuteStep ==
  ASSUME IInv, NEW c \in Call, Execute(c)
  PROVE  IInv'
<1> DEFINE x == call[c].item
<1>1. UNCHANGED <<started, rows, prompt, outdated>> /\ UNCHANGED ui /\ call[c].st = "sent"
  BY DEF Execute
<1>2. /\ call' \in [Call -> CallType]
      /\ call'[c].st = "stored" /\ call'[c].op = call[c].op /\ call'[c].item = x /\ call'[c].rows = call[c].rows
      /\ call'[c].newest = call[c].newest /\ call'[c].asks = call[c].asks
      /\ \A d \in Call \ {c} : call'[d] = call[d]
  BY ExceptOK DEF Execute, IInv, Types
<1>3. x \in Item /\ Met(x)
  BY DEF IInv, Types, OnlyStarted, CallType
<1>4. /\ linked' \subseteq linked \cup {x} /\ linked \subseteq linked' \cup {x}
      /\ exists' \subseteq exists /\ active' \subseteq active
      /\ excused \subseteq excused' /\ excused' \subseteq excused \cup (New \cap {x})
      /\ x \in linked \cup linked' => x \in linked' \cup excused' \/ x \notin New
      /\ call[c].op = "attach" => x \in linked'
      /\ \/ active' = active /\ exists' = exists
         \/ active' = active \ {x} /\ exists' = exists \ {x}
  BY DEF Execute
<1>5. Types'
  <2>1. exists' \subseteq Item /\ active' \subseteq exists' /\ linked' \subseteq Item
    BY <1>3, <1>4 DEF IInv, Types
  <2>2. excused' \subseteq started
    BY <1>3, <1>4 DEF IInv, Types, Met
  <2> QED BY <1>1, <1>2, <2>1, <2>2 DEF IInv, Types, ui
<1>6. OnlyStarted'
  BY <1>1, <1>2, <1>3, <1>4 DEF IInv, OnlyStarted, Met
<1>7. Asking'
  BY <1>1, <1>2 DEF IInv, Asking, ui
<1>8. Current'
  BY <1>1, <1>2 DEF IInv, Current, Waiting, ui
<1>9. StartedIsLinked'
  BY <1>1, <1>2, <1>4 DEF IInv, StartedIsLinked
<1> QED BY <1>5, <1>6, <1>7, <1>8, <1>9 DEF IInv

\* Whether it was executed or not, the list is asked for again.
LEMMA AgainStep ==
  ASSUME IInv, NEW c \in Call, successCallback(c) \/ failureCallback(c), Again(c)
  PROVE  IInv'
<1>1. UNCHANGED <<server, rows, outdated>> /\ UNCHANGED ui /\ call[c].st \in {"sent", "stored"} /\ Again(c)
  BY DEF successCallback, failureCallback, Again
<1>2. /\ excused \subseteq excused' /\ excused' \subseteq excused \cup (New \cap {call[c].item})
      /\ call[c].st = "sent" /\ call[c].op = "attach" => New \cap {call[c].item} \subseteq excused'
  BY DEF successCallback, failureCallback, Told
<1> DEFINE r == IF ready THEN Asked ELSE Idle
<1>3. /\ call' \in [Call -> CallType] /\ call'[c] = r
      /\ \A d \in Call \ {c} :
           /\ call'[d].st = call[d].st /\ call'[d].op = call[d].op /\ call'[d].item = call[d].item
           /\ call'[d].rows = call[d].rows /\ call'[d].newest = call[d].newest
           /\ call'[d].asks => ~call[c].asks /\ call[d].asks
  <2> DEFINE closed == [d \in Call |-> IF call[c].asks THEN [call[d] EXCEPT !.asks = FALSE] ELSE call[d]]
  <2>1. closed \in [Call -> CallType]
    BY ExceptOK DEF IInv, Types
  <2>2. \A d \in Call :
          /\ closed[d].st = call[d].st /\ closed[d].op = call[d].op /\ closed[d].item = call[d].item
          /\ closed[d].rows = call[d].rows /\ closed[d].newest = call[d].newest
          /\ closed[d].asks => ~call[c].asks /\ call[d].asks
    BY ExceptOK DEF IInv, Types
  <2>3. call' = [closed EXCEPT ![c] = r]
    BY <1>1 DEF Again
  <2> HIDE DEF closed
  <2> QED BY <2>1, <2>2, <2>3, RequestOK
<1>4. r.st = (IF ready THEN "asked" ELSE "idle") /\ r.item = Self /\ r.rows = {} /\ ~r.newest /\ ~r.asks
  BY RequestOK
<1> HIDE DEF r
<1>5. /\ prompt' \in [open : BOOLEAN, item : Item, sent : BOOLEAN] /\ Met(prompt'.item)
      /\ prompt' = prompt \/ call[c].asks
  <2>1. NoPrompt \in [open : BOOLEAN, item : Item, sent : BOOLEAN] /\ Met(NoPrompt.item)
    BY RelationPanelsAssumption DEF NoPrompt, Met
  <2> QED BY <1>1, <2>1 DEF Again, IInv, Types, OnlyStarted
<1>6. Types'
  <2>1. Met(call[c].item)
    BY DEF IInv, OnlyStarted
  <2> QED BY <1>1, <1>2, <1>3, <1>5, <2>1 DEF IInv, Types, server, ui, Met
<1>7. OnlyStarted'
  <2>1. Self \notin New
    BY RelationPanelsAssumption
  <2> QED BY <1>1, <1>3, <1>4, <1>5, <2>1 DEF IInv, OnlyStarted, Met, server
<1>8. Asking'
  BY <1>1, <1>3, <1>4, <1>5 DEF IInv, Asking, ui
<1>9. Current'
  <2>1. \A d \in Call : call'[d].newest => d # c /\ call[d].newest /\ call'[d].st = "served"
    BY <1>3, <1>4 DEF IInv, Current
  <2>2. ready' => call'[c].st = "asked"
    BY <1>1, <1>3, <1>4 DEF ui
  <2> QED BY <2>1, <2>2 DEF IInv, Current, Waiting
<1>10. StartedIsLinked'
  <2> SUFFICES ASSUME NEW x \in New \cap exists, x \notin linked \cup excused'
               PROVE  \E d \in Call : call'[d].st = "sent" /\ call'[d].op = "attach" /\ call'[d].item = x
    BY <1>1 DEF StartedIsLinked, server
  <2>1. PICK d \in Call : call[d].st = "sent" /\ call[d].op = "attach" /\ call[d].item = x
    BY <1>2 DEF IInv, StartedIsLinked
  <2>2. d # c
    BY <1>2, <2>1
  <2> QED BY <1>3, <2>1, <2>2
<1> QED BY <1>6, <1>7, <1>8, <1>9, <1>10 DEF IInv

\* The prompt is gone: what was executed waits for no list, and the panel is outdated.
LEMMA ThrowStep ==
  ASSUME IInv, NEW c \in Call, successCallback(c) \/ failureCallback(c), Throw(c)
  PROVE  IInv'
<1>1. /\ UNCHANGED <<server, rows, prompt>> /\ UNCHANGED ui /\ call[c].st \in {"sent", "stored"}
      /\ call[c].op = "detach" /\ excused' = excused
  <2>1. call[c].op # "attach"
    BY DEF Throw, Thrown
  <2> QED BY <2>1 DEF successCallback, failureCallback, Throw, Thrown, Told
<1> DEFINE executed == call[c].st = "stored"
<1>2. /\ call' \in [Call -> CallType] /\ call'[c] = Idle
      /\ \A d \in Call \ {c} :
           /\ call'[d].st = call[d].st /\ call'[d].op = call[d].op /\ call'[d].item = call[d].item
           /\ call'[d].rows = call[d].rows /\ call'[d].asks = call[d].asks
           /\ call'[d].newest <=> (call[d].newest /\ ~executed)
  <2> DEFINE old == [d \in Call |-> IF executed THEN [call[d] EXCEPT !.newest = FALSE] ELSE call[d]]
  <2>1. old \in [Call -> CallType] /\ call' = [old EXCEPT ![c] = Idle]
    BY ExceptOK DEF Throw, IInv, Types
  <2>2. \A d \in Call :
          /\ old[d].st = call[d].st /\ old[d].op = call[d].op /\ old[d].item = call[d].item
          /\ old[d].rows = call[d].rows /\ old[d].asks = call[d].asks
          /\ old[d].newest <=> (call[d].newest /\ ~executed)
    BY ExceptOK DEF IInv, Types
  <2> HIDE DEF old, executed
  <2> QED BY <2>1, <2>2, RequestOK
<1>3. outdated' \in BOOLEAN /\ (outdated' <=> outdated \/ executed)
  BY DEF Throw
<1>4. Types'
  BY <1>1, <1>2, <1>3 DEF IInv, Types, server, ui
<1>5. OnlyStarted'
  BY <1>1, <1>2, RequestOK, RelationPanelsAssumption DEF IInv, OnlyStarted, Met, server
<1>6. Asking'
  BY <1>1, <1>2, RequestOK DEF IInv, Asking, ui
<1>7. Current'
  <2>1. \A d \in Call : call'[d].newest => d # c /\ call[d].newest /\ call'[d].st = call[d].st
    BY <1>2, RequestOK
  <2>2. CASE executed
    BY <1>2, <1>3, <2>1, <2>2, RequestOK DEF IInv, Current
  <2>3. CASE ~executed
    <3>1. Waiting => Waiting'
      BY <1>1, <1>2, <2>3 DEF Waiting
    <3>2. call[c].st = "sent" /\ ~call[c].newest /\ ~call'[c].newest
      BY <1>1, <1>2, <2>3, RequestOK DEF IInv, Current
    <3>3. \A d \in Call : (call'[d].newest <=> call[d].newest) /\ (call'[d].newest => call'[d].rows = call[d].rows)
      BY <1>2, <2>3, <3>2
    <3>4. Shown' = Shown /\ ready' = ready /\ rows' = rows /\ (outdated' <=> outdated)
      BY <1>1, <1>3, <2>3 DEF Shown, Row, server, ui
    <3> QED BY <2>1, <3>1, <3>3, <3>4 DEF IInv, Current
  <2> QED BY <2>2, <2>3
<1>8. StartedIsLinked'
  BY <1>1, <1>2 DEF IInv, StartedIsLinked, server
<1> QED BY <1>4, <1>5, <1>6, <1>7, <1>8 DEF IInv

\* An answer, of either kind.
LEMMA AnswerStep ==
  ASSUME IInv, NEW c \in Call, successCallback(c) \/ failureCallback(c)
  PROVE  IInv'
BY AgainStep, ThrowStep DEF successCallback, failureCallback

\* One request becomes r, and no other is the newest.
LEMMA NewestStep ==
  ASSUME Types, NEW c \in Call, NEW r \in CallType,
         call' = [d \in Call |-> IF d = c THEN r ELSE [call[d] EXCEPT !.newest = FALSE]]
  PROVE  /\ call' \in [Call -> CallType] /\ call'[c] = r
         /\ \A d \in Call \ {c} :
              /\ ~call'[d].newest /\ call'[d].st = call[d].st /\ call'[d].op = call[d].op
              /\ call'[d].item = call[d].item /\ call'[d].rows = call[d].rows /\ call'[d].asks = call[d].asks
BY ExceptOK DEF Types

\* A list or a cancel that fails leaves an old list.
LEMMA FailStep ==
  ASSUME IInv, NEW c \in Call, failCancel(c) \/ failList(c)
  PROVE  IInv'
<1>1. /\ UNCHANGED <<server, rows, prompt, excused>> /\ UNCHANGED ui /\ outdated' = TRUE
      /\ call' = [d \in Call |-> IF d = c THEN Idle ELSE [call[d] EXCEPT !.newest = FALSE]]
      /\ ~(call[c].st = "sent" /\ call[c].op = "attach")
  BY DEF failCancel, failList
<1>2. /\ call' \in [Call -> CallType] /\ call'[c] = Idle
      /\ \A d \in Call \ {c} :
           /\ ~call'[d].newest /\ call'[d].st = call[d].st /\ call'[d].op = call[d].op
           /\ call'[d].item = call[d].item /\ call'[d].rows = call[d].rows /\ call'[d].asks = call[d].asks
  <2>1. Idle \in CallType /\ Types
    BY RequestOK DEF IInv
  <2> QED BY <1>1, <2>1, NewestStep
<1>3. Types'
  BY <1>1, <1>2 DEF IInv, Types, server, ui
<1>4. OnlyStarted'
  BY <1>1, <1>2, RequestOK, RelationPanelsAssumption DEF IInv, OnlyStarted, Met, server
<1>5. Asking' /\ Current'
  BY <1>1, <1>2, RequestOK DEF IInv, Asking, Current, ui
<1>6. StartedIsLinked'
  BY <1>1, <1>2 DEF IInv, StartedIsLinked, server
<1> QED BY <1>3, <1>4, <1>5, <1>6 DEF IInv

\* A list that is read is the newest, and what the server has.
LEMMA ServeStep ==
  ASSUME IInv, NEW c \in Call, ServeList(c)
  PROVE  IInv'
<1> DEFINE r == [Idle EXCEPT !.st = "served", !.rows = Shown, !.newest = TRUE]
<1>1. /\ UNCHANGED <<server, rows, prompt, outdated, excused>> /\ UNCHANGED ui /\ call[c].st = "asked"
      /\ call' = [d \in Call |-> IF d = c THEN r ELSE [call[d] EXCEPT !.newest = FALSE]]
  BY DEF ServeList
<1>2. Shown \in SUBSET (Item \X BOOLEAN) /\ Shown' = Shown
  <2>1. \A x \in linked : Row(x) \in Item \X BOOLEAN
    <3>1. \A x \in Item, b \in BOOLEAN : <<x, b>> \in Item \X BOOLEAN
      OBVIOUS
    <3>2. \A x : (x \in active) \in BOOLEAN
      OBVIOUS
    <3>3. \A x \in linked : x \in Item
      BY DEF IInv, Types
    <3> QED BY <3>1, <3>2, <3>3, Zenon DEF Row
  <2>2. \A s \in Shown : s \in Item \X BOOLEAN
    <3> SUFFICES ASSUME NEW s \in Shown PROVE s \in Item \X BOOLEAN
      OBVIOUS
    <3>1. PICK x \in linked : s = Row(x)
      BY DEF Shown
    <3> QED BY <2>1, <3>1
  <2>3. linked' = linked /\ exists' = exists /\ active' = active /\ kind' = kind
    BY <1>1 DEF server, ui
  <2>4. Shown' = Shown
    BY <2>3 DEF Shown, Row
  <2> QED BY <2>2, <2>4
<1>3. r \in CallType /\ r.st = "served" /\ r.item = Self /\ r.rows = Shown /\ r.newest /\ ~r.asks
  <2>1. Self \in Item /\ "list" \in Op
    BY RelationPanelsAssumption DEF Op
  <2> QED BY <1>2, <2>1 DEF Idle, CallType
<1> HIDE DEF r
<1>4. /\ call' \in [Call -> CallType] /\ call'[c] = r
      /\ \A d \in Call \ {c} :
           /\ ~call'[d].newest /\ call'[d].st = call[d].st /\ call'[d].op = call[d].op
           /\ call'[d].item = call[d].item /\ call'[d].rows = call[d].rows /\ call'[d].asks = call[d].asks
  BY <1>1, <1>3, NewestStep DEF IInv
<1>5. Types'
  BY <1>1, <1>4 DEF IInv, Types, server, ui
<1>6. OnlyStarted'
  <2>1. \A x \in Shown : Met(x[1])
    BY DEF Shown, Row, IInv, OnlyStarted
  <2>2. Self \notin New
    BY RelationPanelsAssumption
  <2> QED BY <1>1, <1>3, <1>4, <2>1, <2>2 DEF IInv, OnlyStarted, Met, server
<1>7. Asking' /\ Current'
  BY <1>1, <1>2, <1>3, <1>4 DEF IInv, Asking, Current, ui
<1>8. StartedIsLinked'
  BY <1>1, <1>4 DEF IInv, StartedIsLinked, server
<1> QED BY <1>5, <1>6, <1>7, <1>8 DEF IInv

\* A list that is drawn is current if it is the newest.
LEMMA DrawStep ==
  ASSUME IInv, NEW c \in Call, onDataReturn(c)
  PROVE  IInv'
<1>1. /\ UNCHANGED <<server, prompt, excused>> /\ UNCHANGED ui /\ call[c].st = "served"
      /\ rows' = call[c].rows /\ outdated' = ~call[c].newest
      /\ call' = [call EXCEPT ![c] = Idle]
  BY DEF onDataReturn
<1>2. call' \in [Call -> CallType] /\ call'[c] = Idle /\ \A d \in Call \ {c} : call'[d] = call[d]
  BY <1>1, RequestOK DEF IInv, Types
<1>3. Types'
  BY <1>1, <1>2 DEF IInv, Types, CallType, server, ui
<1>4. OnlyStarted'
  BY <1>1, <1>2, RequestOK, RelationPanelsAssumption DEF IInv, OnlyStarted, Met, server
<1>5. Asking' /\ StartedIsLinked'
  BY <1>1, <1>2, RequestOK DEF IInv, Asking, StartedIsLinked, server, ui
<1>6. Current'
  <2>1. Shown' = Shown /\ ready' = ready
    BY <1>1 DEF Shown, Row, server, ui
  <2>2. CASE call[c].newest
    <3>1. \A d \in Call : ~call'[d].newest
      BY <1>2, <2>2, RequestOK DEF IInv, Current
    <3>2. ready /\ ~Waiting => rows' = Shown
      BY <1>1, <2>2 DEF IInv, Current
    <3>3. Waiting => Waiting'
      BY <1>1, <1>2 DEF Waiting
    <3> QED BY <2>1, <3>1, <3>2, <3>3 DEF Current
  <2>3. CASE ~call[c].newest
    <3>1. outdated' = TRUE
      BY <1>1, <2>3
    <3>2. \A d \in Call : call'[d].newest => d # c /\ call[d].newest /\ call'[d] = call[d]
      BY <1>2, RequestOK
    <3>3. Waiting => Waiting'
      BY <1>1, <1>2 DEF Waiting
    <3>4. (\E d \in Call : call[d].newest /\ call[d].rows = Shown)
            => \E d \in Call : call'[d].newest /\ call'[d].rows = Shown
      BY <1>2, <2>3
    <3> QED BY <2>1, <3>1, <3>2, <3>3, <3>4 DEF IInv, Current
  <2> QED BY <2>2, <2>3
<1> QED BY <1>3, <1>4, <1>5, <1>6 DEF IInv

\* What other pages change is not known here.
LEMMA ElsewhereStep ==
  ASSUME IInv, Elsewhere
  PROVE  IInv'
<1>1. /\ UNCHANGED <<started, exists, rows, prompt>> /\ UNCHANGED ui /\ outdated' = TRUE
      /\ call' = [c \in Call |-> [call[c] EXCEPT !.newest = FALSE]]
  BY DEF Elsewhere
<1>2. PICK x \in exists \ {Self} :
        /\ linked' \subseteq linked \cup {x} /\ linked \subseteq linked' \cup {x} /\ active' \subseteq active
        /\ excused \subseteq excused' /\ excused' \subseteq excused \cup (New \cap {x})
        /\ x \in linked => x \in linked' \cup excused' \/ x \notin New
  BY DEF Elsewhere
<1>3. call' \in [Call -> CallType] /\ \A d \in Call :
        /\ ~call'[d].newest /\ call'[d].st = call[d].st /\ call'[d].op = call[d].op
        /\ call'[d].item = call[d].item /\ call'[d].rows = call[d].rows /\ call'[d].asks = call[d].asks
  BY <1>1, ExceptOK DEF IInv, Types
<1>4. Types'
  <2>1. linked' \subseteq Item /\ active' \subseteq exists'
    BY <1>1, <1>2 DEF IInv, Types
  <2>2. excused' \subseteq started
    BY <1>2 DEF IInv, Types, OnlyStarted, Met
  <2> QED BY <1>1, <1>3, <2>1, <2>2 DEF IInv, Types, ui
<1>5. OnlyStarted'
  BY <1>1, <1>2, <1>3 DEF IInv, OnlyStarted, Met
<1>6. Asking' /\ Current'
  BY <1>1, <1>3 DEF IInv, Asking, Current, ui
<1>7. StartedIsLinked'
  <2> SUFFICES ASSUME NEW y \in New \cap exists, y \notin linked' \cup excused'
               PROVE  \E d \in Call : call'[d].st = "sent" /\ call'[d].op = "attach" /\ call'[d].item = y
    BY <1>1 DEF StartedIsLinked
  <2>1. y \notin linked \cup excused
    BY <1>2
  <2>2. PICK d \in Call : call[d].st = "sent" /\ call[d].op = "attach" /\ call[d].item = y
    BY <2>1 DEF IInv, StartedIsLinked
  <2> QED BY <1>3, <2>2
<1> QED BY <1>4, <1>5, <1>6, <1>7 DEF IInv

\* Every step keeps the invariant.
LEMMA NextIInv == IInv /\ [Next]_vars => IInv'
<1> SUFFICES ASSUME IInv, [Next]_vars PROVE IInv'
  OBVIOUS
<1>1. CASE UNCHANGED vars
  BY <1>1 DEF vars, server, ui, IInv, Types, OnlyStarted, Met, Asking, Current, Waiting, Shown, Row, StartedIsLinked
<1> QED BY <1>1, DialogStep, AskStep, ClickStep, StartedStep, DismissStep, ExecuteStep, AnswerStep, FailStep,
           ServeStep, DrawStep, ElsewhereStep DEF Next, Answered

-----------------------------------------------------------------------------
(* The theorems.                                                           *)

\* The state of a panel keeps its shape: a request that will close a prompt is that
\* of the open prompt, and one list at most is the newest.
THEOREM Typing == Spec => []TypeOK
<1>1. IInv => TypeOK
  <2> SUFFICES ASSUME IInv PROVE TypeOK
    OBVIOUS
  <2>1. \A c \in Call :
          /\ call[c].st \in {"idle", "sent", "stored", "asked", "served"}
          /\ call[c].op \in Op /\ call[c].item \in Item /\ call[c].rows \subseteq Item \X BOOLEAN
    BY DEF IInv, Types, CallType
  <2> QED BY <2>1 DEF IInv, Types, Asking, Current, TypeOK
<1> QED BY <1>1, InitIInv, NextIInv, PTL DEF Spec

\* When nothing is under way and no answer has overtaken another, the list
\* (fillRelatedWorkflowTable and its likes) is what the panel has made of it, also
\* after requests that failed here and were executed there - unless a detach was
\* answered after its prompt was closed.
THEOREM OwnChangesAreShown == Spec => []ShowsOwnChanges
<1>1. IInv => ShowsOwnChanges
  <2> SUFFICES ASSUME IInv, ready, \A c \in Call : Free(c), ~outdated
               PROVE  rows = Shown
    BY DEF ShowsOwnChanges
  <2> QED BY DEF Free, IInv, Current, Waiting
<1> QED BY <1>1, InitIInv, NextIInv, PTL DEF Spec

\* The second request of a start (alvex-project-workflows.js, onStartWorkflowDialog)
\* is never just forgotten.
THEOREM StartedWorkflowsAreLinked == Spec => []StartedIsLinked
<1>1. IInv => StartedIsLinked
  BY DEF IInv
<1> QED BY <1>1, InitIInv, NextIInv, PTL DEF Spec
=============================================================================
