------------------------- MODULE ProjectItemsProofs -------------------------
(***************************************************************************)
(* Type correctness of the pages of checklists, contacts and               *)
(* conversations, and the theorems that a quiet list shows what its own    *)
(* page did and that a page of a project that has the folder opens         *)
(* completely.                                                             *)
(*                                                                         *)
(* A list is the folder as it was when the server read it.  The newest of  *)
(* a page's lists is still what the folder has, unless a change of the     *)
(* page itself was executed since, which will ask for another.  So a page  *)
(* that is not known to be older shows what the folder has, or the newest  *)
(* of its lists, or a change that will ask for one, is under way.  A page  *)
(* that was opened when the folder was there has each of its parts, or a   *)
(* request that will bring it, and none of its requests makes a folder.    *)
(***************************************************************************)
EXTENDS ProjectItems, TLAPS

PageType == [open : BOOLEAN, button : BOOLEAN, headerButton : BOOLEAN, drawn : BOOLEAN,
             rows : SUBSET (Item \X BOOLEAN), prompt : Item \cup {NoItem},
             excused : BOOLEAN, outdated : BOOLEAN]
CallType == [st : {"idle", "sent", "creating", "done"}, op : Read \cup Write,
             page : Page \cup {NoPage}, item : Item \cup {NoItem}, rows : SUBSET (Item \X BOOLEAN),
             newest : BOOLEAN, asks : BOOLEAN]

Types ==
  /\ kind \in Kind /\ container \in BOOLEAN
  /\ items \subseteq made /\ made \subseteq Item /\ edited \subseteq made
  /\ made # {} => container
  /\ page \in [Page -> PageType]
  /\ call \in [Call -> CallType]

\* A request is of an open page or only to be executed, and only a list can be the newest.
Placed(c) ==
  /\ call[c].st = "idle" => call[c].page = NoPage
  /\ call[c].st = "creating" => call[c].op \in Read
  /\ call[c].st = "done" \/ (call[c].op \in Read /\ call[c].st # "idle") => call[c].page \in Page
  /\ call[c].page \in Page => page[call[c].page].open
  /\ call[c].newest => call[c].op = "list" /\ call[c].page \in Page

Single == \A c, d \in Call : call[c].newest /\ call[d].newest /\ call[c].page = call[d].page => c = d

\* Only a deletion closes a prompt, its own.
Asking(c) ==
  call[c].asks =>
    /\ call[c].op = "delete" /\ call[c].item \in Item /\ call[c].page \in Page
    /\ page[call[c].page].prompt = call[c].item

\* What is answered next by loading the list again - or by noting that it is not.
Changes(c) == call[c].st = "done" /\ call[c].op \in {"add", "edit", "delete"}

\* What loads the list again, or is the newest that does.
Refresh(c) == call[c].newest \/ Changes(c)

\* The newest list that was read is what the folder has, but for changes of the page.
ReadOK(p) ==
  \A c \in Of(p) : call[c].newest /\ call[c].st = "done" =>
    call[c].rows = Listed \/ \E d \in Of(p) : Changes(d)

ShownOK(p) ==
  page[p].open /\ ~page[p].outdated => page[p].rows = Listed \/ \E c \in Of(p) : Refresh(c)

\* A page opened when the folder was there has what it asked for, or still waits for it.
Wants(p, op) == \E c \in Of(p) : call[c].op = op
OpenOK(p) ==
  page[p].open /\ ~page[p].excused =>
    /\ container /\ \A c \in Of(p) : call[c].st # "creating"
    /\ page[p].button \/ Wants(p, "container")
    /\ page[p].drawn \/ Wants(p, "list")
    /\ kind = "conversations" => page[p].headerButton \/ Wants(p, "header")

PageOK(p) == ReadOK(p) /\ ShownOK(p) /\ OpenOK(p)

\* Buttons, and requests made with them, are there only after the folder.
Founded ==
  /\ \A p \in Page : page[p].button \/ page[p].headerButton => container
  /\ \A p \in Page : page[p].button \/ page[p].headerButton \/ page[p].rows # {} => page[p].open
  /\ \A c \in Call :
       (call[c].op \in Read /\ call[c].st = "done") \/ call[c].op \in {"add", "headerAdd"} => container
  /\ \A p \in Page : page[p].prompt # NoItem => page[p].open

IInv ==
  /\ Types /\ (\A c \in Call : Placed(c) /\ Asking(c)) /\ Single /\ Founded
  /\ \A p \in Page : PageOK(p)

-----------------------------------------------------------------------------
(* Requests and what becomes of them.                                      *)

\* What the folder has is a list.
LEMMA ListedOK == Types => Listed \in SUBSET (Item \X BOOLEAN)
<1> SUFFICES ASSUME Types PROVE Listed \in SUBSET (Item \X BOOLEAN)
  OBVIOUS
<1>1. ASSUME NEW i \in items PROVE Row(i) \in Item \X BOOLEAN
  <2>1. i \in Item /\ (i \in edited) \in BOOLEAN
    BY DEF Types
  <2> QED BY <2>1, Zenon DEF Row
<1> QED BY <1>1, Zenon DEF Listed

\* Requests as they begin.
LEMMA RequestOK ==
  /\ Idle \in CallType /\ Idle.st = "idle" /\ Idle.op = "list" /\ Idle.page = NoPage /\ ~Idle.newest /\ ~Idle.asks
  /\ \A op \in Read \cup Write, p \in Page :
       /\ Request(op, p) \in CallType /\ Request(op, p).st = "sent" /\ Request(op, p).op = op
       /\ Request(op, p).page = p /\ Request(op, p).newest = (op = "list") /\ ~Request(op, p).asks
<1>1. /\ Idle \in CallType /\ Idle.st = "idle" /\ Idle.op = "list" /\ Idle.page = NoPage /\ ~Idle.newest /\ ~Idle.asks
  BY DEF Idle, CallType, Read
<1>2. ASSUME NEW op \in Read \cup Write, NEW p \in Page
      PROVE  /\ Request(op, p) \in CallType /\ Request(op, p).st = "sent" /\ Request(op, p).op = op
             /\ Request(op, p).page = p /\ Request(op, p).newest = (op = "list") /\ ~Request(op, p).asks
  BY <1>1, <1>2 DEF Request, Idle, CallType
<1> QED BY <1>1, <1>2

\* A request that writes is not a list.
LEMMA WriteOK == \A op \in Write, p \in Page : ~Request(op, p).newest
<1> SUFFICES ASSUME NEW op \in Write, NEW p \in Page PROVE ~Request(op, p).newest
  OBVIOUS
<1>1. op # "list" /\ Request(op, p).newest = (op = "list")
  BY RequestOK DEF Write
<1> QED BY <1>1

\* Requests that differ at most in being the newest, or in what they will close.
Same(q, r) == r.st = q.st /\ r.op = q.op /\ r.page = q.page /\ r.item = q.item /\ r.rows = q.rows

\* What gets old is what was the newest of the page.
LEMMA OutdateOK ==
  ASSUME NEW k \in [Call -> CallType], NEW p, NEW n, n = Outdate(p, k)
  PROVE  /\ n \in [Call -> CallType]
         /\ \A d \in Call : Same(k[d], n[d]) /\ n[d].newest = (k[d].newest /\ k[d].page # p) /\ n[d].asks = k[d].asks
<1>1. ASSUME NEW d \in Call
      PROVE  /\ n[d] \in CallType /\ Same(k[d], n[d]) /\ n[d].newest = (k[d].newest /\ k[d].page # p)
             /\ n[d].asks = k[d].asks
  <2>1. k[d] \in CallType
    OBVIOUS
  <2>2. CASE k[d].page = p
    <3>1. n[d] = [k[d] EXCEPT !.newest = FALSE]
      BY <2>2 DEF Outdate
    <3> QED BY <2>1, <2>2, <3>1 DEF CallType, Same
  <2>3. CASE k[d].page # p
    <3>1. n[d] = k[d]
      BY <2>3 DEF Outdate
    <3>2. k[d].newest \in BOOLEAN
      BY <2>1 DEF CallType
    <3> QED BY <2>1, <2>3, <3>1, <3>2 DEF Same
  <2> QED BY <2>2, <2>3
<1>2. n = [d \in Call |-> n[d]]
  BY DEF Outdate
<1> QED BY <1>1, <1>2

\* What closes a prompt with the answer of c is of another page, or nothing was closed.
Left(c, q, r) == r.asks => q.asks /\ (call[c].asks => q.page # call[c].page)

\* What would close the same prompt does not any more.
LEMMA ShutOK ==
  ASSUME Types, NEW c \in Call, NEW n, n = Shut(c)
  PROVE  /\ n \in [Call -> CallType]
         /\ \A d \in Call : Same(call[d], n[d]) /\ n[d].newest = call[d].newest /\ Left(c, call[d], n[d])
<1>1. ASSUME NEW d \in Call
      PROVE  n[d] \in CallType /\ Same(call[d], n[d]) /\ n[d].newest = call[d].newest /\ Left(c, call[d], n[d])
  <2>1. call[d] \in CallType
    BY DEF Types
  <2>2. CASE call[c].asks /\ call[d].page = call[c].page
    <3>1. n[d] = [call[d] EXCEPT !.asks = FALSE]
      BY <2>2 DEF Shut
    <3> QED BY <2>1, <3>1 DEF CallType, Same, Left
  <2>3. CASE ~(call[c].asks /\ call[d].page = call[c].page)
    <3>1. n[d] = call[d]
      BY <2>3 DEF Shut
    <3> QED BY <2>1, <2>3, <3>1 DEF Same, Left
  <2> QED BY <2>2, <2>3
<1>2. n = [d \in Call |-> n[d]]
  BY DEF Shut
<1> QED BY <1>1, <1>2

\* Of the other requests only the list that was the newest changes, and what closed the
\* same prompt.
LEMMA BecomeOK ==
  ASSUME Types, NEW c \in Call, NEW r \in CallType, Become(c, r)
  PROVE  /\ call' \in [Call -> CallType] /\ call'[c] = r
         /\ \A d \in Call \ {c} :
              /\ Same(call[d], call'[d]) /\ Left(c, call[d], call'[d])
              /\ call'[d].newest = (call[d].newest /\ ~(r.op = "list" /\ call[d].page = r.page))
<1>1. PICK k : k = Shut(c)
  OBVIOUS
<1>2. /\ k \in [Call -> CallType]
      /\ \A d \in Call : Same(call[d], k[d]) /\ k[d].newest = call[d].newest /\ Left(c, call[d], k[d])
  BY <1>1, ShutOK
<1>3. PICK n : n = Outdate(r.page, k)
  OBVIOUS
<1>4. /\ n \in [Call -> CallType]
      /\ \A d \in Call : /\ Same(k[d], n[d]) /\ n[d].newest = (k[d].newest /\ k[d].page # r.page)
                        /\ n[d].asks = k[d].asks
  BY <1>2, <1>3, OutdateOK
<1>5. CASE r.op = "list"
  <2>1. call' = [n EXCEPT ![c] = r]
    BY <1>1, <1>3, <1>5 DEF Become
  <2> QED BY <1>2, <1>4, <1>5, <2>1 DEF Same, Left
<1>6. CASE r.op # "list"
  <2>1. call' = [k EXCEPT ![c] = r]
    BY <1>1, <1>6 DEF Become
  <2>2. \A d \in Call : call[d].newest \in BOOLEAN
    BY DEF Types, CallType
  <2> QED BY <1>2, <1>6, <2>1, <2>2
<1> QED BY <1>5, <1>6

\* Pages that differ at most in their prompt.
Alike(a, b) ==
  /\ b.open = a.open /\ b.button = a.button /\ b.headerButton = a.headerButton /\ b.drawn = a.drawn
  /\ b.rows = a.rows /\ b.excused = a.excused /\ b.outdated = a.outdated

\* An answer closes the prompt it came from, if this is still open.
Closing(c, n) ==
  \A p \in Page :
    \/ n[p].prompt = page[p].prompt
    \/ n[p].prompt = NoItem /\ call[c].asks /\ p = call[c].page

LEMMA ClosedOK ==
  ASSUME Types, NEW c \in Call, NEW n, n = Closed(c)
  PROVE  n \in [Page -> PageType] /\ (\A p \in Page : Alike(page[p], n[p])) /\ Closing(c, n)
<1>1. ASSUME NEW p \in Page
      PROVE  /\ n[p] \in PageType /\ Alike(page[p], n[p])
             /\ n[p].prompt = page[p].prompt \/ (n[p].prompt = NoItem /\ call[c].asks /\ p = call[c].page)
  <2>1. page[p] \in PageType
    BY DEF Types
  <2>2. CASE call[c].asks /\ p = call[c].page
    <3>1. n[p] = [page[p] EXCEPT !.prompt = NoItem]
      BY <2>2 DEF Closed, Types
    <3> QED BY <2>1, <2>2, <3>1 DEF PageType, Alike
  <2>3. CASE ~(call[c].asks /\ p = call[c].page)
    <3>1. n[p] = page[p]
      BY <2>3 DEF Closed, Types
    <3> QED BY <2>1, <3>1 DEF Alike
  <2> QED BY <2>2, <2>3
<1>2. n = [p \in Page |-> n[p]]
  BY DEF Closed, Types
<1> QED BY <1>1, <1>2 DEF Closing

-----------------------------------------------------------------------------
(* One request changes.                                                    *)

\* The others are as they were, or no longer the newest.
Others(c) ==
  \A d \in Call \ {c} : Same(call[d], call'[d]) /\ (call'[d].newest => call[d].newest)

\* The invariant of requests, as far as one of them changes.
LEMMA CallsOK ==
  ASSUME IInv, Types', NEW c \in Call, Others(c), Placed(c)',
         \A p \in Page : page[p].open => page'[p].open,
         call'[c].newest => \A d \in Call \ {c} : call'[d].page = call'[c].page => ~call'[d].newest
  PROVE  (\A d \in Call : Placed(d)') /\ Single'
<1>1. ASSUME NEW d \in Call \ {c} PROVE Placed(d)'
  BY <1>1 DEF IInv, Placed, Others, Same, Types
<1>2. Single'
  BY DEF IInv, Single, Others, Same
<1> QED BY <1>1, <1>2

\* The prompts, when one request is answered.
LEMMA AskingKept ==
  ASSUME IInv, NEW c \in Call, ~call'[c].asks, Closing(c, page'),
         \A d \in Call \ {c} : Same(call[d], call'[d]) /\ Left(c, call[d], call'[d])
  PROVE  \A d \in Call : Asking(d)'
<1> SUFFICES ASSUME NEW d \in Call \ {c}, call'[d].asks PROVE Asking(d)'
  BY DEF Asking
<1>1. Same(call[d], call'[d]) /\ call[d].asks /\ (call[c].asks => call[d].page # call[c].page)
  BY DEF Left
<1>2. /\ call[d].op = "delete" /\ call[d].item \in Item /\ call[d].page \in Page
      /\ page[call[d].page].prompt = call[d].item
  BY <1>1 DEF IInv, Asking
<1>3. page'[call[d].page].prompt = page[call[d].page].prompt
  BY <1>1, <1>2 DEF Closing
<1> QED BY <1>1, <1>2, <1>3 DEF Asking, Same

\* What was read, as long as no change is answered.
LEMMA ReadKept ==
  ASSUME NEW p \in Page, ReadOK(p), Listed' = Listed,
         \A d \in Of(p) : Changes(d) => d \in Of(p)' /\ Changes(d)',
         \A d \in Of(p)' : call'[d].newest /\ call'[d].st = "done" =>
           \/ call'[d].rows = Listed
           \/ d \in Of(p) /\ call[d].newest /\ call[d].st = "done" /\ call'[d].rows = call[d].rows
  PROVE  ReadOK(p)'
BY DEF ReadOK

\* What a page waits for it still waits for, and what is new is no surprise.
Stays(p, d) ==
  /\ Changes(d) => d \in Of(p)' /\ Changes(d)'
  /\ Refresh(d) => d \in Of(p)' /\ Refresh(d)'
  /\ call[d].op \in Read => d \in Of(p)' /\ call'[d].op = call[d].op
Comes(p, d) ==
  /\ call'[d].st = "creating" /\ container => d \in Of(p) /\ call[d].st = "creating"
  /\ call'[d].newest /\ call'[d].st = "done" =>
       \/ call'[d].rows = Listed
       \/ d \in Of(p) /\ call[d].newest /\ call[d].st = "done" /\ call'[d].rows = call[d].rows

\* A page that stays as it is, whose list still waits for what it waited for.
LEMMA PageKept ==
  ASSUME NEW p \in Page, PageOK(p), Alike(page[p], page'[p]), kind' = kind, Listed' = Listed, container => container',
         \A d \in Of(p) : Stays(p, d), \A d \in Of(p)' : Comes(p, d)
  PROVE  PageOK(p)'
<1>1. ReadOK(p)'
  BY ReadKept DEF PageOK, Stays, Comes
<1>2. ShownOK(p)'
  BY DEF PageOK, ShownOK, Alike, Stays
<1>3. \A op \in Read : Wants(p, op) => Wants(p, op)'
  BY DEF Wants, Stays
<1>4. OpenOK(p)'
  BY <1>3 DEF PageOK, OpenOK, Read, Alike, Comes
<1> QED BY <1>1, <1>2, <1>4 DEF PageOK

\* A request is answered, or fails, and nothing is asked for again.
LEMMA Dropped ==
  ASSUME IInv, ProjectItemsAssumption, NEW c \in Call, Become(c, Idle), UNCHANGED <<kind, server>>,
         page' \in [Page -> PageType], \A p \in Page : page'[p].open = page[p].open, Closing(c, page')
  PROVE  /\ Types' /\ (\A d \in Call : Placed(d)' /\ Asking(d)') /\ Single'
         /\ call'[c] = Idle
         /\ \A d \in Call \ {c} : Same(call[d], call'[d]) /\ call'[d].newest = call[d].newest
         /\ \A p \in Page : Alike(page[p], page'[p]) /\ (c \in Of(p) => call[c].op \notin Read /\ ~Refresh(c)) => PageOK(p)'
<1>1. /\ call' \in [Call -> CallType] /\ call'[c] = Idle
      /\ \A d \in Call \ {c} :
           /\ Same(call[d], call'[d]) /\ Left(c, call[d], call'[d])
           /\ call'[d].newest = (call[d].newest /\ ~(Idle.op = "list" /\ call[d].page = Idle.page))
  BY BecomeOK, RequestOK DEF IInv
<1>2. \A d \in Call \ {c} : Same(call[d], call'[d]) /\ call'[d].newest = call[d].newest
  BY <1>1, RequestOK, ProjectItemsAssumption DEF IInv, Placed, Types, CallType
<1>3. Types'
  BY <1>1 DEF IInv, Types, server
<1>4. Placed(c)' /\ ~call'[c].newest /\ ~call'[c].asks
  BY <1>1, RequestOK, ProjectItemsAssumption DEF Placed
<1>5. (\A d \in Call : Placed(d)') /\ Single'
  BY <1>2, <1>3, <1>4, CallsOK DEF Others
<1>6. \A d \in Call : Asking(d)'
  BY <1>1, <1>4, AskingKept
<1>7. ASSUME NEW p \in Page, Alike(page[p], page'[p]), c \in Of(p) => call[c].op \notin Read /\ ~Refresh(c)
      PROVE  PageOK(p)'
  <2>1. \A d \in Of(p) : Stays(p, d)
    BY <1>2, <1>7 DEF Stays, Of, Refresh, Changes, Same
  <2>3. \A d \in Of(p)' : /\ d \in Of(p) /\ call'[d].st = call[d].st
                           /\ call'[d].newest = call[d].newest /\ call'[d].rows = call[d].rows
    BY <1>1, <1>2, RequestOK, ProjectItemsAssumption DEF Of, Same
  <2>4. Listed' = Listed
    BY DEF server, Listed, Row
  <2>5. \A d \in Of(p)' : Comes(p, d)
    BY <2>3 DEF Comes
  <2> QED BY <1>7, <2>1, <2>4, <2>5, PageKept DEF IInv, server
<1> QED BY <1>1, <1>2, <1>3, <1>5, <1>6, <1>7

\* The folder is there as long as it was, for the requests that stay.
LEMMA FoundedKept ==
  ASSUME IInv, container => container',
         \A p \in Page : page'[p].button = page[p].button /\ page'[p].headerButton = page[p].headerButton,
         \A p \in Page : page'[p].open = page[p].open /\ page'[p].rows = page[p].rows,
         \A p \in Page : page'[p].prompt = page[p].prompt \/ page'[p].prompt = NoItem,
         \A d \in Call :
           \/ container'
           \/ call'[d].op = call[d].op /\ (call'[d].st = call[d].st \/ call[d].op \notin Read)
           \/ call'[d].op \in Read /\ call'[d].st # "done"
           \/ call'[d].op \in {"edit", "delete"}
  PROVE  Founded'
BY DEF IInv, Founded, Read

-----------------------------------------------------------------------------
(* The steps.                                                              *)

\* The server looks for the folder, and makes it.
LEMMA ServerStep ==
  ASSUME IInv, ProjectItemsAssumption, NEW c \in Call, getContainer(c) \/ createContainer(c)
  PROVE  IInv'
<1>1. PICK r : call' = [call EXCEPT ![c] = r] /\ r = call'[c]
              /\ \/ r = Answered(call[c]) /\ container'
                 \/ r = [call[c] EXCEPT !.st = "creating"] /\ ~container'
  BY DEF getContainer, createContainer, server, IInv, Types
<1>2. /\ call[c].op \in Read /\ call[c].st \in {"sent", "creating"} /\ call[c].page \in Page /\ call[c] \in CallType
      /\ ~call[c].asks
  BY DEF getContainer, createContainer, IInv, Placed, Asking, Types, Read
<1>3. container' \in BOOLEAN /\ (container => container') /\ UNCHANGED <<kind, items, made, edited, page>>
  BY DEF getContainer, createContainer, server, IInv, Types
<1>4. /\ r \in CallType /\ r.st \in {"done", "creating"} /\ (r.st = "creating" <=> ~container') /\ r.op = call[c].op
      /\ r.page = call[c].page /\ r.newest = call[c].newest /\ ~r.asks
      /\ r.st = "done" /\ r.op = "list" => r.rows = Listed
  <2>1. Listed \in SUBSET (Item \X BOOLEAN)
    BY ListedOK DEF IInv
  <2>2. CASE r = Answered(call[c]) /\ container'
    <3>1. PICK rows \in SUBSET (Item \X BOOLEAN) : rows = IF call[c].op = "list" THEN Listed ELSE {}
      BY <2>1
    <3>2. r = [call[c] EXCEPT !.st = "done", !.rows = rows]
      BY <2>2, <3>1 DEF Answered
    <3> QED BY <1>2, <2>2, <3>1, <3>2 DEF CallType
  <2>3. CASE r = [call[c] EXCEPT !.st = "creating"] /\ ~container'
    BY <1>2, <2>3 DEF CallType
  <2> QED BY <1>1, <2>2, <2>3
<1>5. call'[c] = r /\ \A d \in Call \ {c} : call'[d] = call[d]
  BY <1>1 DEF IInv, Types
<1>6. Types'
  BY <1>1, <1>3, <1>4 DEF IInv, Types
<1>7. Placed(c)'
  BY <1>2, <1>3, <1>4, <1>5 DEF IInv, Placed
<1>8. (\A d \in Call : Placed(d)') /\ Single'
  <2>1. Others(c)
    BY <1>5 DEF Others, Same
  <2>2. call'[c].newest => \A d \in Call \ {c} : call'[d].page = call'[c].page => ~call'[d].newest
    BY <1>4, <1>5 DEF IInv, Single
  <2> QED BY <1>3, <1>6, <1>7, <2>1, <2>2, CallsOK
<1>9. \A d \in Call : Asking(d)'
  BY <1>3, <1>4, <1>5 DEF IInv, Asking
<1>10. Founded'
  BY <1>2, <1>3, <1>4, <1>5, FoundedKept
<1>11. ASSUME NEW p \in Page PROVE PageOK(p)'
  <2>1. \A d \in Of(p) : Stays(p, d)
    BY <1>2, <1>4, <1>5 DEF Stays, Of, Refresh, Changes, Read
  <2>2. Listed' = Listed
    BY <1>3 DEF Listed, Row
  <2>3. \A d \in Of(p)' : Comes(p, d)
    <3>1. call[c].newest => call[c].op = "list"
      BY DEF IInv, Placed
    <3>2. c \in Of(p)' => c \in Of(p) /\ Comes(p, c)
      BY <1>3, <1>4, <1>5, <3>1 DEF Comes, Of
    <3>3. ASSUME NEW d \in Of(p)' \ {c} PROVE Comes(p, d)
      BY <1>5 DEF Comes, Of
    <3> QED BY <3>2, <3>3
  <2>4. Alike(page[p], page'[p])
    BY <1>3 DEF Alike
  <2> QED BY <1>3, <2>1, <2>2, <2>3, <2>4, PageKept DEF IInv
<1> QED BY <1>6, <1>8, <1>9, <1>10, <1>11 DEF IInv

\* A read fails.
LEMMA FailStep ==
  ASSUME IInv, ProjectItemsAssumption, NEW c \in Call, FailRead(c)
  PROVE  IInv'
<1>1. PICK q \in Page : q = call[c].page
  BY DEF FailRead, IInv, Placed, Free
<1>2. /\ page' = [page EXCEPT ![q] = Missing(page[q], call[c])]
      /\ Become(c, Idle) /\ UNCHANGED <<kind, server>> /\ (call[c].st = "creating" => container)
      /\ page[q] \in PageType /\ call[c].newest \in BOOLEAN
  BY <1>1 DEF FailRead, IInv, Types, CallType
<1>3. /\ page'[q] \in PageType /\ page'[q].open = page[q].open /\ page'[q].rows = page[q].rows
      /\ page'[q].button = page[q].button /\ page'[q].headerButton = page[q].headerButton
      /\ page'[q].prompt = page[q].prompt
      /\ page'[q].excused = (page[q].excused \/ call[c].st # "creating")
      /\ page'[q].outdated = (page[q].outdated \/ call[c].newest)
      /\ \A p \in Page \ {q} : page'[p] = page[p]
  <2>1. PICK v : v = Missing(page[q], call[c])
    OBVIOUS
  <2>2. page'[q] = v /\ \A p \in Page \ {q} : page'[p] = page[p]
    BY <1>2, <2>1 DEF IInv, Types
  <2>3. /\ v \in PageType /\ v.open = page[q].open /\ v.rows = page[q].rows /\ v.button = page[q].button
        /\ v.headerButton = page[q].headerButton /\ v.prompt = page[q].prompt
        /\ v.excused = (page[q].excused \/ call[c].st # "creating")
        /\ v.outdated = (page[q].outdated \/ call[c].newest)
    BY <1>2, <2>1 DEF PageType, Missing
  <2> QED BY <2>2, <2>3
<1>4. page' \in [Page -> PageType] /\ \A p \in Page : page'[p].open = page[p].open
  BY <1>2, <1>3 DEF IInv, Types
<1>5. /\ Types' /\ (\A d \in Call : Placed(d)' /\ Asking(d)') /\ Single'
      /\ call'[c] = Idle
      /\ \A d \in Call \ {c} : Same(call[d], call'[d]) /\ call'[d].newest = call[d].newest
      /\ \A p \in Page : Alike(page[p], page'[p]) /\ (c \in Of(p) => call[c].op \notin Read /\ ~Refresh(c)) => PageOK(p)'
  BY <1>2, <1>3, <1>4, Dropped DEF Closing
<1>6. Founded'
  BY <1>2, <1>3, <1>5, RequestOK, FoundedKept DEF Same, server, Read
<1>7. PageOK(q)'
  <2>1. OpenOK(q)'
    <3> SUFFICES ASSUME page[q].open, ~page[q].excused, call[c].st = "creating" PROVE FALSE
      BY <1>3 DEF OpenOK
    <3>1. c \in Of(q)
      BY <1>1 DEF Of
    <3> QED BY <3>1 DEF IInv, PageOK, OpenOK
  <2>2. ShownOK(q)'
    <3> SUFFICES ASSUME page[q].open, ~page[q].outdated, ~call[c].newest
                 PROVE  page'[q].rows = Listed' \/ \E d \in Of(q)' : Refresh(d)'
      BY <1>3 DEF ShownOK
    <3>1. page[q].rows = Listed \/ \E d \in Of(q) : Refresh(d)
      BY DEF IInv, PageOK, ShownOK
    <3>2. ~Refresh(c)
      BY DEF Refresh, Changes, FailRead, Read
    <3>3. \A d \in Of(q) \ {c} : Refresh(d) => d \in Of(q)' /\ Refresh(d)'
      BY <1>5 DEF Of, Refresh, Changes, Same
    <3>4. Listed' = Listed
      BY <1>2 DEF server, Listed, Row
    <3> QED BY <1>3, <3>1, <3>2, <3>3, <3>4
  <2>3. ReadOK(q)'
    <3>1. ~Changes(c)
      BY DEF Changes, FailRead, Read
    <3>2. \A d \in Of(q) : Changes(d) => d \in Of(q)' /\ Changes(d)'
      BY <1>5, <3>1 DEF Of, Changes, Same
    <3>3. \A d \in Of(q)' : call'[d].newest /\ call'[d].st = "done" =>
            d \in Of(q) /\ call[d].newest /\ call[d].st = "done" /\ call'[d].rows = call[d].rows
      BY <1>5, RequestOK DEF Of, Same
    <3>4. Listed' = Listed
      BY <1>2 DEF server, Listed, Row
    <3> QED BY <3>2, <3>3, <3>4, ReadKept DEF IInv, PageOK
  <2> QED BY <2>1, <2>2, <2>3 DEF PageOK
<1>8. ASSUME NEW p \in Page \ {q} PROVE PageOK(p)'
  <2>1. Alike(page[p], page'[p])
    BY <1>3 DEF Alike
  <2> QED BY <1>1, <1>5, <2>1 DEF Of
<1> QED BY <1>5, <1>6, <1>7, <1>8 DEF IInv

\* The reference of the folder is answered, or the list.
LEMMA AnswerStep ==
  ASSUME IInv, ProjectItemsAssumption, NEW c \in Call, onContainer(c) \/ doBeforeLoadData(c)
  PROVE  IInv'
<1>1. PICK q \in Page : q = call[c].page
  BY DEF onContainer, doBeforeLoadData, IInv, Placed
<1>2. /\ call[c].st = "done" /\ call[c].op \in Read /\ Become(c, Idle) /\ UNCHANGED <<kind, server>>
      /\ page[q] \in PageType /\ call[c].newest \in BOOLEAN /\ (call[c].newest => call[c].op = "list")
      /\ container /\ page[q].open
  <2>1. call[c].st = "done" /\ call[c].op \in Read /\ Become(c, Idle) /\ UNCHANGED <<kind, server>>
    BY DEF onContainer, doBeforeLoadData, Read
  <2>2. page[q] \in PageType /\ call[c].newest \in BOOLEAN
    BY DEF IInv, Types, CallType
  <2>3. (call[c].newest => call[c].op = "list") /\ page[q].open
    BY <1>1 DEF IInv, Placed
  <2>4. container
    BY <2>1 DEF IInv, Founded
  <2> QED BY <2>1, <2>2, <2>3, <2>4
<1>3. call[c].rows \in SUBSET (Item \X BOOLEAN)
  BY DEF IInv, Types, CallType
<1>4. PICK v : /\ page' = [page EXCEPT ![q] = v]
               /\ \/ call[c].op = "header" /\ v = [page[q] EXCEPT !.headerButton = TRUE]
                  \/ call[c].op = "container" /\ v = [page[q] EXCEPT !.button = TRUE]
                  \/ /\ call[c].op = "list"
                     /\ v = [page[q] EXCEPT !.rows = call[c].rows, !.drawn = TRUE, !.outdated = ~call[c].newest]
  BY <1>1 DEF onContainer, doBeforeLoadData, IInv, Types
<1>5. /\ v \in PageType /\ v.open = page[q].open /\ v.excused = page[q].excused /\ v.prompt = page[q].prompt
      /\ page[q].button => v.button
      /\ page[q].headerButton => v.headerButton
      /\ page[q].drawn => v.drawn
      /\ call[c].op = "header" => v.headerButton
      /\ call[c].op = "container" => v.button
      /\ call[c].op = "list" => v.drawn /\ v.rows = call[c].rows /\ (v.outdated <=> ~call[c].newest)
      /\ call[c].op # "list" => v.rows = page[q].rows /\ v.outdated = page[q].outdated
  BY <1>2, <1>3, <1>4 DEF PageType
<1>6. page'[q] = v /\ \A p \in Page \ {q} : page'[p] = page[p]
  BY <1>4 DEF IInv, Types
<1>7. page' \in [Page -> PageType] /\ \A p \in Page : page'[p].open = page[p].open
  BY <1>4, <1>5, <1>6 DEF IInv, Types
<1>8. /\ Types' /\ (\A d \in Call : Placed(d)' /\ Asking(d)') /\ Single'
      /\ call'[c] = Idle
      /\ \A d \in Call \ {c} : Same(call[d], call'[d]) /\ call'[d].newest = call[d].newest
      /\ \A p \in Page : Alike(page[p], page'[p]) /\ (c \in Of(p) => call[c].op \notin Read /\ ~Refresh(c)) => PageOK(p)'
  BY <1>2, <1>5, <1>6, <1>7, Dropped DEF Closing
<1>9. Founded'
  <2>1. \A d \in Call : call'[d].op = call[d].op \/ d = c
    BY <1>8 DEF Same
  <2> QED BY <1>2, <1>5, <1>6 DEF IInv, Founded, server
<1>10. \A d \in Of(q) \ {c} : /\ d \in Of(q)' /\ call'[d].op = call[d].op /\ (Refresh(d) => Refresh(d)')
                              /\ Changes(d) => Changes(d)'
  BY <1>8 DEF Of, Refresh, Changes, Same
<1>11. OpenOK(q)'
  <2> SUFFICES ASSUME page[q].open, ~page[q].excused
               PROVE  /\ \A d \in Of(q)' : call'[d].st # "creating"
                      /\ v.button \/ Wants(q, "container")'
                      /\ v.drawn \/ Wants(q, "list")'
                      /\ kind = "conversations" => v.headerButton \/ Wants(q, "header")'
    BY <1>2, <1>5, <1>6 DEF OpenOK, server
  <2>1. /\ \A d \in Of(q) : call[d].st # "creating"
        /\ page[q].button \/ Wants(q, "container")
        /\ page[q].drawn \/ Wants(q, "list")
        /\ kind = "conversations" => page[q].headerButton \/ Wants(q, "header")
    BY DEF IInv, PageOK, OpenOK
  <2>2. \A d \in Of(q)' : d \in Of(q) /\ call'[d].st = call[d].st
    BY <1>8, RequestOK, ProjectItemsAssumption DEF Of, Same
  <2>3. \A op \in Read : Wants(q, op) => call[c].op = op \/ Wants(q, op)'
    BY <1>10 DEF Wants
  <2> QED BY <1>5, <2>1, <2>2, <2>3 DEF Read
<1>12. ShownOK(q)'
  <2> SUFFICES ASSUME page[q].open, ~v.outdated
               PROVE  v.rows = Listed \/ \E d \in Of(q)' : Refresh(d)'
    BY <1>2, <1>5, <1>6 DEF ShownOK, server, Listed, Row
  <2>1. CASE call[c].op = "list"
    <3>1. call[c].rows = Listed \/ \E d \in Of(q) : Changes(d)
      BY <1>1, <1>2, <1>5, <2>1 DEF IInv, PageOK, ReadOK, Of
    <3>2. ~Changes(c)
      BY <2>1 DEF Changes
    <3> QED BY <1>5, <1>10, <2>1, <3>1, <3>2 DEF Refresh
  <2>2. CASE call[c].op # "list"
    <3>1. page[q].rows = Listed \/ \E d \in Of(q) : Refresh(d)
      BY <1>5, <2>2 DEF IInv, PageOK, ShownOK
    <3>2. ~Refresh(c)
      BY <1>2, <2>2 DEF Refresh, Changes, Read
    <3> QED BY <1>5, <1>10, <2>2, <3>1, <3>2
  <2> QED BY <2>1, <2>2
<1>13. ReadOK(q)'
  <2>1. ~Changes(c)
    BY <1>2 DEF Changes, Read
  <2>2. \A d \in Of(q) : Changes(d) => d \in Of(q)' /\ Changes(d)'
    BY <1>10, <2>1
  <2>3. \A d \in Of(q)' : call'[d].newest /\ call'[d].st = "done" =>
          d \in Of(q) /\ call[d].newest /\ call[d].st = "done" /\ call'[d].rows = call[d].rows
    BY <1>8, RequestOK DEF Of, Same
  <2>4. Listed' = Listed
    BY <1>2 DEF server, Listed, Row
  <2> QED BY <2>2, <2>3, <2>4, ReadKept DEF IInv, PageOK
<1>14. ASSUME NEW p \in Page \ {q} PROVE PageOK(p)'
  <2>1. Alike(page[p], page'[p])
    BY <1>6 DEF Alike
  <2> QED BY <1>1, <1>8, <2>1 DEF Of
<1> QED BY <1>8, <1>9, <1>11, <1>12, <1>13, <1>14 DEF IInv, PageOK

\* A form is submitted, or a deletion confirmed.
LEMMA SubmitStep ==
  ASSUME IInv, ProjectItemsAssumption, NEW p \in Page, NEW c \in Call,
         onAddItemClick(p, c) \/ onEditItem(p, c) \/ confirmDelete(p, c)
  PROVE  IInv'
<1>1. \A i \in Actions(page[p].rows) : i \in Item
  BY DEF Actions, IInv, Types, PageType
<1>2. PICK op \in Write, i \in Item \cup {NoItem} :
        /\ Submit(p, c, op, i) /\ page[p].open
        /\ op \in {"add", "headerAdd"} => container
        /\ op = "delete" => i \in Item /\ page[p].prompt = i
  <2>1. CASE onAddItemClick(p, c)
    BY <2>1 DEF onAddItemClick, Write, IInv, Founded
  <2>2. CASE onEditItem(p, c)
    <3>1. page[p].rows # {} => page[p].open
      BY DEF IInv, Founded
    <3>2. PICK i \in Item : page[p].rows # {} /\ Submit(p, c, "edit", i)
      BY <1>1, <2>2 DEF onEditItem, Actions
    <3> QED BY <3>1, <3>2 DEF Write
  <2>3. CASE confirmDelete(p, c)
    <3>1. page[p].prompt \in Item /\ page[p].open
      BY <2>3 DEF confirmDelete, Unprompted, IInv, Types, PageType, Founded
    <3> QED BY <2>3, <3>1 DEF confirmDelete, Write
  <2> QED BY <2>1, <2>2, <2>3
<1>3. PICK asks \in BOOLEAN : asks = (op = "delete")
  OBVIOUS
<1>4. PICK r : r = [Request(op, p) EXCEPT !.item = i, !.asks = asks]
  OBVIOUS
<1>5. /\ r \in CallType /\ r.st = "sent" /\ r.op = op /\ r.page = p /\ r.item = i /\ ~r.newest
      /\ r.asks = asks
  <2>1. PICK q \in CallType : q = Request(op, p)
    BY RequestOK
  <2>2. q.st = "sent" /\ q.op = op /\ q.page = p /\ ~q.newest
    <3>1. Request(op, p).st = "sent" /\ Request(op, p).op = op /\ Request(op, p).page = p
      BY RequestOK
    <3> QED BY <2>1, <3>1, WriteOK
  <2>3. r = [q EXCEPT !.item = i, !.asks = asks]
    BY <1>4, <2>1
  <2> QED BY <2>2, <2>3 DEF CallType
<1>6. Become(c, r) /\ UNCHANGED <<kind, server, page>> /\ call[c].st = "idle" /\ op \notin Read
  BY <1>2, <1>3, <1>4 DEF Submit, Free, Write, Read
<1>7. ~call[c].asks
  BY <1>6, ProjectItemsAssumption DEF IInv, Placed, Asking
<1>8. /\ call' \in [Call -> CallType] /\ call'[c] = r
      /\ \A d \in Call \ {c} : /\ Same(call[d], call'[d]) /\ call'[d].newest = call[d].newest
                               /\ call'[d].asks => call[d].asks
  <2>1. /\ call' \in [Call -> CallType] /\ call'[c] = r
        /\ \A d \in Call \ {c} :
             /\ Same(call[d], call'[d]) /\ Left(c, call[d], call'[d])
             /\ call'[d].newest = (call[d].newest /\ ~(r.op = "list" /\ call[d].page = r.page))
    BY <1>5, <1>6, BecomeOK DEF IInv
  <2>2. r.op # "list" /\ \A d \in Call : call[d].newest \in BOOLEAN
    BY <1>5, <1>6 DEF Read, IInv, Types, CallType
  <2> QED BY <2>1, <2>2 DEF Left
<1>9. Types'
  BY <1>6, <1>8 DEF IInv, Types, server
<1>10. (\A d \in Call : Placed(d)') /\ Single'
  <2>1. Placed(c)'
    BY <1>2, <1>5, <1>6, <1>8 DEF Placed
  <2> QED BY <1>5, <1>6, <1>8, <1>9, <2>1, CallsOK DEF Others
<1>11. \A d \in Call : Asking(d)'
  <2>1. Asking(c)'
    BY <1>2, <1>3, <1>5, <1>6, <1>8 DEF Asking
  <2>2. ASSUME NEW d \in Call \ {c} PROVE Asking(d)'
    BY <1>6, <1>8 DEF IInv, Asking, Same
  <2> QED BY <2>1, <2>2
<1>12. Founded'
  BY <1>2, <1>5, <1>6, <1>8 DEF IInv, Founded, Same, server
<1>13. ASSUME NEW q \in Page PROVE PageOK(q)'
  <2>1. c \notin Of(q)
    BY <1>6, ProjectItemsAssumption DEF Of, IInv, Placed
  <2>2. \A d \in Of(q) : Stays(q, d)
    BY <1>8, <2>1 DEF Stays, Of, Refresh, Changes, Same
  <2>3. \A d \in Of(q)' : Comes(q, d)
    BY <1>5, <1>8 DEF Comes, Of, Same
  <2>4. Listed' = Listed
    BY <1>6 DEF server, Listed, Row
  <2>5. Alike(page[q], page'[q])
    BY <1>6 DEF Alike
  <2> QED BY <1>6, <2>2, <2>3, <2>4, <2>5, PageKept DEF IInv, server
<1> QED BY <1>9, <1>10, <1>11, <1>12, <1>13 DEF IInv

\* The prompt before a deletion, and its other button.
LEMMA PromptStep ==
  ASSUME IInv, ProjectItemsAssumption, NEW p \in Page, onDeleteItem(p) \/ cancelDelete(p)
  PROVE  IInv'
<1>1. PICK i \in Item \cup {NoItem} :
        /\ page' = [page EXCEPT ![p].prompt = i] /\ UNCHANGED <<kind, server>>
        /\ i # NoItem => page[p].open /\ page[p].prompt = NoItem /\ call' = call
        /\ i = NoItem => call' = [d \in Call |-> IF call[d].page = p THEN [call[d] EXCEPT !.asks = FALSE] ELSE call[d]]
  <2>1. CASE onDeleteItem(p)
    <3>1. PICK i \in Actions(page[p].rows) : page' = [page EXCEPT ![p].prompt = i]
      BY <2>1 DEF onDeleteItem
    <3>2. i \in Item /\ page[p].rows # {}
      BY DEF Actions, IInv, Types, PageType
    <3>3. page[p].open
      BY <3>2 DEF IInv, Founded
    <3> QED BY <2>1, <3>1, <3>2, <3>3, ProjectItemsAssumption DEF onDeleteItem, Unprompted
  <2>2. CASE cancelDelete(p)
    BY <2>2 DEF cancelDelete
  <2> QED BY <2>1, <2>2
<1>2. /\ page'[p] \in PageType /\ Alike(page[p], page'[p]) /\ page'[p].prompt = i
      /\ \A q \in Page \ {p} : page'[q] = page[q] /\ Alike(page[q], page'[q])
  <2>1. page[p] \in PageType /\ page'[p] = [page[p] EXCEPT !.prompt = i]
    BY <1>1 DEF IInv, Types
  <2>2. page'[p] \in PageType /\ Alike(page[p], page'[p]) /\ page'[p].prompt = i
    BY <2>1 DEF PageType, Alike
  <2>3. \A q \in Page \ {p} : page'[q] = page[q]
    BY <1>1 DEF IInv, Types
  <2> QED BY <2>2, <2>3 DEF Alike
<1>3. /\ call' \in [Call -> CallType]
      /\ \A d \in Call : /\ Same(call[d], call'[d]) /\ call'[d].newest = call[d].newest
                         /\ call'[d].asks => call[d].asks
                         /\ call'[d].asks /\ i = NoItem => call[d].page # p
  <2>1. CASE i # NoItem
    BY <1>1, <2>1 DEF IInv, Types, Same
  <2>2. CASE i = NoItem
    <3>1. ASSUME NEW d \in Call
          PROVE  /\ call'[d] \in CallType /\ Same(call[d], call'[d]) /\ call'[d].newest = call[d].newest
                 /\ call'[d].asks => call[d].asks /\ call[d].page # p
      <4>1. call[d] \in CallType /\ call'[d] = IF call[d].page = p THEN [call[d] EXCEPT !.asks = FALSE] ELSE call[d]
        BY <1>1, <2>2 DEF IInv, Types
      <4> QED BY <4>1 DEF CallType, Same
    <3>2. call' = [d \in Call |-> call'[d]]
      BY <1>1, <2>2
    <3> QED BY <3>1, <3>2
  <2> QED BY <2>1, <2>2
<1>4. Types'
  <2>1. page' \in [Page -> PageType]
    BY <1>1, <1>2 DEF IInv, Types
  <2> QED BY <1>1, <1>3, <2>1 DEF IInv, Types, server
<1>5. \A d \in Call : Placed(d)'
  BY <1>2, <1>3 DEF IInv, Placed, Same, Alike, Types
<1>6. Single' /\ Founded'
  <2>1. Single'
    BY <1>3 DEF IInv, Single, Same
  <2>2. Founded'
    BY <1>1, <1>2, <1>3 DEF IInv, Founded, Same, Alike, server
  <2> QED BY <2>1, <2>2
<1>7. ASSUME NEW d \in Call, call'[d].asks PROVE Asking(d)'
  <2>1. /\ call[d].asks /\ Same(call[d], call'[d]) /\ call[d].item \in Item
        /\ call[d].page \in Page /\ call[d].op = "delete" /\ page[call[d].page].prompt = call[d].item
    BY <1>3, <1>7 DEF IInv, Asking
  <2>2. call[d].page # p
    BY <1>1, <1>3, <1>7, <2>1, ProjectItemsAssumption
  <2> QED BY <1>2, <2>1, <2>2 DEF Asking, Same
<1>8. ASSUME NEW q \in Page PROVE PageOK(q)'
  <2>1. \A d \in Of(q) : Stays(q, d)
    BY <1>3 DEF Stays, Of, Refresh, Changes, Same
  <2>2. \A d \in Of(q)' : Comes(q, d)
    BY <1>3 DEF Comes, Of, Same
  <2>3. Listed' = Listed
    BY <1>1 DEF server, Listed, Row
  <2>4. Alike(page[q], page'[q])
    BY <1>2
  <2> QED BY <1>1, <2>1, <2>2, <2>3, <2>4, PageKept DEF IInv, server
<1>9. \A d \in Call : Asking(d)'
  BY <1>7 DEF Asking
<1> QED BY <1>4, <1>5, <1>6, <1>8, <1>9 DEF IInv

\* Nothing is loaded: what the page shows is known to be old.
LEMMA UnloadedStep ==
  ASSUME IInv, ProjectItemsAssumption, NEW c \in Call, call[c].st = "done", call[c].op \in Write,
         Unloaded(c), UNCHANGED <<kind, server>>
  PROVE  IInv'
<1>1. PICK q \in Page : q = call[c].page
  BY DEF IInv, Placed
<1>2. ~call[c].newest /\ call[c].op \notin Read
  BY DEF IInv, Placed, Write, Read
<1>3. PICK k : k = Shut(c)
  OBVIOUS
<1>4. PICK n : n = Outdate(q, k)
  OBVIOUS
<1>5. /\ call' \in [Call -> CallType] /\ call'[c] = Idle
      /\ \A d \in Call \ {c} :
           /\ Same(call[d], call'[d]) /\ Left(c, call[d], call'[d])
           /\ call'[d].newest = (call[d].newest /\ call[d].page # q)
  <2>1. /\ k \in [Call -> CallType]
        /\ \A d \in Call : Same(call[d], k[d]) /\ k[d].newest = call[d].newest /\ Left(c, call[d], k[d])
    BY <1>3, ShutOK DEF IInv
  <2>2. /\ n \in [Call -> CallType]
        /\ \A d \in Call : Same(k[d], n[d]) /\ n[d].newest = (k[d].newest /\ k[d].page # q) /\ n[d].asks = k[d].asks
    BY <1>4, <2>1, OutdateOK
  <2>3. call' = [n EXCEPT ![c] = Idle]
    BY <1>1, <1>3, <1>4 DEF Unloaded
  <2> QED BY <2>1, <2>2, <2>3, RequestOK DEF Same, Left
<1>6. PICK m : m = Closed(c)
  OBVIOUS
<1>7. m \in [Page -> PageType] /\ (\A p \in Page : Alike(page[p], m[p])) /\ Closing(c, m)
  BY <1>6, ClosedOK DEF IInv
<1>8. /\ page' = [m EXCEPT ![q].outdated = TRUE]
      /\ page'[q] = [m[q] EXCEPT !.outdated = TRUE] /\ \A p \in Page \ {q} : page'[p] = m[p]
  BY <1>1, <1>6, <1>7 DEF Unloaded
<1>9. /\ page'[q] \in PageType /\ page'[q].outdated /\ page'[q].open = page[q].open
      /\ page'[q].button = page[q].button /\ page'[q].headerButton = page[q].headerButton
      /\ page'[q].drawn = page[q].drawn /\ page'[q].excused = page[q].excused /\ page'[q].rows = page[q].rows
      /\ page'[q].prompt = m[q].prompt
  <2>1. PICK v \in PageType : v = m[q]
    BY <1>7
  <2>2. Alike(page[q], v) /\ page'[q] = [v EXCEPT !.outdated = TRUE]
    BY <1>7, <1>8, <2>1
  <2>3. LET w == [v EXCEPT !.outdated = TRUE] IN
        /\ w \in PageType /\ w.outdated /\ w.open = v.open /\ w.button = v.button
        /\ w.headerButton = v.headerButton /\ w.drawn = v.drawn /\ w.excused = v.excused
        /\ w.rows = v.rows /\ w.prompt = v.prompt
    BY DEF PageType
  <2> QED BY <2>1, <2>2, <2>3, Zenon DEF Alike
<1>10. /\ \A p \in Page \ {q} : Alike(page[p], page'[p])
       /\ \A p \in Page : page'[p].open = page[p].open
       /\ Closing(c, page')
  <2>1. \A p \in Page \ {q} : Alike(page[p], page'[p])
    BY <1>7, <1>8
  <2>2. \A p \in Page : page'[p].prompt = m[p].prompt
    BY <1>8, <1>9
  <2> QED BY <1>7, <1>9, <2>1, <2>2 DEF Alike, Closing
<1>11. Types'
  <2>1. page' \in [Page -> PageType]
    BY <1>7, <1>8, <1>9
  <2> QED BY <1>5, <2>1 DEF IInv, Types, server
<1>12. (\A d \in Call : Placed(d)') /\ Single'
  <2>1. Placed(c)' /\ ~call'[c].newest
    BY <1>5, RequestOK, ProjectItemsAssumption DEF Placed
  <2> QED BY <1>5, <1>10, <1>11, <2>1, CallsOK DEF Others
<1>13. \A d \in Call : Asking(d)'
  BY <1>5, <1>10, RequestOK, AskingKept
<1>14. Founded'
  <2>1. \A p \in Page : /\ page'[p].button = page[p].button /\ page'[p].headerButton = page[p].headerButton
                        /\ page'[p].open = page[p].open /\ page'[p].rows = page[p].rows
    BY <1>9, <1>10 DEF Alike
  <2> QED BY <1>2, <1>5, <1>10, <2>1, RequestOK, FoundedKept DEF Same, server, Read, Closing
<1>15. Listed' = Listed
  BY DEF server, Listed, Row
<1>16. PageOK(q)'
  <2>1. ShownOK(q)'
    BY <1>9 DEF ShownOK
  <2>2. ReadOK(q)'
    <3>1. ASSUME NEW d \in Call \ {c}, call'[d].page = q PROVE ~call'[d].newest
      BY <1>5, <3>1 DEF Same
    <3>2. call'[c].page # q
      BY <1>5, RequestOK, ProjectItemsAssumption
    <3> QED BY <3>1, <3>2 DEF ReadOK, Of
  <2>3. \A op \in Read : Wants(q, op) => Wants(q, op)'
    BY <1>2, <1>5 DEF Wants, Of, Same
  <2>4. \A d \in Of(q)' : call'[d].st = "creating" => d \in Of(q) /\ call[d].st = "creating"
    BY <1>5, RequestOK DEF Of, Same
  <2>5. OpenOK(q)'
    BY <1>9, <2>3, <2>4 DEF IInv, PageOK, OpenOK, Read, server
  <2> QED BY <2>1, <2>2, <2>5 DEF PageOK
<1>17. ASSUME NEW p \in Page \ {q} PROVE PageOK(p)'
  <2>1. \A d \in Of(p) : Stays(p, d)
    BY <1>1, <1>5 DEF Stays, Of, Refresh, Changes, Same
  <2>2. \A d \in Of(p)' : Comes(p, d)
    BY <1>5, RequestOK DEF Comes, Of, Same
  <2> QED BY <1>10, <1>15, <2>1, <2>2, PageKept DEF IInv, server
<1> QED BY <1>11, <1>12, <1>13, <1>14, <1>16, <1>17 DEF IInv

\* A request that writes is answered without a list.
LEMMA SilentStep ==
  ASSUME IInv, ProjectItemsAssumption, NEW c \in Call, call[c].op \in Write, ~Changes(c),
         Become(c, Idle), page' = Closed(c), UNCHANGED <<kind, server>>
  PROVE  IInv'
<1>1. page' \in [Page -> PageType] /\ (\A p \in Page : Alike(page[p], page'[p])) /\ Closing(c, page')
  BY ClosedOK DEF IInv
<1>2. \A p \in Page : page'[p].open = page[p].open
  BY <1>1 DEF Alike
<1>3. /\ Types' /\ (\A d \in Call : Placed(d)' /\ Asking(d)') /\ Single'
      /\ call'[c] = Idle
      /\ \A d \in Call \ {c} : Same(call[d], call'[d]) /\ call'[d].newest = call[d].newest
      /\ \A p \in Page : Alike(page[p], page'[p]) /\ (c \in Of(p) => call[c].op \notin Read /\ ~Refresh(c)) => PageOK(p)'
  BY <1>1, <1>2, Dropped
<1>4. call[c].op \notin Read /\ ~Refresh(c)
  BY DEF Refresh, Write, Read, IInv, Placed
<1>5. Founded'
  BY <1>1, <1>3, <1>4, RequestOK, FoundedKept DEF Same, server, Read, Alike, Closing
<1> QED BY <1>1, <1>3, <1>4, <1>5 DEF IInv

\* What was written is answered with success: the list is loaded again, or the page
\* of a deletion without its prompt is left as it is.
LEMMA SuccessStep ==
  ASSUME IInv, ProjectItemsAssumption, NEW c \in Call, onSuccess(c)
  PROVE  IInv'
<1>1. /\ call[c].st = "done" /\ call[c].op \in Write /\ UNCHANGED <<kind, server>>
      /\ call[c].page \in Page /\ ~call[c].newest /\ call[c].op \notin Read
  BY DEF onSuccess, IInv, Placed, Write, Read
<1>2. CASE Thrown(c)
  BY <1>1, <1>2, UnloadedStep DEF onSuccess
<1>3. CASE ~Thrown(c) /\ call[c].op = "headerAdd"
  BY <1>1, <1>3, SilentStep DEF onSuccess, Changes
<1>4. CASE ~Thrown(c) /\ call[c].op # "headerAdd"
  <2>1. PICK q \in Page : q = call[c].page
    BY <1>1
  <2>2. PICK r : r = Request("list", q)
    OBVIOUS
  <2>3. r \in CallType /\ r.st = "sent" /\ r.op = "list" /\ r.page = q /\ r.newest = TRUE /\ ~r.asks
    BY <2>2, RequestOK DEF Read
  <2>4. Become(c, r) /\ page[q].open /\ page' = Closed(c)
    BY <1>4, <2>1, <2>2 DEF onSuccess, IInv, Placed
  <2>5. /\ call' \in [Call -> CallType] /\ call'[c] = r
        /\ \A d \in Call \ {c} :
             /\ Same(call[d], call'[d]) /\ Left(c, call[d], call'[d])
             /\ call'[d].newest = (call[d].newest /\ ~(r.op = "list" /\ call[d].page = r.page))
    BY <2>3, <2>4, BecomeOK DEF IInv
  <2>6. page' \in [Page -> PageType] /\ (\A p \in Page : Alike(page[p], page'[p])) /\ Closing(c, page')
    BY <2>4, ClosedOK DEF IInv
  <2>7. Types'
    BY <1>1, <2>5, <2>6 DEF IInv, Types, server
  <2>8. (\A d \in Call : Placed(d)') /\ Single'
    <3>1. Placed(c)'
      BY <1>1, <2>3, <2>4, <2>5, <2>6 DEF Placed, Read, Alike
    <3>2. Others(c) /\ \A d \in Call \ {c} : call'[d].page = call'[c].page => ~call'[d].newest
      BY <2>3, <2>5 DEF Others, Same
    <3>3. \A p \in Page : page[p].open => page'[p].open
      BY <2>6 DEF Alike
    <3> QED BY <2>7, <3>1, <3>2, <3>3, CallsOK
  <2>9. \A d \in Call : Asking(d)'
    BY <2>3, <2>5, <2>6, AskingKept
  <2>10. Founded'
    BY <1>1, <2>3, <2>5, <2>6, FoundedKept DEF Same, server, Read, Alike, Closing
  <2>11. ASSUME NEW p \in Page PROVE PageOK(p)'
    <3>1. Listed' = Listed
      BY <1>1 DEF server, Listed, Row
    <3>2. CASE p = q
      <4>1. c \in Of(p)' /\ Refresh(c)'
        BY <2>3, <2>5, <3>2 DEF Of, Refresh
      <4>2. ShownOK(p)'
        BY <4>1 DEF ShownOK
      <4>3. ReadOK(p)'
        BY <2>3, <2>5, <3>2 DEF ReadOK, Of, Same
      <4>4. \A op \in Read : Wants(p, op) => Wants(p, op)'
        BY <1>1, <2>5 DEF Wants, Of, Same
      <4>5. \A d \in Of(p)' : call'[d].st = "creating" => d \in Of(p) /\ call[d].st = "creating"
        BY <2>3, <2>5 DEF Of, Same
      <4>6. OpenOK(p)'
        BY <1>1, <2>6, <4>4, <4>5 DEF IInv, PageOK, OpenOK, Read, server, Alike
      <4> QED BY <4>2, <4>3, <4>6 DEF PageOK
    <3>3. CASE p # q
      <4>1. \A d \in Of(p) : Stays(p, d)
        BY <2>1, <2>3, <2>5, <3>3 DEF Stays, Of, Refresh, Changes, Same
      <4>2. \A d \in Of(p)' : Comes(p, d)
        BY <2>3, <2>5, <3>3 DEF Comes, Of, Same
      <4> QED BY <1>1, <2>6, <3>1, <4>1, <4>2, PageKept DEF IInv, server
    <3> QED BY <3>2, <3>3
  <2> QED BY <2>7, <2>8, <2>9, <2>10, <2>11 DEF IInv
<1> QED BY <1>2, <1>3, <1>4

\* What was written fails, or its answer is lost.
LEMMA FailureStep ==
  ASSUME IInv, ProjectItemsAssumption, NEW c \in Call, onFailure(c)
  PROVE  IInv'
<1>1. CASE call[c].st = "done"
  BY <1>1, UnloadedStep DEF onFailure
<1>2. CASE call[c].st # "done"
  BY <1>2, SilentStep DEF onFailure, Changes
<1> QED BY <1>1, <1>2

\* What is written is executed, and other pages do not learn of it.
LEMMA WriteStep ==
  ASSUME IInv, ProjectItemsAssumption, NEW c \in Call, createNode(c) \/ editNode(c) \/ deleteNode(c)
  PROVE  IInv'
<1>1. /\ call[c].st = "sent" /\ call[c].op \in Write /\ Changed(c, Executed(c))
      /\ UNCHANGED <<kind, container>> /\ call[c].op \notin Read
      /\ items' \subseteq made' /\ made' \subseteq Item /\ edited' \subseteq made'
  BY DEF createNode, editNode, deleteNode, Write, Read, IInv, Types
<1>2. made' # {} => container'
  BY DEF createNode, editNode, deleteNode, IInv, Types, Founded
<1>3. ~call[c].newest /\ call[c] \in CallType
  BY <1>1 DEF IInv, Placed, Types, Read
<1>4. PICK n : n = Executed(c)
  OBVIOUS
<1>5. /\ n \in [Call -> CallType]
      /\ \A d \in Call \ {c} : n[d] = call[d]
      /\ call[c].page = NoPage => n[c] = Idle
      /\ call[c].page # NoPage => n[c] = [call[c] EXCEPT !.st = "done"]
  <2>1. [call[c] EXCEPT !.st = "done"] \in CallType
    BY <1>3 DEF CallType
  <2> QED BY <1>4, <2>1, RequestOK DEF Executed, IInv, Types
<1>6. /\ \A d \in Call : call'[d] = IF n[d].page \in Unseen(c) THEN [n[d] EXCEPT !.newest = FALSE] ELSE n[d]
      /\ call' = [d \in Call |-> call'[d]]
  BY <1>1, <1>4 DEF Changed
<1>7. /\ call' \in [Call -> CallType]
      /\ \A d \in Call : /\ Same(n[d], call'[d]) /\ call'[d].newest = (n[d].newest /\ n[d].page \notin Unseen(c))
                         /\ call'[d].asks = n[d].asks
  <2>1. ASSUME NEW d \in Call
        PROVE  /\ call'[d] \in CallType /\ Same(n[d], call'[d]) /\ call'[d].newest = (n[d].newest /\ n[d].page \notin Unseen(c))
               /\ call'[d].asks = n[d].asks
    <3>1. n[d] \in CallType /\ n[d].newest \in BOOLEAN
      BY <1>5 DEF CallType
    <3>2. CASE n[d].page \in Unseen(c)
      <4>1. call'[d] = [n[d] EXCEPT !.newest = FALSE]
        BY <1>6, <3>2
      <4> QED BY <3>1, <3>2, <4>1 DEF CallType, Same
    <3>3. CASE n[d].page \notin Unseen(c)
      <4>1. call'[d] = n[d]
        BY <1>6, <3>3
      <4> QED BY <3>1, <3>3, <4>1 DEF Same
    <3> QED BY <3>2, <3>3
  <2> QED BY <1>6, <2>1
<1>8. /\ Others(c) /\ \A d \in Call \ {c} : call'[d].asks = call[d].asks
      /\ \A d \in Call \ {c} : call'[d].newest = (call[d].newest /\ call[d].page \notin Unseen(c))
  BY <1>5, <1>7 DEF Others, IInv, Types, CallType
<1>9. /\ ~call'[c].newest
      /\ call[c].page = NoPage => call'[c].st = "idle" /\ call'[c].op = "list" /\ call'[c].page = NoPage
      /\ call[c].page # NoPage => call'[c].st = "done" /\ call'[c].op = call[c].op /\ call'[c].page = call[c].page
      /\ call'[c].asks => call[c].asks /\ call[c].page # NoPage /\ call'[c].item = call[c].item
  BY <1>3, <1>5, <1>7, RequestOK DEF Same, CallType
<1>10. page' = [p \in Page |-> page'[p]] /\ Unseen(c) \subseteq Page
  BY <1>1 DEF Changed, Unseen
<1>11. ASSUME NEW p \in Page
       PROVE  /\ page'[p] \in PageType /\ page'[p].open = page[p].open
              /\ page'[p].button = page[p].button /\ page'[p].headerButton = page[p].headerButton
              /\ page'[p].drawn = page[p].drawn /\ page'[p].excused = page[p].excused /\ page'[p].rows = page[p].rows
              /\ page'[p].prompt = page[p].prompt
              /\ p \in Unseen(c) => page'[p].outdated
              /\ p \notin Unseen(c) => page'[p].outdated = page[p].outdated
  <2>1. page'[p] = IF p \in Unseen(c) THEN [page[p] EXCEPT !.outdated = TRUE] ELSE page[p]
    BY <1>1 DEF Changed
  <2>2. page[p] \in PageType
    BY DEF IInv, Types
  <2> QED BY <2>1, <2>2 DEF PageType
<1>12. Types'
  BY <1>1, <1>2, <1>7, <1>10, <1>11 DEF IInv, Types
<1>13. (\A d \in Call : Placed(d)') /\ Single'
  <2>1. Placed(c)'
    BY <1>1, <1>3, <1>9, <1>11, ProjectItemsAssumption DEF IInv, Placed, CallType
  <2> QED BY <1>8, <1>9, <1>11, <1>12, <2>1, CallsOK
<1>14. Founded'
  BY <1>1, <1>8, <1>9, <1>11, FoundedKept DEF Others, Same, Read
<1>15. ASSUME NEW p \in Page PROVE PageOK(p)'
  <2>1. \A d \in Of(p) \ {c} : d \in Of(p)' /\ call'[d].op = call[d].op
    BY <1>8 DEF Of, Others, Same
  <2>2. \A d \in Of(p)' : call'[d].st = "creating" => d \in Of(p) /\ call[d].st = "creating"
    BY <1>8, <1>9 DEF Of, Others, Same
  <2>3. \A op \in Read : Wants(p, op) => Wants(p, op)'
    BY <1>1, <2>1 DEF Wants
  <2>4. OpenOK(p)'
    BY <1>1, <1>11, <2>2, <2>3 DEF IInv, PageOK, OpenOK, Read
  <2>5. ShownOK(p)'
    <3> SUFFICES ASSUME p \notin Unseen(c) PROVE \E d \in Of(p)' : Refresh(d)'
      BY <1>11 DEF ShownOK
    <3>1. p = call[c].page /\ call[c].op # "headerAdd"
      BY DEF Unseen
    <3>2. c \in Of(p)' /\ call'[c].st = "done" /\ call'[c].op \in {"add", "edit", "delete"}
      BY <1>1, <1>9, <3>1, ProjectItemsAssumption DEF Of, Write
    <3> QED BY <3>2 DEF Refresh, Changes
  <2>6. ReadOK(p)'
    <3>1. CASE p \in Unseen(c)
      <4>1. ASSUME NEW d \in Call \ {c}, call'[d].page = p PROVE ~call'[d].newest
        BY <1>8, <3>1, <4>1 DEF Others, Same
      <4> QED BY <1>9, <4>1 DEF ReadOK, Of
    <3>2. CASE p \notin Unseen(c)
      <4>1. p = call[c].page /\ call[c].op # "headerAdd"
        BY <3>2 DEF Unseen
      <4>2. c \in Of(p)' /\ Changes(c)'
        BY <1>1, <1>9, <4>1, ProjectItemsAssumption DEF Of, Changes, Write
      <4> QED BY <4>2 DEF ReadOK
    <3> QED BY <3>1, <3>2
  <2> QED BY <2>4, <2>5, <2>6 DEF PageOK
<1>16. ASSUME NEW d \in Call, call'[d].asks PROVE Asking(d)'
  <2>1. call[d].asks /\ call'[d].op = call[d].op /\ call'[d].page = call[d].page /\ call'[d].item = call[d].item
    BY <1>8, <1>9, <1>16 DEF Others, Same
  <2> QED BY <1>11, <2>1 DEF IInv, Asking
<1>17. \A d \in Call : Asking(d)'
  BY <1>16 DEF Asking
<1> QED BY <1>12, <1>13, <1>14, <1>15, <1>17 DEF IInv

\* A page is opened and sends its requests.
LEMMA ReadyStep ==
  ASSUME IInv, ProjectItemsAssumption, NEW p \in Page, onReady(p)
  PROVE  IInv'
<1>1. PICK reads : reads = IF kind = "conversations" THEN Read ELSE Read \ {"header"}
  OBVIOUS
<1>2. PICK f \in [reads -> {c \in Call : Free(c)}] :
        /\ \A a, b \in DOMAIN f : f[a] = f[b] => a = b
        /\ call' = [c \in Call |-> IF \E op \in DOMAIN f : f[op] = c
                                   THEN Request(CHOOSE op \in DOMAIN f : f[op] = c, p) ELSE call[c]]
  BY <1>1 DEF onReady
<1>3. DOMAIN f = reads /\ reads \subseteq Read
  BY <1>1, <1>2
<1>4. ASSUME NEW op \in reads
      PROVE  f[op] \in Call /\ Free(f[op]) /\ call'[f[op]] = Request(op, p)
  <2>1. f[op] \in Call /\ Free(f[op])
    BY <1>2
  <2>2. (CHOOSE o \in DOMAIN f : f[o] = f[op]) = op
    BY <1>2, <1>3
  <2> QED BY <1>2, <1>3, <2>1, <2>2
<1>5. ASSUME NEW c \in Call, \A op \in reads : f[op] # c
      PROVE  call'[c] = call[c]
  BY <1>2, <1>3, <1>5
<1>6. /\ ~page[p].open /\ UNCHANGED <<kind, server>>
      /\ page' = [page EXCEPT ![p] = [NewPage EXCEPT !.open = TRUE, !.excused = ~container]]
  BY DEF onReady
<1>7. /\ page'[p] \in PageType /\ page'[p].open /\ ~page'[p].button /\ ~page'[p].headerButton
      /\ page'[p].outdated /\ (page'[p].excused <=> ~container) /\ page'[p].prompt = NoItem
      /\ \A q \in Page \ {p} : page'[q] = page[q]
  <2>1. PICK v : v = [NewPage EXCEPT !.open = TRUE, !.excused = ~container]
    OBVIOUS
  <2>2. page'[p] = v /\ \A q \in Page \ {p} : page'[q] = page[q]
    BY <1>6, <2>1 DEF IInv, Types
  <2>3. container \in BOOLEAN
    BY DEF IInv, Types
  <2>4. v \in PageType /\ v.open /\ ~v.button /\ ~v.headerButton /\ v.outdated /\ (v.excused <=> ~container)
        /\ v.prompt = NoItem
    BY <2>1, <2>3 DEF PageType, NewPage
  <2> QED BY <2>2, <2>4
<1>8. ASSUME NEW c \in Call
      PROVE  /\ call'[c] \in CallType
             /\ \/ \E op \in reads : call'[c] = Request(op, p) /\ c = f[op] /\ call[c].st = "idle"
                \/ call'[c] = call[c]
  <2>1. CASE \E op \in reads : f[op] = c
    BY <1>3, <1>4, <2>1, RequestOK DEF Free
  <2>2. CASE \A op \in reads : f[op] # c
    BY <1>5, <2>2 DEF IInv, Types
  <2> QED BY <2>1, <2>2
<1>9. Types'
  <2>1. page' \in [Page -> PageType]
    BY <1>6, <1>7 DEF IInv, Types
  <2>2. call' = [c \in Call |-> call'[c]]
    BY <1>2
  <2> QED BY <1>6, <1>8, <2>1, <2>2 DEF IInv, Types, server
<1>10. \A c \in Call : call[c].page # p
  BY <1>6 DEF IInv, Placed
<1>11. ASSUME NEW c \in Call
       PROVE  /\ call'[c].page = p => /\ call'[c].st = "sent" /\ call'[c].op \in Read
                                      /\ call'[c].newest = (call'[c].op = "list") /\ c = f[call'[c].op]
              /\ call'[c].page # p => call'[c] = call[c]
  <2>1. CASE call'[c] = call[c]
    BY <1>10, <2>1
  <2>2. ASSUME NEW op \in reads, call'[c] = Request(op, p), c = f[op]
        PROVE  /\ call'[c].page = p /\ call'[c].st = "sent" /\ call'[c].op = op
               /\ call'[c].newest = (call'[c].op = "list")
    BY <1>3, <2>2, RequestOK
  <2> QED BY <1>3, <1>8, <2>1, <2>2
<1>12. ASSUME NEW c \in Call PROVE Placed(c)'
  <2>1. CASE call'[c].page = p
    <3>1. call'[c].st = "sent" /\ call'[c].op \in Read /\ (call'[c].newest => call'[c].op = "list")
      BY <1>11, <2>1
    <3> QED BY <1>7, <2>1, <3>1 DEF Placed, Read
  <2>2. CASE call'[c].page # p
    <3>1. call'[c] = call[c] /\ Placed(c)
      BY <1>11, <2>2 DEF IInv
    <3> QED BY <1>7, <2>2, <3>1 DEF Placed
  <2> QED BY <2>1, <2>2
<1>13. ASSUME NEW c \in Call, NEW d \in Call, call'[c].newest, call'[d].newest, call'[c].page = call'[d].page
       PROVE  c = d
  <2>1. CASE call'[c].page = p
    <3>1. call'[c].op = "list" /\ call'[d].op = "list"
      BY <1>12, <1>13 DEF Placed
    <3>2. c = f[call'[c].op]
      BY <1>11, <2>1
    <3>3. d = f[call'[d].op]
      BY <1>11, <1>13, <2>1
    <3> QED BY <3>1, <3>2, <3>3
  <2>2. CASE call'[c].page # p
    <3>1. call'[c] = call[c] /\ call'[d] = call[d]
      BY <1>11, <1>13, <2>2
    <3> QED BY <1>13, <3>1 DEF IInv, Single
  <2> QED BY <2>1, <2>2
<1>14. Founded'
  BY <1>6, <1>7, <1>11 DEF IInv, Founded, server, Read
<1>15. PageOK(p)'
  <2>1. \A op \in reads : Wants(p, op)'
    BY <1>3, <1>4, RequestOK DEF Wants, Of
  <2>2. OpenOK(p)'
    BY <1>1, <1>6, <1>7, <1>11, <2>1 DEF OpenOK, Of, Read, server
  <2>3. ShownOK(p)'
    BY <1>7 DEF ShownOK
  <2>4. ReadOK(p)'
    BY <1>11 DEF ReadOK, Of
  <2> QED BY <2>2, <2>3, <2>4 DEF PageOK
<1>16. ASSUME NEW q \in Page \ {p} PROVE PageOK(q)'
  <2>1. \A c \in Of(q) : c \in Of(q)' /\ call'[c] = call[c]
    BY <1>8, ProjectItemsAssumption DEF Of, IInv, Placed
  <2>2. \A c \in Of(q)' : c \in Of(q) /\ call'[c] = call[c]
    BY <1>11 DEF Of
  <2>3. Listed' = Listed
    BY <1>6 DEF server, Listed, Row
  <2>4. \A c \in Of(q) : Stays(q, c)
    BY <2>1 DEF Stays, Refresh, Changes
  <2>5. \A c \in Of(q)' : Comes(q, c)
    BY <2>2 DEF Comes
  <2>6. Alike(page[q], page'[q])
    BY <1>7 DEF Alike
  <2> QED BY <1>6, <2>3, <2>4, <2>5, <2>6, PageKept DEF IInv, server
<1>17. ASSUME NEW c \in Call PROVE Asking(c)'
  <2>1. CASE call'[c] = call[c]
    <3>1. call[c].asks => call[c].page # p
      BY <1>10
    <3> QED BY <1>7, <2>1, <3>1 DEF IInv, Asking
  <2>2. CASE \E op \in reads : call'[c] = Request(op, p)
    BY <1>3, <2>2, RequestOK DEF Asking
  <2> QED BY <1>8, <2>1, <2>2
<1> QED BY <1>9, <1>12, <1>13, <1>14, <1>15, <1>16, <1>17 DEF IInv, Single

\* A page is left.
LEMMA LeaveStep ==
  ASSUME IInv, ProjectItemsAssumption, NEW p \in Page, Leave(p)
  PROVE  IInv'
<1>1. /\ UNCHANGED <<kind, server>> /\ page' = [page EXCEPT ![p] = NewPage]
      /\ call' = [c \in Call |->
           IF c \notin Of(p) THEN call[c]
           ELSE IF call[c].op \in Write /\ call[c].st = "sent" THEN [call[c] EXCEPT !.page = NoPage, !.asks = FALSE]
           ELSE Idle]
  BY DEF Leave
<1>2. /\ page'[p] \in PageType /\ ~page'[p].open /\ ~page'[p].button /\ ~page'[p].headerButton /\ page'[p].rows = {}
      /\ page'[p].prompt = NoItem
      /\ \A q \in Page \ {p} : page'[q] = page[q]
  <2>1. /\ NewPage \in PageType /\ ~NewPage.open /\ ~NewPage.button /\ ~NewPage.headerButton /\ NewPage.rows = {}
        /\ NewPage.prompt = NoItem
    BY DEF NewPage, PageType
  <2> QED BY <1>1, <2>1 DEF IInv, Types
<1>3. ASSUME NEW c \in Call
      PROVE  /\ call'[c] \in CallType
             /\ call[c].page # p => call'[c] = call[c]
             /\ call[c].page = p => /\ call'[c].page = NoPage /\ ~call'[c].newest /\ ~call'[c].asks
                                    /\ \/ call'[c].st = "idle" /\ call'[c].op = "list"
                                       \/ call'[c].st = "sent" /\ call'[c].op = call[c].op /\ call[c].op \in Write
  <2>1. call[c] \in CallType /\ (call[c].newest => call[c].op = "list")
    BY DEF IInv, Types, Placed
  <2>2. CASE call[c].page # p
    BY <1>1, <2>1, <2>2 DEF Of
  <2>3. CASE call[c].page = p /\ call[c].op \in Write /\ call[c].st = "sent"
    <3>1. call'[c] = [call[c] EXCEPT !.page = NoPage, !.asks = FALSE]
      BY <1>1, <2>3 DEF Of
    <3> QED BY <2>1, <2>3, <3>1, ProjectItemsAssumption DEF CallType, Write
  <2>4. CASE call[c].page = p /\ ~(call[c].op \in Write /\ call[c].st = "sent")
    <3>1. call'[c] = Idle
      BY <1>1, <2>4 DEF Of
    <3> QED BY <2>4, <3>1, RequestOK
  <2> QED BY <2>2, <2>3, <2>4
<1>4. Types'
  <2>1. page' \in [Page -> PageType]
    BY <1>1, <1>2 DEF IInv, Types
  <2>2. call' = [c \in Call |-> call'[c]]
    BY <1>1
  <2> QED BY <1>1, <1>3, <2>1, <2>2 DEF IInv, Types, server
<1>5. ASSUME NEW c \in Call PROVE Placed(c)'
  <2>1. CASE call[c].page = p
    BY <1>3, <2>1, ProjectItemsAssumption DEF Placed, Write, Read
  <2>2. CASE call[c].page # p
    <3>1. call'[c] = call[c] /\ Placed(c)
      BY <1>3, <2>2 DEF IInv
    <3> QED BY <1>2, <2>2, <3>1 DEF Placed
  <2> QED BY <2>1, <2>2
<1>6. ASSUME NEW c \in Call, NEW d \in Call, call'[c].newest, call'[d].newest, call'[c].page = call'[d].page
      PROVE  c = d
  <2>1. call'[c] = call[c] /\ call'[d] = call[d]
    BY <1>3, <1>6
  <2> QED BY <1>6, <2>1 DEF IInv, Single
<1>7. Founded'
  <2>1. ASSUME NEW c \in Call, (call'[c].op \in Read /\ call'[c].st = "done") \/ call'[c].op \in {"add", "headerAdd"}
        PROVE  container
    <3>1. (call[c].op \in Read /\ call[c].st = "done") \/ call[c].op \in {"add", "headerAdd"}
      BY <1>3, <2>1 DEF Read, Write
    <3> QED BY <3>1 DEF IInv, Founded
  <2>2. \A q \in Page : /\ page'[q].button \/ page'[q].headerButton => container
                        /\ page'[q].button \/ page'[q].headerButton \/ page'[q].rows # {} => page'[q].open
                        /\ page'[q].prompt # NoItem => page'[q].open
    BY <1>2 DEF IInv, Founded
  <2> QED BY <1>1, <2>1, <2>2 DEF Founded, server
<1>8. PageOK(p)'
  <2>1. ReadOK(p)'
    BY <1>3, ProjectItemsAssumption DEF ReadOK, Of
  <2> QED BY <1>2, <2>1 DEF PageOK, ShownOK, OpenOK
<1>9. ASSUME NEW q \in Page \ {p} PROVE PageOK(q)'
  <2>1. \A c \in Of(q) : c \in Of(q)' /\ call'[c] = call[c]
    BY <1>3 DEF Of
  <2>2. \A c \in Of(q)' : c \in Of(q) /\ call'[c] = call[c]
    BY <1>3, ProjectItemsAssumption DEF Of
  <2>3. Listed' = Listed
    BY <1>1 DEF server, Listed, Row
  <2>4. \A c \in Of(q) : Stays(q, c)
    BY <2>1 DEF Stays, Refresh, Changes
  <2>5. \A c \in Of(q)' : Comes(q, c)
    BY <2>2 DEF Comes
  <2>6. Alike(page[q], page'[q])
    BY <1>2 DEF Alike
  <2> QED BY <1>1, <2>3, <2>4, <2>5, <2>6, PageKept DEF IInv, server
<1>10. ASSUME NEW c \in Call PROVE Asking(c)'
  <2>1. CASE call[c].page = p
    BY <1>3, <2>1 DEF Asking
  <2>2. CASE call[c].page # p
    BY <1>2, <1>3, <2>2 DEF IInv, Asking
  <2> QED BY <2>1, <2>2
<1> QED BY <1>4, <1>5, <1>6, <1>7, <1>8, <1>9, <1>10 DEF IInv, Single

-----------------------------------------------------------------------------
(* The theorems.                                                           *)

\* No page is open.
LEMMA Begin ==
  ASSUME Init, ProjectItemsAssumption
  PROVE  IInv
<1>1. /\ NewPage \in PageType /\ ~NewPage.open /\ ~NewPage.button /\ ~NewPage.headerButton /\ NewPage.rows = {}
      /\ NewPage.prompt = NoItem
  BY DEF NewPage, PageType
<1>2. (\A p \in Page : page[p] = NewPage) /\ \A c \in Call : call[c] = Idle
  BY DEF Init
<1>3. Types
  <2>1. kind \in Kind /\ container \in BOOLEAN /\ edited \subseteq made /\ items \subseteq made
    BY DEF Init
  <2>2. made \subseteq Item /\ (made # {} => container)
    BY DEF Init
  <2> QED BY <1>1, <2>1, <2>2, RequestOK DEF Init, Types
<1>4. (\A c \in Call : Placed(c) /\ Asking(c)) /\ Single /\ Founded
  BY <1>1, <1>2, RequestOK, ProjectItemsAssumption DEF Placed, Asking, Single, Founded
<1>5. ASSUME NEW p \in Page PROVE PageOK(p)
  <2>1. ReadOK(p)
    BY <1>2, RequestOK DEF ReadOK, Of
  <2> QED BY <1>1, <1>2, <2>1 DEF PageOK, ShownOK, OpenOK
<1> QED BY <1>3, <1>4, <1>5 DEF IInv

\* Every step keeps the invariant.
LEMMA Step ==
  ASSUME IInv, ProjectItemsAssumption, [Next]_vars
  PROVE  IInv'
<1>1. ASSUME NEW p \in Page, onReady(p) \/ Leave(p) \/ onDeleteItem(p) \/ cancelDelete(p) PROVE IInv'
  BY <1>1, ReadyStep, LeaveStep, PromptStep
<1>2. ASSUME NEW p \in Page, NEW c \in Call, onAddItemClick(p, c) \/ onEditItem(p, c) \/ confirmDelete(p, c)
      PROVE  IInv'
  BY <1>2, SubmitStep
<1>3. ASSUME NEW c \in Call, getContainer(c) \/ createContainer(c) PROVE IInv'
  BY <1>3, ServerStep
<1>4. ASSUME NEW c \in Call, FailRead(c) PROVE IInv'
  BY <1>4, FailStep
<1>5. ASSUME NEW c \in Call, onContainer(c) \/ doBeforeLoadData(c) PROVE IInv'
  BY <1>5, AnswerStep
<1>6. ASSUME NEW c \in Call, createNode(c) \/ editNode(c) \/ deleteNode(c) PROVE IInv'
  BY <1>6, WriteStep
<1>7. ASSUME NEW c \in Call, onSuccess(c) PROVE IInv'
  BY <1>7, SuccessStep
<1>8. ASSUME NEW c \in Call, onFailure(c) PROVE IInv'
  BY <1>8, FailureStep
<1>9. ASSUME UNCHANGED vars PROVE IInv'
  BY <1>9 DEF IInv, Types, Placed, Single, Founded, PageOK, ReadOK, ShownOK, OpenOK, Wants, Of, Asking, Refresh, Changes, Listed, Row, vars, server
<1> QED BY <1>1, <1>2, <1>3, <1>4, <1>5, <1>6, <1>7, <1>8, <1>9 DEF Next

\* So it always holds.
LEMMA Always == Spec => []IInv
<1>1. Init => IInv
  BY Begin, ProjectItemsAssumption
<1>2. IInv /\ [Next]_vars => IInv'
  BY Step, ProjectItemsAssumption
<1> QED BY <1>1, <1>2, PTL DEF Spec

\* The state of a project's checklists, contacts or conversations and of the pages
\* that show them keeps its shape: nothing is in a folder that was not made, and one
\* list of a page at most is the newest.
THEOREM Typing == Spec => []TypeOK
<1>1. IInv => TypeOK
  BY DEF IInv, Types, TypeOK, Placed, Asking, Single, CallType, PageType
<1> QED BY <1>1, Always, ProjectItemsAssumption, PTL

\* When nothing is under way, a list (onSuccess of the add, edit and delete handlers)
\* shows all that its page did, unless it is known to be older.
THEOREM OwnItemsAreShown == Spec => []ListShowsOwnChanges
<1>1. IInv => ListShowsOwnChanges
  BY DEF IInv, PageOK, ShownOK, ListShowsOwnChanges
<1> QED BY <1>1, Always, ProjectItemsAssumption, PTL

\* A page that is opened when the folder is there (getContainer) gets its buttons and
\* its list once its requests are answered, unless one of them is lost.
THEOREM ExistingFolderOpens == Spec => []OpensOnceThere
<1>1. IInv => OpensOnceThere
  BY DEF IInv, PageOK, OpenOK, Wants, OpensOnceThere, Read
<1> QED BY <1>1, Always, ProjectItemsAssumption, PTL
=============================================================================
