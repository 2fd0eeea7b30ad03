------------------------- MODULE WfSchedulerProofs -------------------------
(***************************************************************************)
(* Type correctness of the scheduler, the theorem that an acknowledged     *)
(* schedule is neither lost nor run twice while its author does not save,  *)
(* and the refinement: the scheduler implements SchedulerPromise.          *)
(*                                                                         *)
(* Then the entries themselves, which WfScheduler only knows by the hours  *)
(* in which they fire: for a calendar of any size, an expression survives  *)
(* being drawn in the widget and read back, and, unless it is yearly, the  *)
(* job finds it due exactly in the hours that were chosen.                 *)
(***************************************************************************)
EXTENDS WfScheduler, CronExpression, TLAPS

\* The records of an idle connection and of an idle thread are well typed,
\* and stay so when the fields a step sets get values of their types.
LEMMA Zero == 0 \in 0 .. NewNode /\ 0 \in 0 .. MaxNodes /\ 0 \in Slot
BY ConstantsAssumption DEF NewNode, Slot

LEMMA NodeRange == ASSUME NEW n \in Node
                   PROVE  n \in 0 .. NewNode /\ n \in 0 .. MaxNodes
                          /\ NewNode \in 0 .. NewNode
BY ConstantsAssumption DEF NewNode, Node

LEMMA IdleTypes == IdleConn \in ConnState /\ IdleRun \in RunState
<1>1. IdleConn \in ConnState
  BY Zero DEF IdleConn, ConnState
<1>2. IdleRun \in RunState
  BY Zero DEF IdleRun, RunState
<1>3. QED
  BY <1>1, <1>2

LEMMA SentType ==
  ASSUME NEW k \in {"read", "write", "save"}, NEW u \in User, NEW b \in SUBSET Entry
  PROVE  [IdleConn EXCEPT !.kind = k, !.user = u, !.body = b] \in ConnState
BY Zero DEF IdleConn, ConnState

LEMMA ConnType ==
  ASSUME NEW r \in ConnState, NEW n \in 0 .. NewNode, NEW x \in SUBSET Entry
  PROVE  /\ [r EXCEPT !.node = n, !.seen = x] \in ConnState
         /\ [r EXCEPT !.node = n, !.seen = x, !.stale = FALSE] \in ConnState
         /\ [r EXCEPT !.stale = TRUE] \in ConnState
BY DEF ConnState

LEMMA RunType ==
  ASSUME NEW r \in RunState, NEW n \in 0 .. MaxNodes, NEW x \in SUBSET Entry,
         NEW t \in SUBSET Node
  PROVE  /\ [r EXCEPT !.todo = t] \in RunState
         /\ [r EXCEPT !.todo = t, !.node = n, !.seen = x] \in RunState
         /\ [r EXCEPT !.todo = t, !.node = n, !.seen = x, !.stale = FALSE] \in RunState
         /\ [r EXCEPT !.node = n, !.seen = x] \in RunState
         /\ [r EXCEPT !.stale = TRUE] \in RunState
BY DEF RunState

LEMMA TouchedTypes ==
  ASSUME TypeOK, NEW n
  PROVE  /\ \A c \in Conn : ConnTouched(c, n) \in ConnState
         /\ \A w \in Worker : RunTouched(w, n) \in RunState
         /\ \A c \in Conn : /\ ConnTouched(c, n).kind = conn[c].kind
                           /\ ConnTouched(c, n).user = conn[c].user
<1>1. ASSUME NEW c \in Conn PROVE ConnTouched(c, n) \in ConnState
  <2>1. conn[c] \in ConnState
    BY DEF TypeOK
  <2>2. [conn[c] EXCEPT !.stale = TRUE] \in ConnState
    BY <2>1 DEF ConnState
  <2>3. QED
    BY <2>1, <2>2 DEF ConnTouched
<1>2. ASSUME NEW w \in Worker PROVE RunTouched(w, n) \in RunState
  <2>1. run[w] \in RunState
    BY DEF TypeOK
  <2>2. [run[w] EXCEPT !.stale = TRUE] \in RunState
    BY <2>1 DEF RunState
  <2>3. QED
    BY <2>1, <2>2 DEF RunTouched
<1>3. ASSUME NEW c \in Conn
      PROVE  /\ ConnTouched(c, n).kind = conn[c].kind
             /\ ConnTouched(c, n).user = conn[c].user
  <2>1. conn[c] \in ConnState
    BY DEF TypeOK
  <2>2. QED
    BY <2>1 DEF ConnTouched, ConnState
<1>4. QED
  BY <1>1, <1>2, <1>3

\* Every step of the scheduler keeps every variable in its type.
LEMMA TypeStep == TypeOK /\ [Next]_vars => TypeOK'
<1> SUFFICES ASSUME TypeOK, [Next]_vars PROVE TypeOK'
  OBVIOUS
<1> USE DEF nodeVars, clientVars, clockVars, history
<1>1. ASSUME NEW c \in Conn, NEW j \in Job, NEW k \in Cron, Submit(c, j, k)
      PROVE  TypeOK'
  <2>1. author[j] \in User /\ {[job |-> j, cron |-> k]} \in SUBSET Entry
    BY ConstantsAssumption DEF Entry
  <2>2. [IdleConn EXCEPT !.kind = "write", !.user = author[j], !.body = {[job |-> j, cron |-> k]}] \in ConnState
    BY <2>1, SentType
  <2>3. conn' \in [Conn -> ConnState] /\ sent' \in 0 .. MaxRequests
    BY <1>1, <2>2, ConstantsAssumption DEF Submit, Send, TypeOK
  <2>4. \A d \in Conn : conn'[d].kind # "idle" => conn'[d].user \in User
    BY <1>1, ConstantsAssumption DEF Submit, Send, IdleConn, TypeOK
  <2>5. QED
    BY <1>1, <2>1, <2>2, <2>3, <2>4 DEF Submit, TypeOK
<1>2. ASSUME NEW c \in Conn, NEW u \in User, OpenPage(c, u)
      PROVE  TypeOK'
  <2>1. [IdleConn EXCEPT !.kind = "read", !.user = u, !.body = {}] \in ConnState
    BY SentType
  <2>2. conn' \in [Conn -> ConnState] /\ sent' \in 0 .. MaxRequests
    BY <1>2, <2>1, ConstantsAssumption DEF OpenPage, Send, TypeOK
  <2>3. \A d \in Conn : conn'[d].kind # "idle" => conn'[d].user \in User
    BY <1>2, ConstantsAssumption DEF OpenPage, Send, IdleConn, TypeOK
  <2>4. QED
    BY <1>2, <2>1, <2>2, <2>3 DEF OpenPage, TypeOK
<1>3. ASSUME NEW c \in Conn, NEW u \in User, SaveSchedules(c, u)
      PROVE  TypeOK'
  <2>1. page[u] \in SUBSET Entry
    BY DEF TypeOK
  <2>2. [IdleConn EXCEPT !.kind = "save", !.user = u, !.body = page[u]] \in ConnState
    BY <2>1, SentType
  <2>3. conn' \in [Conn -> ConnState] /\ sent' \in 0 .. MaxRequests
    BY <1>3, <2>2, ConstantsAssumption DEF SaveSchedules, Send, TypeOK
  <2>4. \A d \in Conn : conn'[d].kind # "idle" => conn'[d].user \in User
    BY <1>3, ConstantsAssumption DEF SaveSchedules, Send, IdleConn, TypeOK
  <2>5. QED
    BY <1>3, <2>1, <2>2, <2>3, <2>4 DEF SaveSchedules, TypeOK
<1>4. ASSUME NEW u \in User, NEW e \in Entry, onClickDeleteCron(u, e)
      PROVE  TypeOK'
  BY <1>4 DEF onClickDeleteCron, TypeOK
<1>5. ASSUME NEW u \in User, NEW e \in Entry, NEW k \in Cron, EditCron(u, e, k)
      PROVE  TypeOK'
  <2>1. [e EXCEPT !.cron = k] \in Entry
    BY DEF Entry
  <2>2. QED
    BY <1>5, <2>1 DEF EditCron, TypeOK
<1>6. ASSUME NEW c \in Conn, Locate(c)
      PROVE  TypeOK'
  <2>1. conn[c] \in ConnState
    BY DEF TypeOK
  <2>2. NewNode \in 0 .. NewNode /\ \A n \in Node : n \in 0 .. NewNode /\ content[n] \in SUBSET Entry
    BY NodeRange, ConstantsAssumption DEF TypeOK, NewNode, Node
  <2>3. \A n \in Node : [conn[c] EXCEPT !.node = n, !.seen = content[n]] \in ConnState
    BY <2>1, <2>2, ConnType
  <2>4. [conn[c] EXCEPT !.node = NewNode, !.seen = {}] \in ConnState
    BY <2>1, <2>2, ConnType
  <2>5. conn' \in [Conn -> ConnState]
    BY <1>6, <2>3, <2>4 DEF Locate, TypeOK, Owned
  <2>6. \E n, x : conn' = [conn EXCEPT ![c].node = n, ![c].seen = x]
    BY <1>6 DEF Locate
  <2>7. \A d \in Conn : conn'[d].kind = conn[d].kind /\ conn'[d].user = conn[d].user
    BY <2>6 DEF TypeOK, ConnState
  <2>8. \A d \in Conn : conn'[d].kind # "idle" => conn'[d].user \in User
    BY <2>7 DEF TypeOK
  <2>9. QED
    BY <1>6, <2>1, <2>2, <2>3, <2>4, <2>5, <2>6, <2>7, <2>8 DEF Locate, TypeOK
<1>7. ASSUME NEW c \in Conn, readAllRecordByUser(c)
      PROVE  TypeOK'
  <2>1. conn' \in [Conn -> ConnState]
    BY <1>7, IdleTypes DEF readAllRecordByUser, TypeOK
  <2>2. conn[c].user \in User \cup {NoUser} /\ conn[c].seen \in SUBSET Entry
    BY DEF TypeOK, ConnState
  <2>3. conn[c].user \in User
    BY <1>7 DEF readAllRecordByUser, TypeOK
  <2>4. \A d \in Conn : conn'[d].kind # "idle" => conn'[d].user \in User
    BY <1>7 DEF readAllRecordByUser, IdleConn, TypeOK
  <2>5. owner' \in [Node -> User \cup {NoUser}]
    BY <1>7, <2>2 DEF readAllRecordByUser, TypeOK
  <2>6. QED
    BY <1>7, <2>1, <2>2, <2>3, <2>4, <2>5 DEF readAllRecordByUser, TypeOK
<1>8. ASSUME NEW c \in Conn, NEW n \in Node, writeScheduleInfo(c, n)
      PROVE  TypeOK'
  <2>1. conn' \in [Conn -> ConnState] /\ run' \in [Worker -> RunState]
    BY <1>8, IdleTypes, TouchedTypes DEF writeScheduleInfo
  <2>2. \A d \in Conn : conn'[d].kind # "idle" => conn'[d].user \in User
    BY <1>8, TouchedTypes DEF writeScheduleInfo, IdleConn, TypeOK
  <2>3. conn[c] \in ConnState
    BY DEF TypeOK
  <2>4. conn[c].user \in User \cup {NoUser} /\ conn[c].seen \in SUBSET Entry /\ conn[c].body \in SUBSET Entry
    BY <2>3 DEF ConnState
  <2>5. QED
    BY <1>8, <2>1, <2>2, <2>3, <2>4 DEF writeScheduleInfo, TypeOK
<1>9. ASSUME NEW c \in Conn, NEW n \in Node, updateAllScheduleInfo(c, n)
      PROVE  TypeOK'
  <2>1. conn' \in [Conn -> ConnState] /\ run' \in [Worker -> RunState]
    BY <1>9, IdleTypes, TouchedTypes DEF updateAllScheduleInfo
  <2>2. \A d \in Conn : conn'[d].kind # "idle" => conn'[d].user \in User
    BY <1>9, TouchedTypes DEF updateAllScheduleInfo, IdleConn, TypeOK
  <2>3. conn[c] \in ConnState
    BY DEF TypeOK
  <2>4. conn[c].user \in User \cup {NoUser} /\ conn[c].body \in SUBSET Entry
    BY <2>3 DEF ConnState
  <2>5. QED
    BY <1>9, <2>1, <2>2, <2>3, <2>4 DEF updateAllScheduleInfo, TypeOK
<1>10. ASSUME NEW c \in Conn, RetryRequest(c)
      PROVE  TypeOK'
  <2>1. conn' \in [Conn -> ConnState]
    BY <1>10, ConnType, Zero DEF RetryRequest, TypeOK
  <2>2. conn[c] \in ConnState
    BY DEF TypeOK
  <2>3. \A d \in Conn : conn'[d].kind # "idle" => conn'[d].user \in User
    BY <1>10, <2>2 DEF RetryRequest, ConnState, TypeOK
  <2>4. QED
    BY <1>10, <2>1, <2>2, <2>3 DEF RetryRequest, TypeOK
<1>11. ASSUME NEW c \in Conn, FailRequest(c)
      PROVE  TypeOK'
  <2>1. conn' \in [Conn -> ConnState]
    BY <1>11, IdleTypes DEF FailRequest, TypeOK
  <2>2. \A d \in Conn : conn'[d].kind # "idle" => conn'[d].user \in User
    BY <1>11 DEF FailRequest, IdleConn, TypeOK
  <2>3. QED
    BY <1>11, <2>1, <2>2 DEF FailRequest, TypeOK
<1>12. ASSUME NEW w \in Worker, Fire(w)
      PROVE  TypeOK'
  <2>1. [IdleRun EXCEPT !.active = TRUE, !.slot = now, !.todo = Existing] \in RunState
    BY Zero DEF IdleRun, RunState, TypeOK, Existing
  <2>2. run' \in [Worker -> RunState]
    BY <1>12, <2>1 DEF Fire, TypeOK
  <2>3. fired' \subseteq Server
    BY <1>12, ConstantsAssumption DEF Fire, TypeOK
  <2>4. QED
    BY <1>12, <2>1, <2>2, <2>3 DEF Fire, TypeOK
<1>13. ASSUME NEW w \in Worker, NEW n \in Node, OpenChild(w, n)
      PROVE  TypeOK'
  <2>1. run[w] \in RunState /\ run[w].todo \ {n} \in SUBSET Node /\ content[n] \in SUBSET Entry
    BY DEF TypeOK, RunState
  <2>2. run' \in [Worker -> RunState]
    BY <1>13, <2>1, RunType, NodeRange DEF OpenChild, TypeOK
  <2>3. QED
    BY <1>13, <2>1, <2>2 DEF OpenChild, TypeOK
<1>14. ASSUME NEW w \in Worker, NEW n \in Node, SkipChild(w, n)
      PROVE  TypeOK'
  <2>1. run[w] \in RunState /\ run[w].todo \ {n} \in SUBSET Node
    BY DEF TypeOK, RunState
  <2>2. run' \in [Worker -> RunState]
    BY <1>14, <2>1, RunType, Zero DEF SkipChild, TypeOK
  <2>3. QED
    BY <1>14, <2>1, <2>2 DEF SkipChild, TypeOK
<1>15. ASSUME NEW w \in Worker, NEW n \in Node, AbortWithoutContent(w, n)
      PROVE  TypeOK'
  <2>1. run' \in [Worker -> RunState]
    BY <1>15, IdleTypes DEF AbortWithoutContent, TypeOK
  <2>2. QED
    BY <1>15, <2>1 DEF AbortWithoutContent, TypeOK
<1>16. ASSUME NEW w \in Worker, AbortOnFailure(w)
      PROVE  TypeOK'
  <2>1. run' \in [Worker -> RunState]
    BY <1>16, IdleTypes DEF AbortOnFailure, TypeOK
  <2>2. QED
    BY <1>16, <2>1 DEF AbortOnFailure, TypeOK
<1>17. ASSUME NEW w \in Worker, CommitChild(w)
      PROVE  TypeOK'
  <2>1. run[w] \in RunState /\ run[w].todo \in SUBSET Node /\ run[w].seen \in SUBSET Entry
    BY DEF TypeOK, RunState
  <2>2. [run[w] EXCEPT !.node = 0, !.seen = {}] \in RunState
    BY <2>1, RunType, Zero
  <2>3. run' \in [Worker -> RunState] /\ conn' \in [Conn -> ConnState]
    BY <1>17, <2>2, TouchedTypes DEF CommitChild
  <2>4. startSuitableWorkflow(w) \in SUBSET Entry
    BY <2>1 DEF startSuitableWorkflow
  <2>5. content' \in [Node -> SUBSET Entry] /\ lost' \subseteq Node
    BY <1>17, <2>4 DEF CommitChild, TypeOK
  <2>6. \A j \in Job : starts[j] \in 0 .. 2 /\ More(starts[j]) \in 0 .. 2
    BY DEF TypeOK, More
  <2>7. starts' \in [Job -> 0 .. 2]
    BY <1>17, <2>6 DEF CommitChild
  <2>8. \A d \in Conn : conn'[d].kind # "idle" => conn'[d].user \in User
    BY <1>17, TouchedTypes DEF CommitChild, TypeOK
  <2>9. QED
    BY <1>17, <2>3, <2>5, <2>7, <2>8 DEF CommitChild, TypeOK
<1>18. ASSUME NEW w \in Worker, RetryChild(w)
      PROVE  TypeOK'
  <2>1. run[w] \in RunState /\ run[w].todo \in SUBSET Node /\ run[w].node \in 0 .. MaxNodes
    BY DEF TypeOK, RunState
  <2>2. run[w].todo \cup {run[w].node} \in SUBSET Node
    BY <1>18, <2>1, ConstantsAssumption DEF RetryChild, Node
  <2>3. run' \in [Worker -> RunState]
    BY <1>18, <2>1, <2>2, RunType, Zero DEF RetryChild, TypeOK
  <2>4. QED
    BY <1>18, <2>1, <2>2, <2>3 DEF RetryChild, TypeOK
<1>19. ASSUME NEW w \in Worker, FinishRun(w)
      PROVE  TypeOK'
  <2>1. run' \in [Worker -> RunState]
    BY <1>19, IdleTypes DEF FinishRun, TypeOK
  <2>2. QED
    BY <1>19, <2>1 DEF FinishRun, TypeOK
<1>20. CASE HourPasses
  <2>1. now' \in Slot
    BY <1>20, ConstantsAssumption DEF HourPasses, TypeOK, Slot
  <2>2. QED
    BY <1>20, <2>1 DEF HourPasses, TypeOK
<1>21. ASSUME NEW s \in Server, Crash(s)
      PROVE  TypeOK'
  <2>1. run' \in [Worker -> RunState] /\ conn' \in [Conn -> ConnState]
    BY <1>21, IdleTypes DEF Crash, TypeOK
  <2>2. \A d \in Conn : conn'[d].kind # "idle" => conn'[d].user \in User
    BY <1>21 DEF Crash, IdleConn, TypeOK
  <2>3. QED
    BY <1>21, <2>1, <2>2 DEF Crash, TypeOK
<1>22. ASSUME NEW s \in Server, Restart(s)
      PROVE  TypeOK'
  BY <1>22 DEF Restart, TypeOK
<1>23. ASSUME NEW j \in Breakable, Break(j)
      PROVE  TypeOK'
  BY <1>23, ConstantsAssumption DEF Break, TypeOK
<1>24. ASSUME NEW n \in Node, LoseContent(n)
      PROVE  TypeOK'
  BY <1>24 DEF LoseContent, TypeOK
<1>25. CASE UNCHANGED vars
  BY <1>25 DEF vars, TypeOK
<1>26. QED
  BY <1>1, <1>2, <1>3, <1>4, <1>5, <1>6, <1>7, <1>8, <1>9, <1>10, <1>11,
     <1>12, <1>13, <1>14, <1>15, <1>16, <1>17, <1>18, <1>19, <1>20, <1>21,
     <1>22, <1>23, <1>24, <1>25
     DEF Next, Browser, Serve, startWfByCurrentDate, World

\* The scheduler never leaves its types, whatever the numbers of users,
\* servers, threads and nodes.
THEOREM Typing == Spec => []TypeOK
<1>1. Init => TypeOK
  BY IdleTypes, Zero, ConstantsAssumption DEF Init, IdleConn, TypeOK
<1>2. QED
  BY <1>1, TypeStep, PTL DEF Spec

-----------------------------------------------------------------------------
(***************************************************************************)
(* The inductive invariant behind AckedKept.  AckedKept alone is not       *)
(* inductive: it says nothing of the copies that transactions hold.        *)
(***************************************************************************)

\* Nodes, pages and requests of a user hold entries of that user only, and
\* an overwrite is under way only for users who clicked Save.
OwnEntries ==
  /\ \A n \in Node : \A e \in content[n] : author[e.job] = owner[n]
  /\ \A u \in User : \A e \in page[u] : author[e.job] = u
  /\ \A c \in Conn : \A e \in conn[c].body \cup conn[c].seen : author[e.job] = conn[c].user
  /\ \A c \in Conn : conn[c].kind = "save" => conn[c].user \in saved

\* A transaction that is not stale holds what its node holds.
FreshCopies ==
  /\ \A c \in Conn : conn[c].node \in Node =>
       /\ owner[conn[c].node] = conn[c].user
       /\ ~conn[c].stale => conn[c].seen = content[conn[c].node]
  /\ \A c \in Conn : conn[c].node = NewNode => conn[c].seen = {}
  /\ \A c \in Conn : conn[c].kind = "idle" => conn[c].node = 0
  /\ \A w \in Worker : run[w].node # 0 /\ ~run[w].stale =>
       run[w].seen = content[run[w].node]

\* Submissions are acknowledged once, and nothing of an author who never
\* saved is stored or was started without having been acknowledged.
AckedOnce ==
  /\ \A e, f \in acked : e.job = f.job => e = f
  /\ \A c \in Conn : conn[c].kind = "write" =>
       /\ \A e \in conn[c].body : \A f \in acked : f.job # e.job
       /\ \A e, f \in conn[c].body : e = f
       /\ \A d \in Conn : conn[d].kind = "write" /\ d # c =>
            \A e \in conn[c].body : \A f \in conn[d].body : e.job # f.job
  /\ \A n \in Node : \A e \in content[n] : author[e.job] \notin saved => e \in acked
  /\ \A j \in Job : starts[j] # 0 /\ author[j] \notin saved => \E e \in acked : e.job = j

IInv == TypeOK /\ OwnEntries /\ FreshCopies /\ AckedOnce /\ AckedKept

\* AckedKept and the stored half of AckedOnce speak of nodes, counts and
\* acknowledgements only: a step that leaves these alone keeps them.
LEMMA BookUntouched ==
  ASSUME UNCHANGED <<content, acked, starts>>, saved \subseteq saved', AckedKept
  PROVE  AckedKept'
BY DEF AckedKept, At, isRepeat

LEMMA StoredUntouched ==
  ASSUME UNCHANGED <<content, acked, starts>>, saved \subseteq saved', AckedOnce,
         \A c \in Conn : conn'[c].kind = "write" =>
            conn[c].kind = "write" /\ conn'[c].body = conn[c].body
  PROVE  AckedOnce'
BY DEF AckedOnce

\* What a step that only moves the job along must show.
LEMMA RunStep ==
  ASSUME IInv, UNCHANGED <<owner, content, conn, page, starts, acked, saved>>,
         \A w \in Worker : run'[w].node # 0 /\ ~run'[w].stale =>
            run'[w].seen = content[run'[w].node]
  PROVE  OwnEntries' /\ FreshCopies' /\ AckedOnce' /\ AckedKept'
<1>1. OwnEntries'
  BY DEF IInv, OwnEntries
<1>2. FreshCopies'
  BY DEF IInv, FreshCopies
<1>3. AckedOnce' /\ AckedKept'
  BY BookUntouched, StoredUntouched DEF IInv
<1>4. QED
  BY <1>1, <1>2, <1>3

\* What a step that only moves requests along must show.
LEMMA ConnStep ==
  ASSUME IInv, UNCHANGED <<owner, content, page, run, starts, acked>>, saved \subseteq saved',
         \A c \in Conn :
            \/ conn'[c] = conn[c]
            \/ conn'[c] = IdleConn
            \/ /\ conn'[c].kind = conn[c].kind /\ conn[c].kind # "idle"
               /\ conn'[c].user = conn[c].user
               /\ conn'[c].body = conn[c].body
               /\ \/ conn'[c].node = 0 /\ conn'[c].seen = {}
                  \/ conn'[c].node = NewNode /\ conn'[c].seen = {}
                  \/ /\ conn'[c].node \in Node
                     /\ owner[conn'[c].node] = conn[c].user
                     /\ conn'[c].seen = content[conn'[c].node]
  PROVE  OwnEntries' /\ FreshCopies' /\ AckedOnce' /\ AckedKept'
<1>1. OwnEntries'
  BY DEF IInv, OwnEntries, IdleConn
<1>2. FreshCopies'
  BY ConstantsAssumption DEF IInv, FreshCopies, IdleConn, Node, NewNode
<1>3. AckedOnce' /\ AckedKept'
  BY BookUntouched, StoredUntouched DEF IInv, IdleConn
<1>4. QED
  BY <1>1, <1>2, <1>3

\* A click that sends one request with an unlocated node.
LEMMA SendStep ==
  ASSUME IInv, NEW c \in Conn, NEW u \in User,
         UNCHANGED <<owner, content, page, run, starts, acked>>, saved \subseteq saved',
         conn'[c].user = u, conn'[c].seen = {}, conn'[c].node = 0,
         conn'[c].kind = "save" => u \in saved',
         \A e \in conn'[c].body : author[e.job] = u,
         \A d \in Conn : d # c => conn'[d] = conn[d]
  PROVE  OwnEntries' /\ FreshCopies' /\ AckedKept'
<1>1. ASSUME NEW d \in Conn
      PROVE  /\ \A e \in conn'[d].body \cup conn'[d].seen : author[e.job] = conn'[d].user
             /\ conn'[d].kind = "save" => conn'[d].user \in saved'
  <2>1. CASE d = c
    BY <2>1
  <2>2. CASE d # c
    BY <2>2 DEF IInv, OwnEntries
  <2>3. QED
    BY <2>1, <2>2
<1>2. OwnEntries'
  BY <1>1 DEF IInv, OwnEntries
<1>3. 0 \notin Node /\ 0 # NewNode
  BY ConstantsAssumption DEF Node, NewNode
<1>4. FreshCopies'
  <2>1. ASSUME NEW d \in Conn
        PROVE  /\ conn'[d].node \in Node => d # c
               /\ conn'[d].node = NewNode => d # c
    BY <1>3
  <2>2. QED
    BY <2>1 DEF IInv, FreshCopies
<1>5. AckedKept'
  BY BookUntouched DEF IInv
<1>6. QED
  BY <1>2, <1>4, <1>5

LEMMA SubmitStep ==
  ASSUME IInv, NEW c \in Conn, NEW j \in Job, NEW k \in Cron, Submit(c, j, k)
  PROVE  OwnEntries' /\ FreshCopies' /\ AckedOnce' /\ AckedKept'
<1> DEFINE b == {[job |-> j, cron |-> k]}
<1>1. /\ UNCHANGED <<owner, content, page, run, starts, acked, saved>>
      /\ conn'[c] = [IdleConn EXCEPT !.kind = "write", !.user = author[j], !.body = b]
      /\ \A d \in Conn : d # c => conn'[d] = conn[d]
  BY DEF Submit, Send, nodeVars, history, IInv, TypeOK
<1>2. /\ conn'[c].kind = "write" /\ conn'[c].user = author[j]
      /\ conn'[c].body = b /\ conn'[c].seen = {} /\ conn'[c].node = 0
  BY <1>1 DEF IdleConn
<1>3. /\ b \in SUBSET Entry /\ author[j] \in User
      /\ \A e \in b : e.job = j
      /\ \A e \in b : author[e.job] = author[j]
      /\ \A e, f \in b : e = f
  BY ConstantsAssumption DEF Entry
<1>4. OwnEntries' /\ FreshCopies' /\ AckedKept'
  <2> HIDE DEF b
  <2>1. saved \subseteq saved' /\ (conn'[c].kind = "save" => author[j] \in saved')
    BY <1>1, <1>2
  <2>2. QED
    BY <1>1, <1>2, <1>3, <2>1, SendStep
<1>5. AckedOnce'
  <2> HIDE DEF b
  <2>1. /\ \A e \in acked : e.job # j
        /\ \A d \in Conn : conn[d].kind = "write" => \A e \in conn[d].body : e.job # j
    BY DEF Submit
  <2>2. ASSUME NEW d \in Conn, conn'[d].kind = "write"
        PROVE  /\ \A e \in conn'[d].body : \A f \in acked' : f.job # e.job
               /\ \A e, f \in conn'[d].body : e = f
               /\ \A x \in Conn : conn'[x].kind = "write" /\ x # d =>
                    \A e \in conn'[d].body : \A f \in conn'[x].body : e.job # f.job
    <3>1. CASE d = c
      BY <1>1, <1>2, <1>3, <2>1, <2>2, <3>1
    <3>2. CASE d # c
      <4>1. conn'[d] = conn[d] /\ acked' = acked
        BY <1>1, <3>2
      <4>2. \A e \in conn[d].body : e.job # j
        BY <2>1, <2>2, <4>1
      <4>3. conn[d].kind = "write"
        BY <2>2, <4>1
      <4>4. ASSUME NEW x \in Conn, conn'[x].kind = "write", x # d,
                   NEW e \in conn[d].body, NEW f \in conn'[x].body
            PROVE  e.job # f.job
        <5>1. CASE x = c
          BY <1>2, <1>3, <4>2, <5>1, <4>4
        <5>2. CASE x # c
          BY <1>1, <4>3, <4>4, <5>2 DEF IInv, AckedOnce
        <5>3. QED
          BY <5>1, <5>2
      <4>5. QED
        BY <4>1, <4>3, <4>4 DEF IInv, AckedOnce
    <3>3. QED
      BY <3>1, <3>2
  <2>3. QED
    BY <1>1, <2>2 DEF IInv, AckedOnce
<1>6. QED
  BY <1>4, <1>5

LEMMA OpenPageStep ==
  ASSUME IInv, NEW c \in Conn, NEW u \in User, OpenPage(c, u)
  PROVE  OwnEntries' /\ FreshCopies' /\ AckedOnce' /\ AckedKept'
<1>1. /\ UNCHANGED <<owner, content, page, run, starts, acked, saved>>
      /\ conn'[c] = [IdleConn EXCEPT !.kind = "read", !.user = u, !.body = {}]
      /\ \A d \in Conn : d # c => conn'[d] = conn[d]
  BY DEF OpenPage, Send, nodeVars, history, IInv, TypeOK
<1>2. /\ conn'[c].kind = "read" /\ conn'[c].user = u /\ conn'[c].body = {}
      /\ conn'[c].seen = {} /\ conn'[c].node = 0
  BY <1>1 DEF IdleConn
<1>3. OwnEntries' /\ FreshCopies' /\ AckedKept'
  BY <1>1, <1>2, SendStep
<1>4. AckedOnce'
  BY <1>1, <1>2, StoredUntouched DEF IInv
<1>5. QED
  BY <1>3, <1>4

LEMMA SaveStep ==
  ASSUME IInv, NEW c \in Conn, NEW u \in User, SaveSchedules(c, u)
  PROVE  OwnEntries' /\ FreshCopies' /\ AckedOnce' /\ AckedKept'
<1>1. /\ UNCHANGED <<owner, content, page, run, starts, acked>>
      /\ saved' = saved \cup {u}
      /\ conn'[c] = [IdleConn EXCEPT !.kind = "save", !.user = u, !.body = page[u]]
      /\ \A d \in Conn : d # c => conn'[d] = conn[d]
  BY DEF SaveSchedules, Send, nodeVars, IInv, TypeOK
<1>2. /\ conn'[c].kind = "save" /\ conn'[c].user = u /\ conn'[c].body = page[u]
      /\ conn'[c].seen = {} /\ conn'[c].node = 0
  BY <1>1 DEF IdleConn
<1>3. page[u] \in SUBSET Entry /\ \A e \in page[u] : author[e.job] = u
  BY DEF IInv, TypeOK, OwnEntries
<1>4. OwnEntries' /\ FreshCopies' /\ AckedKept'
  <2>1. saved \subseteq saved' /\ u \in saved'
    BY <1>1
  <2>2. \A e \in conn'[c].body : author[e.job] = u
    BY <1>2, <1>3
  <2>3. /\ conn'[c].user = u /\ conn'[c].seen = {} /\ conn'[c].node = 0
        /\ conn'[c].kind = "save" => u \in saved'
    BY <1>2, <2>1
  <2>4. /\ UNCHANGED <<owner, content, page, run, starts, acked>>
        /\ \A d \in Conn : d # c => conn'[d] = conn[d]
    BY <1>1
  <2>5. QED
    BY <2>1, <2>2, <2>3, <2>4, SendStep
<1>5. AckedOnce'
  BY <1>1, <1>2, StoredUntouched DEF IInv
<1>6. QED
  BY <1>4, <1>5

\* Opening the page may create a node, which is empty.
LEMMA ReadStep ==
  ASSUME IInv, NEW c \in Conn, readAllRecordByUser(c)
  PROVE  OwnEntries' /\ FreshCopies' /\ AckedOnce' /\ AckedKept'
<1>1. /\ UNCHANGED <<content, run, starts, acked, saved>>
      /\ conn'[c] = IdleConn
      /\ \A d \in Conn : d # c => conn'[d] = conn[d]
      /\ page' = [page EXCEPT ![conn[c].user] = conn[c].seen]
  BY DEF readAllRecordByUser, history, IInv, TypeOK
<1>2. conn[c].user \in User
  BY DEF readAllRecordByUser, IInv, TypeOK
<1>3. \A n \in Node : owner[n] # NoUser => owner'[n] = owner[n]
  BY DEF readAllRecordByUser, IsNext, IInv, TypeOK
<1>4. \A n \in Node : \A e \in content[n] : owner[n] # NoUser
  BY ConstantsAssumption DEF IInv, OwnEntries, TypeOK, Entry
<1>5. \A d \in Conn : conn[d].node \in Node => conn[d].user \in User /\ owner[conn[d].node] # NoUser
  BY ConstantsAssumption DEF IInv, FreshCopies, TypeOK, Node
<1>6. OwnEntries'
  BY <1>1, <1>2, <1>3, <1>4 DEF IInv, OwnEntries, IdleConn, TypeOK
<1>7. FreshCopies'
  <2>1. \A d \in Conn : conn'[d].node \in Node =>
          conn'[d] = conn[d] /\ owner'[conn'[d].node] = owner[conn[d].node]
    BY <1>1, <1>3, <1>5 DEF IdleConn, Node
  <2>2. QED
    BY <1>1, <2>1, ConstantsAssumption DEF IInv, FreshCopies, IdleConn, Node, NewNode
<1>8. AckedOnce' /\ AckedKept'
  BY <1>1, BookUntouched, StoredUntouched DEF IInv, IdleConn
<1>9. QED
  BY <1>6, <1>7, <1>8

\* A commit on node n by a request of the node's owner, or on a new node.
LEMMA CommitStep ==
  ASSUME IInv, NEW c \in Conn, NEW n \in Node, conn[c].kind # "idle",
         ~conn[c].stale, Target(c, n)
  PROVE  /\ conn[c].seen = content[n]
         /\ conn[c].user \in User
         /\ owner[n] \in {conn[c].user, NoUser}
         /\ owner[n] = NoUser => content[n] = {}
         /\ \A d \in Conn : conn[d].node = n => owner[n] # NoUser
<1>1. \A e \in content[n] : owner[n] # NoUser
  BY ConstantsAssumption DEF IInv, OwnEntries, TypeOK, Entry
<1>2. n # 0 /\ n # NewNode
  BY ConstantsAssumption DEF Node, NewNode
<1>3. \A d \in Conn : conn[d].node = n => owner[n] # NoUser
  BY <1>2, ConstantsAssumption DEF IInv, FreshCopies, TypeOK
<1>4. conn[c].user \in User
  BY DEF IInv, TypeOK
<1>5. CASE conn[c].node = n
  BY <1>1, <1>3, <1>4, <1>5 DEF IInv, FreshCopies
<1>6. CASE conn[c].node = NewNode /\ IsNext(n)
  <2>1. content[n] = {}
    BY <1>1, <1>6 DEF IsNext
  <2>2. QED
    BY <1>1, <1>3, <1>4, <1>6, <2>1 DEF IInv, FreshCopies, IsNext
<1>7. QED
  BY <1>5, <1>6 DEF Target

\* After a commit on n the copies of n are stale and the others are fresh.
LEMMA TouchedCopies ==
  ASSUME IInv, NEW n \in Node,
         \A m \in Node : m # n => content'[m] = content[m] /\ owner'[m] = owner[m],
         \A d \in Conn : conn[d].node = n => owner'[n] = owner[n],
         \A d \in Conn : conn'[d] \in {IdleConn, ConnTouched(d, n)},
         \A w \in Worker : run'[w] = RunTouched(w, n) \/ run'[w].node = 0
  PROVE  FreshCopies'
<1>1. \A d \in Conn : conn[d] \in ConnState
  BY DEF IInv, TypeOK
<1>2. ASSUME NEW d \in Conn, conn'[d] = ConnTouched(d, n), conn[d].node # n
      PROVE  conn'[d] = conn[d]
  BY <1>2 DEF ConnTouched
<1>3. ASSUME NEW d \in Conn, conn'[d] = ConnTouched(d, n), conn[d].node = n
      PROVE  /\ conn'[d].stale /\ conn'[d].node = n /\ conn'[d].user = conn[d].user
             /\ conn'[d].kind = conn[d].kind
  BY <1>1, <1>3 DEF ConnTouched, ConnState
<1>4. /\ IdleConn.node = 0 /\ IdleConn.kind = "idle"
      /\ 0 \notin Node /\ 0 # NewNode /\ NewNode \notin Node
  BY ConstantsAssumption DEF IdleConn, Node, NewNode
<1>5. ASSUME NEW d \in Conn
      PROVE  /\ conn'[d].node \in Node =>
                  /\ owner'[conn'[d].node] = conn'[d].user
                  /\ ~conn'[d].stale => conn'[d].seen = content'[conn'[d].node]
             /\ conn'[d].node = NewNode => conn'[d].seen = {}
             /\ conn'[d].kind = "idle" => conn'[d].node = 0
  <2>1. CASE conn'[d] = IdleConn
    BY <1>4, <2>1
  <2>2. CASE conn'[d] = ConnTouched(d, n) /\ conn[d].node = n
    BY <1>3, <1>4, <2>2 DEF IInv, FreshCopies
  <2>3. CASE conn'[d] = ConnTouched(d, n) /\ conn[d].node # n
    BY <1>2, <1>4, <2>3 DEF IInv, FreshCopies
  <2>4. QED
    BY <2>1, <2>2, <2>3
<1>6. ASSUME NEW w \in Worker, run'[w].node # 0, ~run'[w].stale
      PROVE  run'[w].seen = content'[run'[w].node]
  <2>1. run[w] \in RunState /\ run'[w] = RunTouched(w, n)
    BY <1>6 DEF IInv, TypeOK
  <2>2. run[w].node # n
    BY <1>6, <2>1 DEF RunTouched, RunState
  <2>3. run'[w] = run[w]
    BY <2>1, <2>2 DEF RunTouched
  <2>4. run[w].node \in Node
    BY <1>6, <2>1, <2>3, ConstantsAssumption DEF RunState, Node
  <2>5. QED
    BY <1>6, <2>2, <2>3, <2>4 DEF IInv, FreshCopies
<1>7. QED
  BY <1>5, <1>6 DEF FreshCopies

\* write-job: the new entry joins one node; nothing else moves.
LEMMA WriteStep ==
  ASSUME IInv, NEW c \in Conn, NEW n \in Node, writeScheduleInfo(c, n)
  PROVE  OwnEntries' /\ FreshCopies' /\ AckedOnce' /\ AckedKept'
<1> DEFINE b == conn[c].body
<1>1. /\ conn[c].kind = "write" /\ UNCHANGED <<page, starts, saved>>
      /\ owner' = [owner EXCEPT ![n] = conn[c].user]
      /\ content' = [content EXCEPT ![n] = conn[c].seen \cup b]
      /\ conn' = [d \in Conn |-> IF d = c THEN IdleConn ELSE ConnTouched(d, n)]
      /\ run' = [w \in Worker |-> RunTouched(w, n)]
      /\ acked' = acked \cup b
  BY DEF writeScheduleInfo
<1>2. /\ conn[c].seen = content[n]
      /\ conn[c].user \in User
      /\ owner[n] \in {conn[c].user, NoUser}
      /\ owner[n] = NoUser => content[n] = {}
      /\ \A d \in Conn : conn[d].node = n => owner[n] # NoUser
  BY CommitStep DEF writeScheduleInfo
<1>3. /\ owner'[n] = conn[c].user
      /\ content'[n] = content[n] \cup b
      /\ \A m \in Node : m # n => content'[m] = content[m] /\ owner'[m] = owner[m]
  BY <1>1, <1>2 DEF IInv, TypeOK
<1>4. /\ b \in SUBSET Entry
      /\ \A e \in b : author[e.job] = conn[c].user
      /\ \A e \in b : \A f \in acked : f.job # e.job
      /\ \A e, f \in b : e = f
  BY <1>1 DEF IInv, TypeOK, ConnState, OwnEntries, AckedOnce
<1>5. ASSUME NEW d \in Conn
      PROVE  \/ conn'[d] = IdleConn
             \/ /\ d # c /\ conn'[d].kind = conn[d].kind /\ conn'[d].user = conn[d].user
                /\ conn'[d].body = conn[d].body /\ conn'[d].seen = conn[d].seen
  <2>1. conn[d] \in ConnState
    BY DEF IInv, TypeOK
  <2>2. QED
    BY <1>1, <2>1 DEF ConnTouched, ConnState
<1> HIDE DEF b
<1>6. OwnEntries'
  <2>1. \A m \in Node : \A e \in content'[m] : author[e.job] = owner'[m]
    BY <1>2, <1>3, <1>4 DEF IInv, OwnEntries
  <2>2. ASSUME NEW d \in Conn
        PROVE  /\ \A e \in conn'[d].body \cup conn'[d].seen : author[e.job] = conn'[d].user
               /\ conn'[d].kind = "save" => conn'[d].user \in saved'
    BY <1>1, <1>5 DEF IInv, OwnEntries, IdleConn
  <2>3. QED
    BY <1>1, <2>1, <2>2 DEF IInv, OwnEntries
<1>7. FreshCopies'
  <2>1. /\ \A d \in Conn : conn'[d] \in {IdleConn, ConnTouched(d, n)}
        /\ \A w \in Worker : run'[w] = RunTouched(w, n) \/ run'[w].node = 0
        /\ \A d \in Conn : conn[d].node = n => owner'[n] = owner[n]
    BY <1>1, <1>2, <1>3
  <2>2. QED
    BY <1>3, <2>1, TouchedCopies
<1>8. \A e \in b : author[e.job] \notin saved =>
        /\ starts[e.job] = 0
        /\ \A m \in Node : e \notin content[m]
  <2>1. ASSUME NEW e \in b, author[e.job] \notin saved
        PROVE  starts[e.job] = 0 /\ \A m \in Node : e \notin content[m]
    <3>1. e.job \in Job
      BY <1>4 DEF Entry
    <3>2. starts[e.job] = 0
      BY <1>4, <2>1, <3>1 DEF IInv, AckedOnce
    <3>3. \A m \in Node : e \notin content[m]
      BY <1>4, <2>1 DEF IInv, AckedOnce
    <3>4. QED
      BY <3>2, <3>3
  <2>2. QED
    BY <2>1
<1>9. AckedOnce'
  <2>1. \A e, f \in acked' : e.job = f.job => e = f
    BY <1>1, <1>4 DEF IInv, AckedOnce
  <2>2. ASSUME NEW d \in Conn, conn'[d].kind = "write"
        PROVE  /\ \A e \in conn'[d].body : \A f \in acked' : f.job # e.job
               /\ \A e, f \in conn'[d].body : e = f
               /\ \A x \in Conn : conn'[x].kind = "write" /\ x # d =>
                    \A e \in conn'[d].body : \A f \in conn'[x].body : e.job # f.job
    <3>1. conn[d].kind = "write" /\ conn'[d].body = conn[d].body /\ d # c
      BY <1>5, <2>2 DEF IdleConn
    <3>2. \A x \in Conn : conn'[x].kind = "write" =>
            conn[x].kind = "write" /\ conn'[x].body = conn[x].body
      BY <1>5 DEF IdleConn
    <3>3. \A e \in conn[d].body : \A f \in b : f.job # e.job
      BY <1>1, <3>1 DEF IInv, AckedOnce, b
    <3>4. QED
      BY <1>1, <3>1, <3>2, <3>3 DEF IInv, AckedOnce
  <2>3. \A m \in Node : \A e \in content'[m] : author[e.job] \notin saved' => e \in acked'
    BY <1>1, <1>3 DEF IInv, AckedOnce
  <2>4. \A j \in Job : starts'[j] # 0 /\ author[j] \notin saved' => \E e \in acked' : e.job = j
    BY <1>1 DEF IInv, AckedOnce
  <2>5. QED
    BY <2>1, <2>2, <2>3, <2>4 DEF AckedOnce
<1>10. ASSUME NEW e \in acked', author[e.job] \notin saved'
       PROVE  \/ /\ isRepeat(e) \/ starts'[e.job] = 0
                 /\ \E m \in Node : At(e)' = {m}
              \/ /\ ~isRepeat(e) /\ starts'[e.job] = 1
                 /\ At(e)' = {}
  <2>1. CASE e \in b
    <3>1. At(e)' = {n}
      BY <1>1, <1>3, <1>8, <1>10, <2>1 DEF At
    <3>2. QED
      BY <1>1, <1>8, <1>10, <2>1, <3>1
  <2>2. CASE e \in acked
    <3>1. e \notin b
      BY <1>4, <2>2
    <3>2. At(e)' = At(e)
      BY <1>3, <3>1 DEF At
    <3>3. QED
      BY <1>1, <1>10, <2>2, <3>2 DEF IInv, AckedKept, isRepeat
  <2>3. QED
    BY <1>1, <2>1, <2>2
<1>11. AckedKept'
  BY <1>10 DEF AckedKept, isRepeat
<1>12. QED
  BY <1>6, <1>7, <1>9, <1>11

\* update-jobs: only entries of an author who saved move.
LEMMA OverwriteStep ==
  ASSUME IInv, NEW c \in Conn, NEW n \in Node, updateAllScheduleInfo(c, n)
  PROVE  OwnEntries' /\ FreshCopies' /\ AckedOnce' /\ AckedKept'
<1>1. /\ conn[c].kind = "save" /\ UNCHANGED <<page, starts, acked, saved>>
      /\ owner' = [owner EXCEPT ![n] = conn[c].user]
      /\ content' = [content EXCEPT ![n] = conn[c].body]
      /\ conn' = [d \in Conn |-> IF d = c THEN IdleConn ELSE ConnTouched(d, n)]
      /\ run' = [w \in Worker |-> RunTouched(w, n)]
  BY DEF updateAllScheduleInfo, history
<1>2. /\ conn[c].user \in User
      /\ owner[n] \in {conn[c].user, NoUser}
      /\ owner[n] = NoUser => content[n] = {}
      /\ \A d \in Conn : conn[d].node = n => owner[n] # NoUser
  BY CommitStep DEF updateAllScheduleInfo
<1>3. /\ owner'[n] = conn[c].user
      /\ content'[n] = conn[c].body
      /\ \A m \in Node : m # n => content'[m] = content[m] /\ owner'[m] = owner[m]
  BY <1>1 DEF IInv, TypeOK
<1>4. /\ conn[c].user \in saved
      /\ \A e \in conn[c].body : author[e.job] = conn[c].user
      /\ \A e \in content[n] : author[e.job] = conn[c].user
  BY <1>1, <1>2 DEF IInv, OwnEntries
<1>5. ASSUME NEW d \in Conn
      PROVE  \/ conn'[d] = IdleConn
             \/ /\ d # c /\ conn'[d].kind = conn[d].kind /\ conn'[d].user = conn[d].user
                /\ conn'[d].body = conn[d].body /\ conn'[d].seen = conn[d].seen
  <2>1. conn[d] \in ConnState
    BY DEF IInv, TypeOK
  <2>2. QED
    BY <1>1, <2>1 DEF ConnTouched, ConnState
<1>6. OwnEntries'
  <2>1. \A m \in Node : \A e \in content'[m] : author[e.job] = owner'[m]
    BY <1>3, <1>4 DEF IInv, OwnEntries
  <2>2. ASSUME NEW d \in Conn
        PROVE  /\ \A e \in conn'[d].body \cup conn'[d].seen : author[e.job] = conn'[d].user
               /\ conn'[d].kind = "save" => conn'[d].user \in saved'
    BY <1>1, <1>5 DEF IInv, OwnEntries, IdleConn
  <2>3. QED
    BY <1>1, <2>1, <2>2 DEF IInv, OwnEntries
<1>7. FreshCopies'
  <2>1. /\ \A d \in Conn : conn'[d] \in {IdleConn, ConnTouched(d, n)}
        /\ \A w \in Worker : run'[w] = RunTouched(w, n) \/ run'[w].node = 0
        /\ \A d \in Conn : conn[d].node = n => owner'[n] = owner[n]
    BY <1>1, <1>2, <1>3
  <2>2. QED
    BY <1>3, <2>1, TouchedCopies
<1>8. AckedOnce'
  <2>1. \A d \in Conn : conn'[d].kind = "write" =>
          conn[d].kind = "write" /\ conn'[d].body = conn[d].body
    BY <1>5 DEF IdleConn
  <2>2. \A m \in Node : \A e \in content'[m] : author[e.job] \notin saved' => e \in acked'
    BY <1>1, <1>3, <1>4 DEF IInv, AckedOnce
  <2>3. QED
    BY <1>1, <2>1, <2>2 DEF IInv, AckedOnce
<1>9. \A e \in acked : author[e.job] \notin saved => At(e)' = At(e)
  BY <1>3, <1>4 DEF At
<1>10. AckedKept'
  BY <1>1, <1>9 DEF IInv, AckedKept, isRepeat
<1>11. QED
  BY <1>6, <1>7, <1>8, <1>10

\* The job's commit on a child: what it starts and does not repeat leaves.
LEMMA CommitChildStep ==
  ASSUME IInv, NEW w \in Worker, CommitChild(w)
  PROVE  OwnEntries' /\ FreshCopies' /\ AckedOnce' /\ AckedKept'
<1> DEFINE n == run[w].node
           due == DueIn(w)
<1>1. /\ n # 0 /\ ~run[w].stale
      /\ UNCHANGED <<owner, page, acked, saved>>
      /\ content' = [content EXCEPT ![n] = startSuitableWorkflow(w)]
      /\ starts' = [j \in Job |-> IF \E e \in due : e.job = j
                                  THEN More(starts[j]) ELSE starts[j]]
      /\ run' = [v \in Worker |-> IF v = w THEN [run[w] EXCEPT !.node = 0, !.seen = {}]
                                  ELSE RunTouched(v, n)]
      /\ conn' = [c \in Conn |-> ConnTouched(c, n)]
  BY DEF CommitChild
<1>2. /\ run[w] \in RunState /\ n \in Node
      /\ run[w].seen = content[n] /\ content[n] \in SUBSET Entry
  <2>1. run[w] \in RunState
    BY DEF IInv, TypeOK
  <2>2. n \in Node
    BY <1>1, <2>1, ConstantsAssumption DEF RunState, Node
  <2>3. QED
    BY <1>1, <2>1, <2>2 DEF IInv, FreshCopies, TypeOK
<1>3. due \in SUBSET content[n]
  BY <1>2 DEF DueIn
<1>4. /\ content'[n] = {e \in content[n] : isRepeat(e) \/ e \notin due}
      /\ \A m \in Node : m # n => content'[m] = content[m]
  BY <1>1, <1>2 DEF IInv, TypeOK, startSuitableWorkflow
<1>5. ASSUME NEW d \in Conn
      PROVE  /\ conn'[d].kind = conn[d].kind /\ conn'[d].user = conn[d].user
             /\ conn'[d].body = conn[d].body /\ conn'[d].seen = conn[d].seen
  <2>1. conn[d] \in ConnState
    BY DEF IInv, TypeOK
  <2>2. QED
    BY <1>1, <2>1 DEF ConnTouched, ConnState
<1>6. OwnEntries'
  <2>1. \A m \in Node : \A e \in content'[m] : author[e.job] = owner'[m]
    BY <1>1, <1>4 DEF IInv, OwnEntries
  <2>2. QED
    BY <1>1, <1>5, <2>1 DEF IInv, OwnEntries
<1>7. FreshCopies'
  <2>1. run'[w].node = 0
    BY <1>1, <1>2 DEF RunState
  <2>2. /\ \A d \in Conn : conn'[d] \in {IdleConn, ConnTouched(d, n)}
        /\ \A v \in Worker : run'[v] = RunTouched(v, n) \/ run'[v].node = 0
        /\ \A m \in Node : m # n => content'[m] = content[m] /\ owner'[m] = owner[m]
        /\ \A d \in Conn : conn[d].node = n => owner'[n] = owner[n]
    BY <1>1, <1>4, <2>1
  <2>3. QED
    BY <1>2, <2>2, TouchedCopies
<1>8. \A j \in Job : starts'[j] # starts[j] => \E e \in due : e.job = j
  BY <1>1
<1>9. AckedOnce'
  <2>1. \A m \in Node : \A e \in content'[m] : author[e.job] \notin saved' => e \in acked'
    BY <1>1, <1>4 DEF IInv, AckedOnce
  <2>2. \A j \in Job : starts'[j] # 0 /\ author[j] \notin saved' => \E e \in acked' : e.job = j
    BY <1>1, <1>2, <1>3, <1>8 DEF IInv, AckedOnce
  <2>3. QED
    BY <1>1, <1>5, <2>1, <2>2 DEF IInv, AckedOnce
<1>10. ASSUME NEW e \in acked, author[e.job] \notin saved
       PROVE  \/ /\ isRepeat(e) \/ starts'[e.job] = 0
                 /\ \E m \in Node : At(e)' = {m}
              \/ /\ ~isRepeat(e) /\ starts'[e.job] = 1
                 /\ At(e)' = {}
  <2>1. e.job \in Job
    BY DEF IInv, TypeOK, Entry
  <2>2. \A f \in due : f.job = e.job => f = e
    BY <1>2, <1>3, <1>10 DEF IInv, AckedOnce
  <2>3. CASE e \in due /\ ~isRepeat(e)
    <3>1. At(e) = {n} /\ starts[e.job] = 0
      BY <1>2, <1>3, <1>10, <2>3 DEF IInv, AckedKept, At
    <3>2. starts'[e.job] = 1
      BY <1>1, <2>1, <2>3, <3>1 DEF More
    <3>3. At(e)' = {}
      BY <1>4, <2>3, <3>1 DEF At
    <3>4. QED
      BY <2>3, <3>2, <3>3
  <2>4. CASE isRepeat(e)
    <3>1. At(e)' = At(e)
      BY <1>2, <1>4, <2>4 DEF At
    <3>2. QED
      BY <1>10, <2>4, <3>1 DEF IInv, AckedKept
  <2>5. CASE e \notin due /\ ~isRepeat(e)
    <3>1. At(e)' = At(e)
      BY <1>2, <1>4, <2>5 DEF At
    <3>2. starts'[e.job] = starts[e.job]
      BY <1>8, <2>1, <2>2, <2>5
    <3>3. QED
      BY <1>10, <2>5, <3>1, <3>2 DEF IInv, AckedKept
  <2>6. QED
    BY <2>3, <2>4, <2>5
<1>11. AckedKept'
  BY <1>1, <1>10 DEF AckedKept, isRepeat
<1>12. QED
  BY <1>6, <1>7, <1>9, <1>11

\* Every step of the scheduler preserves the inductive invariant.
LEMMA IInvStep == IInv /\ [Next]_vars => IInv'
<1> SUFFICES ASSUME IInv, [Next]_vars
             PROVE  OwnEntries' /\ FreshCopies' /\ AckedOnce' /\ AckedKept'
  BY TypeStep DEF IInv
<1>a. \A c \in Conn : conn[c] \in ConnState
  BY DEF IInv, TypeOK
<1>b. \A w \in Worker : run[w] \in RunState
  BY DEF IInv, TypeOK
<1>c. ASSUME NEW w \in Worker, UNCHANGED <<owner, content, conn, page, starts, acked, saved>>,
             \A v \in Worker : v # w => run'[v] = run[v],
             run'[w].node = 0 \/ run'[w].seen = content[run'[w].node]
      PROVE  OwnEntries' /\ FreshCopies' /\ AckedOnce' /\ AckedKept'
  <2>1. \A v \in Worker : run'[v].node # 0 /\ ~run'[v].stale =>
           run'[v].seen = content[run'[v].node]
    BY <1>c DEF IInv, FreshCopies
  <2>2. QED
    BY <1>c, <2>1, RunStep
<1> USE DEF nodeVars, clientVars, clockVars, history
<1>1. ASSUME NEW c \in Conn, NEW j \in Job, NEW k \in Cron, Submit(c, j, k)
      PROVE  OwnEntries' /\ FreshCopies' /\ AckedOnce' /\ AckedKept'
  BY <1>1, SubmitStep
<1>2. ASSUME NEW c \in Conn, NEW u \in User, OpenPage(c, u) \/ SaveSchedules(c, u)
      PROVE  OwnEntries' /\ FreshCopies' /\ AckedOnce' /\ AckedKept'
  BY <1>2, OpenPageStep, SaveStep
<1>3. ASSUME NEW u \in User, NEW e \in Entry,
             onClickDeleteCron(u, e) \/ \E k \in Cron : EditCron(u, e, k)
      PROVE  OwnEntries' /\ FreshCopies' /\ AckedOnce' /\ AckedKept'
  <2>1. /\ UNCHANGED <<owner, content, conn, run, starts, acked, saved>>
        /\ e \in page[u]
        /\ \/ page' = [page EXCEPT ![u] = @ \ {e}]
           \/ \E k \in Cron : page' = [page EXCEPT ![u] = (@ \ {e}) \cup {[e EXCEPT !.cron = k]}]
    BY <1>3 DEF onClickDeleteCron, EditCron
  <2>2. \A k \in Cron : [e EXCEPT !.cron = k].job = e.job
    BY DEF Entry
  <2>3. ASSUME NEW v \in User, NEW f \in page'[v] PROVE author[f.job] = v
    <3>1. page \in [User -> SUBSET Entry] /\ author[e.job] = u
      BY <2>1 DEF IInv, OwnEntries, TypeOK
    <3>a. page'[v] = page[v] \/ (v = u /\ page'[u] \subseteq page[u])
          \/ (v = u /\ \E k \in Cron : page'[u] \subseteq page[u] \cup {[e EXCEPT !.cron = k]})
      BY <2>1, <3>1
    <3>2. f \in page[v] \/ (v = u /\ f.job = e.job)
      BY <2>2, <2>3, <3>a
    <3>3. QED
      BY <3>1, <3>2 DEF IInv, OwnEntries
  <2>4. OwnEntries' /\ FreshCopies'
    BY <2>1, <2>3 DEF IInv, OwnEntries, FreshCopies
  <2>5. AckedOnce' /\ AckedKept'
    BY <2>1, BookUntouched, StoredUntouched DEF IInv
  <2>6. QED
    BY <2>4, <2>5
<1>4. ASSUME NEW c \in Conn, Locate(c)
      PROVE  OwnEntries' /\ FreshCopies' /\ AckedOnce' /\ AckedKept'
  <2>a. PICK n, x : /\ conn' = [conn EXCEPT ![c].node = n, ![c].seen = x]
                    /\ \/ n = NewNode /\ x = {}
                       \/ n \in Owned(conn[c].user) /\ x = content[n]
    BY <1>4 DEF Locate
  <2>1. /\ \A d \in Conn : d # c => conn'[d] = conn[d]
        /\ conn'[c] = [conn[c] EXCEPT !.node = n, !.seen = x]
    BY <2>a DEF IInv, TypeOK
  <2>b. /\ conn'[c].kind = conn[c].kind /\ conn'[c].user = conn[c].user
        /\ conn'[c].body = conn[c].body /\ conn'[c].node = n /\ conn'[c].seen = x
    BY <1>a, <2>1 DEF ConnState
  <2>2. /\ conn'[c].kind = conn[c].kind /\ conn[c].kind # "idle"
        /\ conn'[c].user = conn[c].user /\ conn'[c].body = conn[c].body
        /\ \/ conn'[c].node = NewNode /\ conn'[c].seen = {}
           \/ /\ conn'[c].node \in Node
              /\ owner[conn'[c].node] = conn[c].user
              /\ conn'[c].seen = content[conn'[c].node]
    BY <1>4, <2>a, <2>b DEF Locate, Owned
  <2>3. QED
    BY <1>4, <2>1, <2>2, ConnStep DEF Locate
<1>5. ASSUME NEW c \in Conn, readAllRecordByUser(c)
      PROVE  OwnEntries' /\ FreshCopies' /\ AckedOnce' /\ AckedKept'
  BY <1>5, ReadStep
<1>6. ASSUME NEW c \in Conn, NEW n \in Node,
             writeScheduleInfo(c, n) \/ updateAllScheduleInfo(c, n)
      PROVE  OwnEntries' /\ FreshCopies' /\ AckedOnce' /\ AckedKept'
  BY <1>6, WriteStep, OverwriteStep
<1>7. ASSUME NEW c \in Conn, RetryRequest(c)
      PROVE  OwnEntries' /\ FreshCopies' /\ AckedOnce' /\ AckedKept'
  <2>1. /\ \A d \in Conn : d # c => conn'[d] = conn[d]
        /\ conn'[c].kind = conn[c].kind /\ conn[c].kind # "idle"
        /\ conn'[c].user = conn[c].user /\ conn'[c].body = conn[c].body
        /\ conn'[c].node = 0 /\ conn'[c].seen = {}
    BY <1>7, <1>a DEF RetryRequest, ConnState, IInv, TypeOK
  <2>2. QED
    BY <1>7, <2>1, ConnStep DEF RetryRequest
<1>8. ASSUME NEW c \in Conn, FailRequest(c)
      PROVE  OwnEntries' /\ FreshCopies' /\ AckedOnce' /\ AckedKept'
  <2>1. \A d \in Conn : conn'[d] = conn[d] \/ conn'[d] = IdleConn
    BY <1>8 DEF FailRequest, IInv, TypeOK
  <2>2. QED
    BY <1>8, <2>1, ConnStep DEF FailRequest
<1>9. ASSUME NEW w \in Worker, Fire(w)
      PROVE  OwnEntries' /\ FreshCopies' /\ AckedOnce' /\ AckedKept'
  <2>1. run'[w].node = 0 /\ \A v \in Worker : v # w => run'[v] = run[v]
    BY <1>9 DEF Fire, IdleRun, IInv, TypeOK
  <2>2. QED
    BY <1>9, <1>c, <2>1 DEF Fire
<1>10. ASSUME NEW w \in Worker, NEW n \in Node,
              OpenChild(w, n) \/ SkipChild(w, n) \/ AbortWithoutContent(w, n)
       PROVE  OwnEntries' /\ FreshCopies' /\ AckedOnce' /\ AckedKept'
  <2>1. \A v \in Worker : v # w => run'[v] = run[v]
    BY <1>10 DEF OpenChild, SkipChild, AbortWithoutContent, IInv, TypeOK
  <2>2. CASE OpenChild(w, n)
    <3>1. run'[w].seen = content[run'[w].node]
      BY <1>b, <2>2 DEF OpenChild, RunState, IInv, TypeOK
    <3>2. QED
      BY <1>c, <2>1, <2>2, <3>1 DEF OpenChild
  <2>3. CASE SkipChild(w, n)
    <3>1. run'[w].node = 0
      BY <1>b, <2>3 DEF SkipChild, AtChild, RunState, IInv, TypeOK
    <3>2. QED
      BY <1>c, <2>1, <2>3, <3>1 DEF SkipChild
  <2>4. CASE AbortWithoutContent(w, n)
    <3>1. run'[w].node = 0
      BY <2>4 DEF AbortWithoutContent, IdleRun, IInv, TypeOK
    <3>2. QED
      BY <1>c, <2>1, <2>4, <3>1 DEF AbortWithoutContent
  <2>5. QED
    BY <1>10, <2>2, <2>3, <2>4
<1>11. ASSUME NEW w \in Worker, AbortOnFailure(w) \/ FinishRun(w)
       PROVE  OwnEntries' /\ FreshCopies' /\ AckedOnce' /\ AckedKept'
  <2>1. /\ run'[w].node = 0 /\ \A v \in Worker : v # w => run'[v] = run[v]
        /\ UNCHANGED <<owner, content, conn, page, starts, acked, saved>>
    BY <1>11 DEF AbortOnFailure, FinishRun, IdleRun, IInv, TypeOK
  <2>2. QED
    BY <1>c, <2>1
<1>12. ASSUME NEW w \in Worker, CommitChild(w)
       PROVE  OwnEntries' /\ FreshCopies' /\ AckedOnce' /\ AckedKept'
  BY <1>12, CommitChildStep
<1>13. ASSUME NEW w \in Worker, RetryChild(w)
       PROVE  OwnEntries' /\ FreshCopies' /\ AckedOnce' /\ AckedKept'
  <2>1. run'[w].node = 0 /\ \A v \in Worker : v # w => run'[v] = run[v]
    BY <1>13, <1>b DEF RetryChild, RunState, IInv, TypeOK
  <2>2. QED
    BY <1>13, <1>c, <2>1 DEF RetryChild
<1>14. ASSUME NEW s \in Server, Crash(s)
       PROVE  OwnEntries' /\ FreshCopies' /\ AckedOnce' /\ AckedKept'
  <2>1. /\ UNCHANGED <<owner, content, page, starts, acked, saved>>
        /\ \A c \in Conn : conn'[c] = conn[c] \/ conn'[c] = IdleConn
        /\ \A w \in Worker : run'[w] = run[w] \/ run'[w] = IdleRun
    BY <1>14 DEF Crash
  <2>2. OwnEntries'
    BY <2>1 DEF IInv, OwnEntries, IdleConn
  <2>3. FreshCopies'
    BY <2>1, ConstantsAssumption DEF IInv, FreshCopies, IdleConn, IdleRun, Node, NewNode
  <2>4. AckedOnce' /\ AckedKept'
    BY <2>1, BookUntouched, StoredUntouched DEF IInv, IdleConn
  <2>5. QED
    BY <2>2, <2>3, <2>4
<1>15. ASSUME UNCHANGED <<owner, content, conn, page, run, starts, acked, saved>>
       PROVE  OwnEntries' /\ FreshCopies' /\ AckedOnce' /\ AckedKept'
  <2>1. \A w \in Worker : run'[w].node # 0 /\ ~run'[w].stale =>
           run'[w].seen = content[run'[w].node]
    BY <1>15 DEF IInv, FreshCopies
  <2>2. QED
    BY <1>15, <2>1, RunStep
<1>16. CASE HourPasses
  BY <1>15, <1>16 DEF HourPasses
<1>17. ASSUME NEW s \in Server, Restart(s)
       PROVE  OwnEntries' /\ FreshCopies' /\ AckedOnce' /\ AckedKept'
  BY <1>15, <1>17 DEF Restart
<1>18. ASSUME NEW j \in Breakable, Break(j)
       PROVE  OwnEntries' /\ FreshCopies' /\ AckedOnce' /\ AckedKept'
  BY <1>15, <1>18 DEF Break
<1>19. ASSUME NEW n \in Node, LoseContent(n)
       PROVE  OwnEntries' /\ FreshCopies' /\ AckedOnce' /\ AckedKept'
  BY <1>15, <1>19 DEF LoseContent
<1>20. CASE UNCHANGED vars
  BY <1>15, <1>20 DEF vars
<1>21. QED
  BY <1>1, <1>2, <1>3, <1>4, <1>5, <1>6, <1>7, <1>8, <1>9, <1>10, <1>11,
     <1>12, <1>13, <1>14, <1>16, <1>17, <1>18, <1>19, <1>20
     DEF Next, Browser, Serve, startWfByCurrentDate, World

LEMMA IInvInit == Init => IInv
<1> SUFFICES ASSUME Init PROVE IInv
  OBVIOUS
<1>1. TypeOK
  BY IdleTypes, Zero, ConstantsAssumption DEF Init, IdleConn, TypeOK
<1>2. 0 \notin Node /\ 0 # NewNode
  BY ConstantsAssumption DEF Node, NewNode
<1>3. OwnEntries /\ FreshCopies /\ AckedOnce /\ AckedKept
  BY <1>2 DEF Init, IdleConn, IdleRun, OwnEntries, FreshCopies, AckedOnce, AckedKept
<1>4. QED
  BY <1>1, <1>3 DEF IInv

LEMMA Inductive == Spec => []IInv
BY IInvInit, IInvStep, PTL DEF Spec

\* For every number of users, jobs, servers, threads and connections: an
\* acknowledged schedule whose author never saved the page is kept until it
\* is due, is started once unless it repeats, and is then gone.
THEOREM AckedSchedulesAreKept == Spec => []AckedKept
<1>1. IInv => AckedKept
  BY DEF IInv
<1>2. QED
  BY <1>1, Inductive, PTL

\* A step that shrinks what a node holds is the job's commit of entries it
\* started, or the save of their own author.
LEMMA LeavingStep ==
  IInv /\ [Next]_vars =>
    \A n \in Node : \A e \in content[n] \ content'[n] :
      \/ ~isRepeat(e) /\ starts'[e.job] = More(starts[e.job])
      \/ \E c \in Conn : /\ conn[c].kind = "save"
                         /\ conn[c].user = author[e.job]
                         /\ conn'[c].kind = "idle"
<1> SUFFICES ASSUME IInv, [Next]_vars, NEW n \in Node, NEW e \in content[n], e \notin content'[n]
             PROVE  \/ ~isRepeat(e) /\ starts'[e.job] = More(starts[e.job])
                    \/ \E c \in Conn : /\ conn[c].kind = "save"
                                       /\ conn[c].user = author[e.job]
                                       /\ conn'[c].kind = "idle"
  OBVIOUS
<1>1. ASSUME NEW c \in Conn, NEW m \in Node, writeScheduleInfo(c, m)
      PROVE  FALSE
  <2>1. conn[c].seen = content[m]
    BY <1>1, CommitStep DEF writeScheduleInfo
  <2>2. content'[m] = content[m] \cup conn[c].body
        /\ \A x \in Node : x # m => content'[x] = content[x]
    BY <1>1, <2>1 DEF writeScheduleInfo, IInv, TypeOK
  <2>3. QED
    BY <2>2
<1>2. ASSUME NEW c \in Conn, NEW m \in Node, updateAllScheduleInfo(c, m)
      PROVE  /\ conn[c].kind = "save"
             /\ conn[c].user = author[e.job]
             /\ conn'[c].kind = "idle"
  <2>1. m = n
    BY <1>2 DEF updateAllScheduleInfo, IInv, TypeOK
  <2>2. owner[n] \in {conn[c].user, NoUser} /\ (owner[n] = NoUser => content[n] = {})
    BY <1>2, <2>1, CommitStep DEF updateAllScheduleInfo
  <2>3. author[e.job] = owner[n]
    BY DEF IInv, OwnEntries
  <2>4. QED
    BY <1>2, <2>2, <2>3 DEF updateAllScheduleInfo, IdleConn
<1>3. ASSUME NEW w \in Worker, CommitChild(w)
      PROVE  ~isRepeat(e) /\ starts'[e.job] = More(starts[e.job])
  <2>1. n = run[w].node /\ content'[n] = startSuitableWorkflow(w)
    BY <1>3 DEF CommitChild, IInv, TypeOK
  <2>2. run[w].seen = content[n]
    BY <1>3, <2>1 DEF CommitChild, IInv, FreshCopies
  <2>3. e \in DueIn(w) /\ ~isRepeat(e)
    BY <2>1, <2>2 DEF startSuitableWorkflow
  <2>4. e.job \in Job
    BY DEF IInv, TypeOK, Entry
  <2>5. QED
    BY <1>3, <2>3, <2>4 DEF CommitChild
<1>4. content' # content
  OBVIOUS
<1>5. QED
  BY <1>1, <1>2, <1>3, <1>4
     DEF Next, Browser, Serve, startWfByCurrentDate, World, vars, nodeVars,
         Submit, OpenPage, SaveSchedules, onClickDeleteCron, EditCron, Locate,
         readAllRecordByUser, RetryRequest, FailRequest, Fire, OpenChild, SkipChild,
         AbortWithoutContent, AbortOnFailure, RetryChild, FinishRun, HourPasses,
         Crash, Restart, Break, LoseContent

\* In every step of every execution an entry leaves its node only because it
\* was started, or because its own author saved a page without it.
THEOREM EntriesLeaveByStartOrSave == Spec => LeavesByStartOrSave
<1>1. Spec => [][IInv /\ [Next]_vars]_vars
  BY Inductive, PTL DEF Spec
<1>2. QED
  BY <1>1, LeavingStep, Inductive, PTL DEF Spec, LeavesByStartOrSave

-----------------------------------------------------------------------------
(* WfScheduler implements SchedulerPromise: every step of pages, requests,     *)
(* executions and servers is a step of the abstract scheduler or none.  The    *)
(* invariant says why: a commit writes what it read, and an accepted entry     *)
(* stands in one node.                                                         *)

Waiting == UNION {content[n] : n \in Node}

\* A step that leaves nodes, counts and acknowledgements alone is none.
LEMMA Stutter ==
  ASSUME UNCHANGED <<content, starts, acked, saved>>
  PROVE  UNCHANGED Promise!vars
BY DEF Promise!vars

\* An accepted write is the acceptance of its entry.
LEMMA WriteAccepts ==
  ASSUME IInv, NEW c \in Conn, NEW n \in Node, writeScheduleInfo(c, n)
  PROVE  [Promise!Next]_(Promise!vars)
<1> DEFINE b == conn[c].body
<1>1. /\ conn[c].kind = "write" /\ UNCHANGED <<starts, saved>>
      /\ content' = [content EXCEPT ![n] = content[n] \cup b]
      /\ acked' = acked \cup b
  BY CommitStep DEF writeScheduleInfo
<1>2. b \in SUBSET Entry /\ content \in [Node -> SUBSET Entry]
  BY DEF IInv, TypeOK, ConnState
<1>3. Waiting' = Waiting \cup b
  BY <1>1, <1>2 DEF Waiting
<1>4. CASE b = {}
  <2>1. UNCHANGED <<Waiting, starts, acked, saved>>
    BY <1>1, <1>3, <1>4
  <2>2. QED
    BY <2>1 DEF Promise!vars, Waiting
<1>5. CASE b # {}
  <2>1. PICK e \in b : b = {e}
    BY <1>1, <1>5 DEF IInv, AckedOnce
  <2>2. e \in Entry
    BY <1>2, <2>1
  <2>3. \A f \in acked : f.job # e.job
    BY <1>1, <2>1 DEF IInv, AckedOnce
  <2>4. ASSUME author[e.job] \notin saved
        PROVE  e \notin Waiting /\ starts[e.job] = 0
    <3>1. e \notin acked
      BY <2>3
    <3>2. e \notin Waiting
      BY <2>4, <3>1 DEF Waiting, IInv, AckedOnce
    <3>3. e.job \in Job
      BY <2>2 DEF Entry
    <3>4. QED
      BY <2>3, <2>4, <3>2, <3>3 DEF IInv, AckedOnce
  <2>5. Promise!Accept(e)
    BY <1>1, <1>3, <2>1, <2>3, <2>4 DEF Promise!Accept, Waiting
  <2>6. e \in Promise!Entry
    BY <2>2 DEF Entry, Promise!Entry
  <2>7. QED
    BY <2>5, <2>6 DEF Promise!Next
<1>6. QED
  BY <1>4, <1>5

\* A save replaces what waits of its author.
LEMMA OverwriteReplaces ==
  ASSUME IInv, NEW c \in Conn, NEW n \in Node, updateAllScheduleInfo(c, n)
  PROVE  Promise!Next
<1>1. /\ conn[c].kind = "save" /\ UNCHANGED <<starts, acked, saved>>
      /\ content' = [content EXCEPT ![n] = conn[c].body]
  BY DEF updateAllScheduleInfo, history
<1>2. conn[c].body \in SUBSET Entry /\ content \in [Node -> SUBSET Entry]
  BY DEF IInv, TypeOK, ConnState
<1>3. PICK u \in User : u = conn[c].user /\ u \in saved
  BY <1>1 DEF IInv, TypeOK, OwnEntries
<1>4. owner[n] \in {u, NoUser} /\ (owner[n] = NoUser => content[n] = {})
  BY <1>3, CommitStep DEF updateAllScheduleInfo
<1>5. (\A e \in content[n] : author[e.job] = u) /\ (\A e \in conn[c].body : author[e.job] = u)
  BY <1>3, <1>4 DEF IInv, OwnEntries
<1> DEFINE W == {e \in Waiting' : author[e.job] = u}
<1>6. Waiting' \in SUBSET Entry /\ Waiting \in SUBSET Entry
  BY <1>1, <1>2 DEF Waiting
<1>7. \A e : author[e.job] # u => (e \in Waiting <=> e \in Waiting')
  BY <1>1, <1>2, <1>5 DEF Waiting
<1>8. W \in SUBSET Promise!By(u)
  BY <1>6 DEF Promise!By, Promise!Entry, Entry
<1>9. Waiting' = (Waiting \ Promise!By(u)) \cup W
  BY <1>6, <1>7 DEF Promise!By, Promise!Entry, Entry
<1>10. Promise!Replace(u)
  BY <1>1, <1>3, <1>8, <1>9 DEF Promise!Replace, Waiting
<1>11. QED
  BY <1>10 DEF Promise!Next

\* The commit of a child starts what is due of its owner.
LEMMA CommitStarts ==
  ASSUME IInv, NEW w \in Worker, CommitChild(w)
  PROVE  [Promise!Next]_(Promise!vars)
<1>1. PICK n \in Node : n = run[w].node
  BY ConstantsAssumption DEF IInv, TypeOK, RunState, CommitChild, Node
<1>2. run[w].seen = content[n]
  BY <1>1 DEF CommitChild, IInv, FreshCopies
<1>3. content[n] \in SUBSET Entry /\ content \in [Node -> SUBSET Entry] /\ run[w].slot \in Slot
  BY DEF IInv, TypeOK, RunState
<1>4. PICK S \in SUBSET content[n] : S = DueIn(w)
  BY <1>2 DEF DueIn
<1>5. S = {e \in content[n] : run[w].slot \in fires[e.cron]}
  BY <1>2, <1>4 DEF DueIn, isSatisfiedAt
<1> DEFINE done == Promise!OneShot(S)
           X == {e \in done : e \notin Waiting'}
<1>6. content' = [content EXCEPT ![n] = content[n] \ done]
  BY <1>1, <1>2, <1>3, <1>4 DEF CommitChild, startSuitableWorkflow, isRepeat, Promise!OneShot
<1>7. starts' = [j \in Job |-> IF \E e \in S : e.job = j THEN More(starts[j]) ELSE starts[j]]
      /\ UNCHANGED <<acked, saved>>
  BY <1>4 DEF CommitChild
<1>8. Waiting' = Waiting \ X /\ X \in SUBSET done
  BY <1>3, <1>5, <1>6 DEF Waiting, Promise!OneShot
<1>9. CASE S = {}
  <2>1. UNCHANGED <<content, starts, acked, saved>>
    BY <1>3, <1>6, <1>7, <1>9 DEF IInv, TypeOK, Promise!OneShot
  <2>2. QED
    BY <2>1, Stutter
<1>10. CASE S # {}
  <2>1. \A e \in content[n] : author[e.job] = owner[n]
    BY DEF IInv, OwnEntries
  <2>2. PICK u \in User : u = owner[n]
    BY <1>3, <1>10, <2>1, ConstantsAssumption DEF Entry
  <2>3. S \in SUBSET (Waiting \cap Promise!By(u))
    BY <1>3, <2>1, <2>2 DEF Waiting, Promise!By, Promise!Entry, Entry
  <2>4. \E h \in Promise!Slot : \A e \in S : h \in fires[e.cron]
    BY <1>3, <1>5 DEF Slot, Promise!Slot
  <2>5. ASSUME u \notin saved
        PROVE  X = done /\ \A e \in done : starts[e.job] = 0
    <3>1. SUFFICES ASSUME NEW e \in done
                   PROVE  e \notin Waiting' /\ starts[e.job] = 0
      OBVIOUS
    <3>2. e \in content[n] /\ ~isRepeat(e) /\ author[e.job] \notin saved
      BY <2>1, <2>2, <2>5 DEF Promise!OneShot, isRepeat
    <3>3. e \in acked
      BY <3>2 DEF IInv, AckedOnce
    <3>4. n \in At(e)
      BY <3>2 DEF At
    <3>5. starts[e.job] = 0 /\ At(e) = {n}
      BY <3>2, <3>3, <3>4 DEF IInv, AckedKept
    <3>6. \A m \in Node : m # n => e \notin content[m]
      BY <3>5 DEF At
    <3>7. \A m \in Node : e \notin content'[m]
      BY <1>3, <1>6, <3>6
    <3>8. QED
      BY <3>5, <3>7 DEF Waiting
  <2>6. Promise!Start(u, S)
    BY <1>7, <1>8, <2>4, <2>5 DEF Promise!Start, Promise!More, More, Waiting
  <2>7. QED
    BY <2>3, <2>6 DEF Promise!Next, Waiting
<1>11. QED
  BY <1>9, <1>10

\* Every step is a step of the promise or leaves it alone.
LEMMA RefinementStep == IInv /\ [Next]_vars => [Promise!Next]_(Promise!vars)
<1> SUFFICES ASSUME IInv, [Next]_vars PROVE [Promise!Next]_(Promise!vars)
  OBVIOUS
<1>1. ASSUME NEW c \in Conn, NEW u \in User, SaveSchedules(c, u)
      PROVE  Promise!Next
  <2>1. Promise!Save(u)
    BY <1>1 DEF SaveSchedules, nodeVars, Promise!Save
  <2>2. QED
    BY <2>1 DEF Promise!Next
<1>2. CASE UNCHANGED <<content, starts, acked, saved>>
  BY <1>2, Stutter
<1>3. QED
  BY <1>1, <1>2, WriteAccepts, OverwriteReplaces, CommitStarts
     DEF Next, Browser, Serve, startWfByCurrentDate, World, vars, nodeVars, history,
         Submit, OpenPage, onClickDeleteCron, EditCron, Locate,
         readAllRecordByUser, RetryRequest, FailRequest, Fire, OpenChild, SkipChild,
         AbortWithoutContent, AbortOnFailure, RetryChild, FinishRun, HourPasses,
         Crash, Restart, Break, LoseContent

\* For every number of users, jobs, servers, threads and connections, the
\* scheduler implements its promise: accepted schedules wait, are started in
\* an hour in which they are due, once unless they repeat, and only their
\* author takes them away.
THEOREM ImplementsPromise == Spec => PromiseKept
<1>1. Init => Promise!Init
  BY DEF Init, Promise!Init
<1>2. QED
  BY <1>1, RefinementStep, Inductive, PTL DEF Spec, PromiseKept, Promise!Spec

-----------------------------------------------------------------------------
(* The expressions of the entries.                                         *)

\* The columns of an expression tell its period.
LEMMA PinnedTells ==
  ASSUME NEW p \in Period, NEW q \in Period, Pinned[p] = Pinned[q]
  PROVE  p = q
BY DEF Period, Pinned

\* What getCronType finds in an expression the widget built.
LEMMA TypeOfCurrent ==
  ASSUME NEW e, NEW p \in Period, NEW c \in [Pinned[p] -> Nat],
         e.at = [f \in Field |-> IF f \in Pinned[p] THEN c[f] ELSE Any]
  PROVE  getCronType(e) = p
<1>1. Pinned[p] \subseteq Field
  BY DEF Pinned, Field, Period
<1>2. Pinned[p] = {f \in Field : e.at[f] # Any}
  BY <1>1, CalendarAssumption
<1>3. \A q \in Period : Pinned[q] = {f \in Field : e.at[f] # Any} => q = p
  BY <1>2, PinnedTells
<1>4. QED
  BY <1>2, <1>3 DEF getCronType

\* The link between the stored expression and what the user chose: it is
\* this, and not the types, that the job and the page rely on.
Stored ==
  \A e \in stored : \E p \in Period :
    /\ asked \in [Pinned[p] -> Nat]
    /\ \A f \in Pinned[p] : asked[f] \in Option[f]
    /\ e = [at |-> [f \in Field |-> IF f \in Pinned[p] THEN asked[f] ELSE Any],
            repeat |-> e.repeat]

CronInv == CronTypeOK /\ Stored

LEMMA OptionNat == \A f \in Field : \A v \in Option[f] : v \in Nat
BY CalendarAssumption DEF Field, Option

LEMMA FirstOption == First \in [Field -> Nat] /\ \A f \in Field : First[f] \in Option[f]
<1>1. 1 <= MonthLength[1] /\ 1 \in 1 .. Len(MonthLength)
  BY CalendarAssumption
<1>2. 1 <= MaxDay
  BY <1>1, CalendarAssumption
<1>3. QED
  BY <1>1, <1>2, CalendarAssumption DEF First, Field, Option

LEMMA CronInitially == CronInit => CronInv
<1> SUFFICES ASSUME CronInit PROVE CronInv
  OBVIOUS
<1>1. widget \in Widget /\ clock \in Moment
  BY FirstOption DEF CronInit, Widget, Moment, Fresh, Period
<1>2. clock["day"] <= MonthLength[clock["month"]]
  BY CalendarAssumption DEF CronInit, First, Field
<1>3. asked \in [{} -> Nat]
  BY DEF CronInit, Chosen, Fresh, Pinned, Period
<1>4. \E D \in SUBSET Field : asked \in [D -> Nat]
  BY <1>3
<1>5. QED
  BY <1>1, <1>2, <1>4 DEF CronInit, CronInv, CronTypeOK, Stored

\* What the widget stores and what its user chose agree.
LEMMA CurrentType ==
  ASSUME NEW w \in Widget
  PROVE  /\ w.period \in Period
         /\ Pinned[w.period] \in SUBSET Field
         /\ Chosen(w) \in [Pinned[w.period] -> Nat]
         /\ \A f \in Pinned[w.period] : Chosen(w)[f] \in Option[f]
         /\ getCurrentValue(w) \in Expression
         /\ getCurrentValue(w) =
              [at |-> [f \in Field |-> IF f \in Pinned[w.period] THEN Chosen(w)[f] ELSE Any],
               repeat |-> getCurrentValue(w).repeat]
<1>1. w.period \in Period /\ w.at \in [Field -> Nat] /\ w.repeat \in BOOLEAN
  BY DEF Widget
<1>2. Pinned[w.period] \in SUBSET Field
  BY <1>1 DEF Pinned, Field, Period
<1>3. Chosen(w) \in [Pinned[w.period] -> Nat]
  BY <1>1, <1>2 DEF Chosen
<1>4. getCurrentValue(w) \in Expression
  BY <1>1 DEF getCurrentValue, Expression
<1>5. \A f \in Pinned[w.period] : Chosen(w)[f] = w.at[f]
  BY DEF Chosen
<1>6. getCurrentValue(w) =
        [at |-> [f \in Field |-> IF f \in Pinned[w.period] THEN Chosen(w)[f] ELSE Any],
         repeat |-> getCurrentValue(w).repeat]
  BY <1>5 DEF getCurrentValue
<1>7. \A f \in Pinned[w.period] : Chosen(w)[f] \in Option[f]
  BY <1>2, <1>5 DEF Widget
<1>8. QED
  BY <1>1, <1>2, <1>3, <1>4, <1>6, <1>7

\* The widget shows only options it offers when it is given an expression
\* whose digits are options.
LEMMA ValueType ==
  ASSUME NEW e, NEW p \in Period, NEW c \in [Pinned[p] -> Nat], e \in Expression,
         \A f \in Pinned[p] : c[f] \in Option[f],
         e.at = [f \in Field |-> IF f \in Pinned[p] THEN c[f] ELSE Any]
  PROVE  value(e) \in Widget
<1>1. getCronType(e) = p
  BY TypeOfCurrent
<1>2. value(e) = [period |-> p,
                  at |-> [f \in Field |-> IF f \in Pinned[p] THEN c[f] ELSE First[f]],
                  repeat |-> e.repeat]
  BY <1>1 DEF value
<1>3. \A f \in Field : (IF f \in Pinned[p] THEN c[f] ELSE First[f]) \in Option[f]
  BY FirstOption
<1>4. \A f \in Field : (IF f \in Pinned[p] THEN c[f] ELSE First[f]) \in Nat
  BY <1>3, OptionNat
<1>5. e.repeat \in BOOLEAN
  BY DEF Expression
<1>6. QED
  BY <1>2, <1>3, <1>4, <1>5 DEF Widget

\* The calendar steps from one hour that exists to another.
LEMMA NextHourType ==
  ASSUME NEW m \in Moment, m["day"] <= MonthLength[m["month"]]
  PROVE  /\ NextHour(m) \in Moment
         /\ NextHour(m)["day"] <= MonthLength[NextHour(m)["month"]]
<1> DEFINE n == NextHour(m)
           midnight == m["hour"] = HoursPerDay - 1
           newMonth == midnight /\ m["day"] = MonthLength[m["month"]]
<1>1. /\ m \in [Field -> Nat]
      /\ m["hour"] \in 0 .. HoursPerDay - 1 /\ m["day"] \in 1 .. MaxDay
      /\ m["month"] \in 1 .. Len(MonthLength) /\ m["dow"] \in 0 .. DaysPerWeek - 1
  BY DEF Moment, Field, Option
<1>2. /\ n["hour"] = (m["hour"] + 1) % HoursPerDay
      /\ n["dow"] = IF midnight THEN (m["dow"] + 1) % DaysPerWeek ELSE m["dow"]
      /\ n["day"] = IF newMonth THEN 1 ELSE IF midnight THEN m["day"] + 1 ELSE m["day"]
      /\ n["month"] = IF newMonth THEN (m["month"] % Len(MonthLength)) + 1 ELSE m["month"]
      /\ n = [f \in Field |-> n[f]]
  BY <1>1 DEF NextHour, Field
<1> HIDE DEF n
<1>3. n["hour"] \in 0 .. HoursPerDay - 1 /\ n["dow"] \in 0 .. DaysPerWeek - 1
  <2>1. \A x \in Nat, d \in Nat \ {0} : (x + 1) % d \in 0 .. d - 1
    OBVIOUS
  <2>2. m["hour"] \in Nat /\ m["dow"] \in Nat
    BY <1>1 DEF Field
  <2>3. (m["hour"] + 1) % HoursPerDay \in 0 .. HoursPerDay - 1
    BY <2>1, <2>2, CalendarAssumption
  <2>4. (m["dow"] + 1) % DaysPerWeek \in 0 .. DaysPerWeek - 1
    BY <2>1, <2>2, CalendarAssumption
  <2>5. QED
    BY <1>1, <1>2, <2>3, <2>4
<1>4. n["month"] \in 1 .. Len(MonthLength)
  <2>1. Len(MonthLength) \in Nat
    BY CalendarAssumption
  <2>2. QED
    BY <1>1, <1>2, <2>1
<1>5. /\ MonthLength[n["month"]] \in Nat \ {0} /\ MonthLength[n["month"]] <= MaxDay
      /\ MonthLength[m["month"]] \in Nat \ {0} /\ MonthLength[m["month"]] <= MaxDay
  BY <1>1, <1>4, CalendarAssumption
<1>6. n["day"] \in 1 .. MaxDay /\ n["day"] <= MonthLength[n["month"]]
  <2>1. CASE newMonth
    BY <1>2, <1>5, <2>1, CalendarAssumption
  <2>2. CASE ~newMonth /\ midnight
    <3>1. n["day"] = m["day"] + 1 /\ n["month"] = m["month"]
      BY <1>2, <2>2
    <3>2. m["day"] # MonthLength[m["month"]]
      BY <2>2
    <3>3. QED
      BY <1>1, <1>5, <3>1, <3>2, CalendarAssumption
  <2>3. CASE ~newMonth /\ ~midnight
    BY <1>1, <1>2, <1>5, <2>3
  <2>4. QED
    BY <2>1, <2>2, <2>3
<1>7. n \in Moment
  BY <1>2, <1>3, <1>4, <1>6 DEF Moment, Field, Option
<1>8. QED
  BY <1>6, <1>7 DEF n

\* The invariant is kept by every step.
LEMMA Preserved == CronInv /\ [CronNext]_cronVars => CronInv'
<1> SUFFICES ASSUME CronInv, [CronNext]_cronVars PROVE CronInv'
  OBVIOUS
<1>a. /\ widget \in Widget /\ stored \subseteq Expression /\ \A d, e \in stored : d = e
      /\ clock \in Moment /\ clock["day"] <= MonthLength[clock["month"]]
  BY DEF CronInv, CronTypeOK
<1>b. ASSUME UNCHANGED <<stored, clock, asked>>, widget' \in Widget PROVE CronInv'
  BY <1>b DEF CronInv, CronTypeOK, Stored
<1>1. ASSUME NEW p \in Period, ChoosePeriod(p) PROVE CronInv'
  <2>1. widget' \in Widget
    BY <1>1, <1>a DEF ChoosePeriod, Widget
  <2>2. QED
    BY <1>1, <1>b, <2>1 DEF ChoosePeriod
<1>2. ASSUME NEW f \in Field, NEW v \in Option[f], Choose(f, v) PROVE CronInv'
  <2>1. widget' = [widget EXCEPT !.at = [@ EXCEPT ![f] = v]]
    BY <1>2, <1>a DEF Choose, Widget
  <2>2. [widget.at EXCEPT ![f] = v] \in [Field -> Nat]
        /\ \A g \in Field : [widget.at EXCEPT ![f] = v][g] \in Option[g]
    BY <1>a, OptionNat DEF Widget
  <2>3. widget' \in Widget
    BY <1>a, <2>1, <2>2 DEF Widget
  <2>4. QED
    BY <1>2, <1>b, <2>3 DEF Choose
<1>3. CASE changeRepeater
  <2>1. widget' \in Widget
    BY <1>3, <1>a DEF changeRepeater, Widget
  <2>2. QED
    BY <1>3, <1>b, <2>1 DEF changeRepeater
<1>4. CASE Store
  <2>1. stored' = {getCurrentValue(widget)} /\ asked' = Chosen(widget)
        /\ UNCHANGED <<widget, clock>>
    BY <1>4 DEF Store
  <2>2. CronTypeOK'
    BY <1>a, <2>1, CurrentType DEF CronTypeOK
  <2>3. Stored'
    BY <1>a, <2>1, CurrentType DEF Stored
  <2>4. QED
    BY <2>2, <2>3 DEF CronInv
<1>5. CASE Reload
  <2>1. PICK e \in stored : widget' = value(e)
    BY <1>5 DEF Reload
  <2>2. PICK p \in Period :
          /\ asked \in [Pinned[p] -> Nat]
          /\ \A f \in Pinned[p] : asked[f] \in Option[f]
          /\ e = [at |-> [f \in Field |-> IF f \in Pinned[p] THEN asked[f] ELSE Any],
                  repeat |-> e.repeat]
    BY DEF CronInv, Stored
  <2>3. value(e) \in Widget
    BY <1>a, <2>2, ValueType
  <2>4. QED
    BY <1>5, <1>b, <2>1, <2>3 DEF Reload
<1>6. CASE HourStrikes
  <2>1. /\ stored' \subseteq stored /\ clock' = NextHour(clock)
        /\ UNCHANGED <<widget, asked>>
    BY <1>6 DEF HourStrikes
  <2>2. clock' \in Moment /\ clock'["day"] <= MonthLength[clock'["month"]]
    BY <1>a, <2>1, NextHourType
  <2>3. CronTypeOK'
    BY <2>1, <2>2 DEF CronInv, CronTypeOK
  <2>4. Stored'
    BY <2>1 DEF CronInv, Stored
  <2>5. QED
    BY <2>3, <2>4 DEF CronInv
<1>7. CASE UNCHANGED cronVars
  BY <1>7, <1>a, <1>b DEF cronVars
<1>8. QED
  BY <1>1, <1>2, <1>3, <1>4, <1>5, <1>6, <1>7 DEF CronNext

LEMMA CronInductive == CronSpec => []CronInv
BY CronInitially, Preserved, PTL DEF CronSpec

\* The widget, the entry and the clock keep their types.
THEOREM CronTyping == CronSpec => []CronTypeOK
<1>1. CronInv => CronTypeOK
  BY DEF CronInv
<1>2. QED
  BY <1>1, CronInductive, PTL

\* A page on which nothing is touched saves what is stored, whatever the
\* sizes of the calendar.
THEOREM ReloadingKeepsEntries == CronSpec => []ReloadKeepsEntry
<1>1. CronInv => ReloadKeepsEntry
  <2> SUFFICES ASSUME CronInv, NEW e \in stored PROVE getCurrentValue(value(e)) = e
    BY DEF ReloadKeepsEntry
  <2>1. PICK p \in Period :
          /\ asked \in [Pinned[p] -> Nat]
          /\ e = [at |-> [f \in Field |-> IF f \in Pinned[p] THEN asked[f] ELSE Any],
                  repeat |-> e.repeat]
    BY DEF CronInv, Stored
  <2>2. e.at = [f \in Field |-> IF f \in Pinned[p] THEN asked[f] ELSE Any]
    BY <2>1
  <2>3. getCronType(e) = p
    BY <2>1, <2>2, TypeOfCurrent
  <2>4. value(e) = [period |-> p,
                    at |-> [f \in Field |-> IF f \in Pinned[p] THEN e.at[f] ELSE First[f]],
                    repeat |-> e.repeat]
    BY <2>3 DEF value
  <2>5. getCurrentValue(value(e)) =
          [at |-> [f \in Field |-> IF f \in Pinned[p] THEN asked[f] ELSE Any],
           repeat |-> e.repeat]
    BY <2>2, <2>4 DEF getCurrentValue
  <2>6. QED
    BY <2>1, <2>5
<1>2. QED
  BY <1>1, CronInductive, PTL

\* What the job reads in an expression that is not yearly is what the user
\* chose.
LEMMA DueIsAsked ==
  ASSUME CronInv, NEW e \in stored, ~Yearly(e), NEW m \in Moment
  PROVE  isSatisfiedBy(Calendar(m), e) <=> Asked(m)
<1>1. PICK p \in Period :
        /\ asked \in [Pinned[p] -> Nat]
        /\ e = [at |-> [f \in Field |-> IF f \in Pinned[p] THEN asked[f] ELSE Any],
                repeat |-> e.repeat]
  BY DEF CronInv, Stored
<1>2. e.at = [f \in Field |-> IF f \in Pinned[p] THEN asked[f] ELSE Any]
  BY <1>1
<1>3. p # "year"
  BY <1>1, <1>2, TypeOfCurrent DEF Yearly
<1>4. "month" \notin Pinned[p] /\ Pinned[p] \subseteq Field /\ DOMAIN asked = Pinned[p]
  BY <1>1, <1>3 DEF Pinned, Period, Field
<1>5. \A f \in Field : m[f] \in Nat
  BY DEF Moment
<1>6. /\ Calendar(m).HOUR_OF_DAY = m["hour"] /\ Calendar(m).DAY_OF_MONTH = m["day"]
      /\ Calendar(m).DAY_OF_WEEK - 1 = m["dow"]
  BY <1>5 DEF Calendar, Field
<1>7. /\ e.at["hour"] = IF "hour" \in Pinned[p] THEN asked["hour"] ELSE Any
      /\ e.at["day"] = IF "day" \in Pinned[p] THEN asked["day"] ELSE Any
      /\ e.at["month"] = Any
      /\ e.at["dow"] = IF "dow" \in Pinned[p] THEN asked["dow"] ELSE Any
  BY <1>2, <1>4 DEF Field
<1>8. \A f \in Pinned[p] : asked[f] # Any
  BY <1>1, CalendarAssumption
<1>9. isSatisfiedBy(Calendar(m), e) <=>
        /\ "hour" \in Pinned[p] => m["hour"] = asked["hour"]
        /\ "day" \in Pinned[p] => m["day"] = asked["day"]
        /\ "dow" \in Pinned[p] => m["dow"] = asked["dow"]
  BY <1>6, <1>7, <1>8 DEF isSatisfiedBy, equalsOrUnevirsal
<1>10. QED
  BY <1>4, <1>9 DEF Asked, Field

\* For calendars of every size the job starts an hourly, daily, weekly or
\* monthly entry in exactly the hours its user chose.
THEOREM StartsAsChosen == CronSpec => StartsWhenChosen
<1>1. CronInv /\ [CronNext]_cronVars =>
        \A e \in stored : ~Yearly(e) /\ clock' # clock =>
          (e \in DueAt(clock') <=> Asked(clock'))
  <2> SUFFICES ASSUME CronInv, [CronNext]_cronVars, NEW e \in stored, ~Yearly(e), clock' # clock
               PROVE  e \in DueAt(clock') <=> Asked(clock')
    OBVIOUS
  <2>1. clock' \in Moment
    BY Preserved DEF CronInv, CronTypeOK
  <2>2. QED
    BY <2>1, DueIsAsked DEF DueAt
<1>2. QED
  BY <1>1, CronInductive, PTL DEF CronSpec, StartsWhenChosen
=============================================================================
