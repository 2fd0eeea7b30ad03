----------------------------- MODULE WfScheduler -----------------------------
(***************************************************************************)
(* The workflow scheduler of the repository tier: schedules that users     *)
(* submit from the start-workflow form, the page on which they edit them,  *)
(* and the hourly Quartz job that starts what is due.                      *)
(*                                                                         *)
(* A user's schedules are one JSON array, the content of a cronInfo node   *)
(* that the first request of the user creates.  Three writers replace that *)
(* array as a whole: write-job (append), update-jobs (overwrite with what  *)
(* the page holds) and the job (drop what it started).  Each runs in a     *)
(* repository transaction.  The repository (external) detects that the     *)
(* node changed since the transaction loaded it and runs the callback      *)
(* again; it does not detect that two transactions create a node for the   *)
(* same user.                                                              *)
(***************************************************************************)
EXTENDS Naturals, FiniteSets

CONSTANTS
  User,        \* people who schedule workflows
  Job,         \* submissions of the start-workflow form, each by one author
  author,      \* [Job -> User]
  Cron,        \* cron expressions the widget can build
  fires,       \* [Cron -> SUBSET Slot]: the hours isSatisfiedBy accepts
  repeats,     \* the expressions whose sixth field is "true"
  Hours,       \* length of the recurring calendar, in hours
  Server,      \* repository servers, each with its own Quartz scheduler
  Worker,      \* Quartz threads
  host,        \* [Worker -> Server]
  Conn,        \* HTTP connections of the browsers
  Fragile,     \* nodes whose content file may be lost from the content store
  Breakable,   \* jobs whose start may begin to throw
  MaxNodes,    \* bound: cronInfo nodes ever created
  MaxRequests, \* bound: requests ever sent
  NoUser

Slot    == 0 .. Hours - 1
Node    == 1 .. MaxNodes      \* in the order of creation, which is the
                              \* order getChildAssocs lists them in
NewNode == MaxNodes + 1       \* a request that found no node to use
Entry   == [job : Job, cron : Cron]

ASSUME ConstantsAssumption ==
  /\ Hours \in Nat \ {0}
  /\ MaxNodes \in Nat
  /\ MaxRequests \in Nat
  /\ author \in [Job -> User]
  /\ fires \in [Cron -> SUBSET Slot]
  /\ repeats \subseteq Cron
  /\ host \in [Worker -> Server]
  /\ Fragile \subseteq Node
  /\ Breakable \subseteq Job
  /\ NoUser \notin User

VARIABLES
  owner,    \* node -> the person its owner association points at
  content,  \* node -> the array in wfsch:workflowData
  written,  \* nodes whose workflowData was ever written
  lost,     \* nodes whose content file is missing from the store
  conn,     \* connection -> the request it carries
  open,     \* users with a schedules page that has a Save button
  page,     \* user -> what the open page holds
  sent,     \* number of requests sent (bound)
  run,      \* worker -> the execution of startWfByCurrentDate it carries
  now,      \* the hour of the wall clock
  fired,    \* servers whose trigger is spent for this hour
  up,       \* servers that run
  broken,   \* jobs whose start throws (definition undeployed, user gone)
  starts,   \* history: how often a job was started, 2 for twice or more
  acked,    \* history: entries whose submission the server committed
  saved     \* history: users who ever clicked Save on the page

nodeVars   == <<owner, content, written, lost>>
clientVars == <<conn, open, page, sent>>
clockVars  == <<now, fired, up>>
history    == <<starts, acked, saved>>
vars == <<nodeVars, clientVars, clockVars, run, broken, history>>

IdleConn == [kind |-> "idle", user |-> NoUser, body |-> {}, node |-> 0,
             seen |-> {}, stale |-> FALSE]
IdleRun  == [active |-> FALSE, slot |-> 0, todo |-> {}, node |-> 0,
             seen |-> {}, stale |-> FALSE]

ConnState == [kind : {"idle", "read", "write", "save"}, user : User \cup {NoUser},
              body : SUBSET Entry, node : 0 .. NewNode, seen : SUBSET Entry,
              stale : BOOLEAN]
RunState  == [active : BOOLEAN, slot : Slot, todo : SUBSET Node,
              node : 0 .. MaxNodes, seen : SUBSET Entry, stale : BOOLEAN]

TypeOK ==
  /\ owner \in [Node -> User \cup {NoUser}]
  /\ content \in [Node -> SUBSET Entry]
  /\ written \subseteq Node
  /\ lost \subseteq Node
  /\ conn \in [Conn -> ConnState]
  /\ \A c \in Conn : conn[c].kind # "idle" => conn[c].user \in User
  /\ open \subseteq User
  /\ page \in [User -> SUBSET Entry]
  /\ sent \in 0 .. MaxRequests
  /\ run \in [Worker -> RunState]
  /\ now \in Slot
  /\ fired \subseteq Server
  /\ up \subseteq Server
  /\ broken \subseteq Job
  /\ starts \in [Job -> 0 .. 2]
  /\ acked \subseteq Entry
  /\ saved \subseteq User

Init ==
  /\ owner = [n \in Node |-> NoUser]
  /\ content = [n \in Node |-> {}]
  /\ written = {}
  /\ lost = {}
  /\ conn = [c \in Conn |-> IdleConn]
  /\ open = {}
  /\ page = [u \in User |-> {}]
  /\ sent = 0
  /\ run = [w \in Worker |-> IdleRun]
  /\ now = 0
  /\ fired = {}
  /\ up = Server
  /\ broken = {}
  /\ starts = [j \in Job |-> 0]
  /\ acked = {}
  /\ saved = {}

-----------------------------------------------------------------------------
(* The expressions and the nodes.                                          *)

isSatisfiedLate(slot, e) == slot + 1 \in fires[e.cron]
isSatisfiedAt(slot, e) == slot \in fires[e.cron]
isRepeat(e) == e.cron \in repeats
Existing == {n \in Node : owner[n] # NoUser}
Owned(u) == {n \in Node : owner[n] = u}
IsNext(n) == owner[n] = NoUser /\ \A m \in Node : m < n => owner[m] # NoUser

\* A commit on node n makes every other transaction that loaded n stale:
\* its own write will be refused and its callback run again.
ConnTouched(c, n) ==
  IF conn[c].node = n THEN [conn[c] EXCEPT !.stale = TRUE] ELSE conn[c]
RunTouched(w, n) ==
  IF run[w].node = n THEN [run[w] EXCEPT !.stale = TRUE] ELSE run[w]

-----------------------------------------------------------------------------
(* The browser.                                                            *)

SendAnonymous(c, kind, u, body) ==
  /\ conn[c] = IdleConn
  /\ up # {}
  /\ sent < MaxRequests
  /\ sent' = sent + 1
  /\ conn' = [conn EXCEPT ![c] = [IdleConn EXCEPT !.kind = kind, !.body = body]]

Send(c, kind, u, body) ==
  /\ conn[c] = IdleConn
  /\ up # {}
  /\ sent < MaxRequests
  /\ sent' = sent + 1
  /\ conn' = [conn EXCEPT ![c] = [IdleConn EXCEPT !.kind = kind, !.user = u,
                                                  !.body = body]]

\* "Start later" on the start-workflow form posts one new entry.
Submit(c, j, k) ==
  /\ \A e \in acked : e.job # j
  /\ \A d \in Conn : conn[d].kind = "write" => \A e \in conn[d].body : e.job # j
  /\ Send(c, "write", author[j], {[job |-> j, cron |-> k]})
  /\ UNCHANGED <<nodeVars, open, page, clockVars, run, broken, history>>

\* The user opens the page of schedules, which asks for wfinfo.
OpenPage(c, u) ==
  /\ Send(c, "read", u, {})
  /\ UNCHANGED <<nodeVars, open, page, clockVars, run, broken, history>>

\* The page has one widget per entry; editing or deleting stays in the page.
EditCron(u, e, k) ==
  /\ u \in open
  /\ e \in page[u]
  /\ page' = [page EXCEPT ![u] = (@ \ {e}) \cup {[e EXCEPT !.cron = k]}]
  /\ UNCHANGED <<nodeVars, conn, open, sent, clockVars, run, broken, history>>

onClickDeleteCron(u, e) ==
  /\ u \in open
  /\ e \in page[u]
  /\ page' = [page EXCEPT ![u] = @ \ {e}]
  /\ UNCHANGED <<nodeVars, conn, open, sent, clockVars, run, broken, history>>

\* Save posts every entry the page holds, whatever the server holds by now.
SaveSchedules(c, u) ==
  /\ u \in open
  /\ Send(c, "save", u, page[u])
  /\ saved' = saved \cup {u}
  /\ UNCHANGED <<nodeVars, open, page, clockVars, run, broken, starts, acked>>

-----------------------------------------------------------------------------
(* The web scripts: one transaction per request, run again on a conflict.  *)

\* getCronRefByLogin: a node the user owns, or none, to be created.
Locate(c) ==
  /\ conn[c].kind # "idle"
  /\ conn[c].node = 0
  /\ \/ /\ Owned(conn[c].user) = {}
        /\ conn' = [conn EXCEPT ![c].node = NewNode, ![c].seen = {}]
     \/ \E n \in Owned(conn[c].user) :
          conn' = [conn EXCEPT ![c].node = n, ![c].seen = content[n]]
  /\ UNCHANGED <<nodeVars, open, page, sent, clockVars, run, broken, history>>

\* The node the request ends up writing: the one it found, or a new one.
Target(c, n) == \/ conn[c].node = n
                \/ conn[c].node = NewNode /\ IsNext(n)
CanRead(c)   == conn[c].node \notin lost

\* The form in which a content file that cannot be read counts as empty.
writeScheduleInfoUnread(c, n) ==
  /\ conn[c].kind = "write"
  /\ ~conn[c].stale
  /\ Target(c, n)
  /\ owner' = [owner EXCEPT ![n] = conn[c].user]
  /\ content' = [content EXCEPT ![n] = IF n \in lost THEN conn[c].body
                                       ELSE conn[c].seen \cup conn[c].body]
  /\ written' = written \cup {n}
  /\ lost' = lost \ {n}
  /\ conn' = [d \in Conn |-> IF d = c THEN IdleConn ELSE ConnTouched(d, n)]
  /\ run' = [w \in Worker |-> RunTouched(w, n)]
  /\ acked' = acked \cup conn[c].body
  /\ UNCHANGED <<open, page, sent, clockVars, broken, starts, saved>>

\* write-job: writeScheduleInfo appends the entry to what it read.
writeScheduleInfo(c, n) ==
  /\ conn[c].kind = "write"
  /\ CanRead(c)
  /\ ~conn[c].stale
  /\ Target(c, n)
  /\ owner' = [owner EXCEPT ![n] = conn[c].user]
  /\ content' = [content EXCEPT ![n] = conn[c].seen \cup conn[c].body]
  /\ written' = written \cup {n}
  /\ conn' = [d \in Conn |-> IF d = c THEN IdleConn ELSE ConnTouched(d, n)]
  /\ run' = [w \in Worker |-> RunTouched(w, n)]
  /\ acked' = acked \cup conn[c].body
  /\ UNCHANGED <<lost, open, page, sent, clockVars, broken, starts, saved>>

\* update-jobs: updateAllScheduleInfo overwrites without reading.
updateAllScheduleInfo(c, n) ==
  /\ conn[c].kind = "save"
  /\ ~conn[c].stale
  /\ Target(c, n)
  /\ owner' = [owner EXCEPT ![n] = conn[c].user]
  /\ content' = [content EXCEPT ![n] = conn[c].body]
  /\ written' = written \cup {n}
  /\ lost' = lost \ {n}
  /\ conn' = [d \in Conn |-> IF d = c THEN IdleConn ELSE ConnTouched(d, n)]
  /\ run' = [w \in Worker |-> RunTouched(w, n)]
  /\ UNCHANGED <<open, page, sent, clockVars, broken, history>>

\* wfinfo: readAllRecordByUser creates the node, without content, when the
\* user has none.  The page draws widgets and a Save button only for a
\* non-empty array.
readAllRecordByUser(c) ==
  /\ conn[c].kind = "read"
  /\ conn[c].node # 0
  /\ CanRead(c)
  /\ \/ conn[c].node # NewNode /\ UNCHANGED owner
     \/ /\ conn[c].node = NewNode
        /\ \E n \in Node : IsNext(n) /\ owner' = [owner EXCEPT ![n] = conn[c].user]
  /\ page' = [page EXCEPT ![conn[c].user] = conn[c].seen]
  /\ open' = IF conn[c].seen = {} THEN open \ {conn[c].user}
                                  ELSE open \cup {conn[c].user}
  /\ conn' = [conn EXCEPT ![c] = IdleConn]
  /\ UNCHANGED <<content, written, lost, sent, clockVars, run, broken, history>>

\* RetryingTransactionHelper runs the request's callback again.
RetryRequest(c) ==
  /\ conn[c].kind \in {"write", "save"}
  /\ conn[c].stale
  /\ conn' = [conn EXCEPT ![c].node = 0, ![c].seen = {}, ![c].stale = FALSE]
  /\ UNCHANGED <<nodeVars, open, page, sent, clockVars, run, broken, history>>

\* A request may fail (a content file that is missing, the server, the
\* network before commit): its transaction is rolled back.
FailRequest(c) ==
  /\ conn[c].kind # "idle"
  /\ conn' = [conn EXCEPT ![c] = IdleConn]
  /\ UNCHANGED <<nodeVars, open, page, sent, clockVars, run, broken, history>>

-----------------------------------------------------------------------------
(* The job.                                                                *)

\* The trigger of a running server fires once per hour; the calendar and the
\* list of children are taken now.
Fire(w) ==
  /\ host[w] \in up \ fired
  /\ ~run[w].active
  /\ run' = [run EXCEPT ![w] = [IdleRun EXCEPT !.active = TRUE, !.slot = now,
                                               !.todo = Existing]]
  /\ fired' = fired \cup {host[w]}
  /\ UNCHANGED <<nodeVars, clientVars, now, up, broken, history>>

AtChild(w, n) ==
  /\ run[w].active
  /\ run[w].node = 0
  /\ n \in run[w].todo
  /\ \A m \in run[w].todo : n <= m

\* The transaction for the next child loads it and parses its content.
OpenChild(w, n) ==
  /\ AtChild(w, n)
  /\ n \notin lost
  /\ n \in written
  /\ run' = [run EXCEPT ![w].todo = @ \ {n}, ![w].node = n, ![w].seen = content[n]]
  /\ UNCHANGED <<nodeVars, clientVars, clockVars, broken, history>>

\* The content file is missing: ContentIOException, logged, next child.
SkipChild(w, n) ==
  /\ AtChild(w, n)
  /\ n \in lost
  /\ run' = [run EXCEPT ![w].todo = @ \ {n}]
  /\ UNCHANGED <<nodeVars, clientVars, clockVars, broken, history>>

\* The content was never written: getReader answers null, and the exception
\* this causes leaves the loop.
AbortWithoutContent(w, n) ==
  /\ AtChild(w, n)
  /\ n \notin lost
  /\ n \notin written
  /\ run' = [run EXCEPT ![w] = IdleRun]
  /\ UNCHANGED <<nodeVars, clientVars, clockVars, broken, history>>

DueIn(w) == {e \in run[w].seen : isSatisfiedAt(run[w].slot, e)}
StartFails(w) == \E e \in DueIn(w) : e.job \in broken

\* A start throws: the child's transaction is rolled back, so nothing it
\* started counts, and the exception leaves the loop.
AbortOnFailure(w) ==
  /\ run[w].node # 0
  /\ StartFails(w)
  /\ run' = [run EXCEPT ![w] = IdleRun]
  /\ UNCHANGED <<nodeVars, clientVars, clockVars, broken, history>>

startSuitableWorkflowForgets(w) == {e \in run[w].seen : isRepeat(e)}

\* startSuitableWorkflow keeps what repeats and what was not started.
startSuitableWorkflow(w) == {e \in run[w].seen : isRepeat(e) \/ e \notin DueIn(w)}

More(k) == IF k < 2 THEN k + 1 ELSE 2

\* Two forms of the commit that would be wrong: one that does not notice
\* that the child changed, one that lets the other starts of a child stand
\* when one throws.
CommitChildBlind(w) ==
  LET n == run[w].node IN
  /\ n # 0
  /\ ~StartFails(w)
  /\ content' = [content EXCEPT ![n] = startSuitableWorkflow(w)]
  /\ lost' = lost \ {n}
  /\ starts' = [j \in Job |-> IF \E e \in DueIn(w) : e.job = j
                              THEN More(starts[j]) ELSE starts[j]]
  /\ run' = [v \in Worker |->
               IF v = w THEN [run[w] EXCEPT !.node = 0, !.seen = {}]
               ELSE RunTouched(v, n)]
  /\ conn' = [c \in Conn |-> ConnTouched(c, n)]
  /\ UNCHANGED <<owner, written, open, page, sent, clockVars, broken, acked, saved>>

CommitChildPartly(w) ==
  LET n == run[w].node IN
  /\ n # 0
  /\ ~run[w].stale
  /\ content' = [content EXCEPT ![n] = startSuitableWorkflow(w)]
  /\ lost' = lost \ {n}
  /\ starts' = [j \in Job |-> IF j \notin broken /\ \E e \in DueIn(w) : e.job = j
                              THEN More(starts[j]) ELSE starts[j]]
  /\ run' = [v \in Worker |->
               IF v = w THEN [run[w] EXCEPT !.node = 0, !.seen = {}]
               ELSE RunTouched(v, n)]
  /\ conn' = [c \in Conn |-> ConnTouched(c, n)]
  /\ UNCHANGED <<owner, written, open, page, sent, clockVars, broken, acked, saved>>

CommitChild(w) ==
  LET n == run[w].node IN
  /\ n # 0
  /\ ~run[w].stale
  /\ ~StartFails(w)
  /\ content' = [content EXCEPT ![n] = startSuitableWorkflow(w)]
  /\ lost' = lost \ {n}
  /\ starts' = [j \in Job |-> IF \E e \in DueIn(w) : e.job = j
                              THEN More(starts[j]) ELSE starts[j]]
  /\ run' = [v \in Worker |->
               IF v = w THEN [run[w] EXCEPT !.node = 0, !.seen = {}]
               ELSE RunTouched(v, n)]
  /\ conn' = [c \in Conn |-> ConnTouched(c, n)]
  /\ UNCHANGED <<owner, written, open, page, sent, clockVars, broken, acked, saved>>

RetryChildStarted(w) ==
  /\ run[w].node # 0
  /\ run[w].stale
  /\ ~StartFails(w)
  /\ run' = [run EXCEPT ![w].todo = @ \cup {run[w].node}, ![w].node = 0,
                        ![w].seen = {}, ![w].stale = FALSE]
  /\ starts' = [j \in Job |-> IF \E e \in DueIn(w) : e.job = j
                              THEN More(starts[j]) ELSE starts[j]]
  /\ UNCHANGED <<nodeVars, clientVars, clockVars, broken, acked, saved>>

\* The child changed under the transaction: the callback runs again.
RetryChild(w) ==
  /\ run[w].node # 0
  /\ run[w].stale
  /\ ~StartFails(w)
  /\ run' = [run EXCEPT ![w].todo = @ \cup {run[w].node}, ![w].node = 0,
                        ![w].seen = {}, ![w].stale = FALSE]
  /\ UNCHANGED <<nodeVars, clientVars, clockVars, broken, history>>

FinishRun(w) ==
  /\ run[w].active
  /\ run[w].node = 0
  /\ run[w].todo = {}
  /\ run' = [run EXCEPT ![w] = IdleRun]
  /\ UNCHANGED <<nodeVars, clientVars, clockVars, broken, history>>

-----------------------------------------------------------------------------
(* The clock, the servers and the world.                                   *)

\* A running server does not miss its hour; one that is down does.
HourPasses ==
  /\ up \subseteq fired
  /\ now' = (now + 1) % Hours
  /\ fired' = {}
  /\ UNCHANGED <<nodeVars, clientVars, up, run, broken, history>>

\* A crash takes the executions of the server with it, uncommitted work
\* undone; with the last server every request fails.
Crash(s) ==
  /\ s \in up
  /\ up' = up \ {s}
  /\ run' = [w \in Worker |-> IF host[w] = s THEN IdleRun ELSE run[w]]
  /\ conn' = [c \in Conn |-> IF up' = {} THEN IdleConn ELSE conn[c]]
  /\ UNCHANGED <<nodeVars, open, page, sent, now, fired, broken, history>>

\* After a restart the trigger waits for the next full hour.
Restart(s) ==
  /\ s \notin up
  /\ up' = up \cup {s}
  /\ fired' = fired \cup {s}
  /\ UNCHANGED <<nodeVars, clientVars, now, run, broken, history>>

Break(j) ==
  /\ broken' = IF j \in broken THEN broken \ {j} ELSE broken \cup {j}
  /\ UNCHANGED <<nodeVars, clientVars, clockVars, run, history>>

LoseContent(n) ==
  /\ n \in Fragile
  /\ n \in written
  /\ lost' = lost \cup {n}
  /\ UNCHANGED <<owner, content, written, clientVars, clockVars, run, broken, history>>

-----------------------------------------------------------------------------
Browser ==
  \/ \E c \in Conn, j \in Job, k \in Cron : Submit(c, j, k)
  \/ \E c \in Conn, u \in User : OpenPage(c, u) \/ SaveSchedules(c, u)
  \/ \E u \in User, e \in Entry :
       \/ onClickDeleteCron(u, e)
       \/ \E k \in Cron : EditCron(u, e, k)

Serve(c) ==
  \/ Locate(c)
  \/ readAllRecordByUser(c)
  \/ \E n \in Node : writeScheduleInfo(c, n) \/ updateAllScheduleInfo(c, n)
  \/ RetryRequest(c)

startWfByCurrentDate(w) ==
  \/ \E n \in Node : OpenChild(w, n) \/ SkipChild(w, n) \/ AbortWithoutContent(w, n)
  \/ AbortOnFailure(w)
  \/ CommitChild(w)
  \/ RetryChild(w)
  \/ FinishRun(w)

World ==
  \/ HourPasses
  \/ \E s \in Server : Crash(s) \/ Restart(s)
  \/ \E j \in Breakable : Break(j)
  \/ \E n \in Node : LoseContent(n)

Next ==
  \/ Browser
  \/ \E c \in Conn : Serve(c) \/ FailRequest(c)
  \/ \E w \in Worker : Fire(w) \/ startWfByCurrentDate(w)
  \/ World

Spec == Init /\ [][Next]_vars

\* Quartz fires and its threads go on, the servers answer, time passes.
Fairness ==
  /\ \A c \in Conn : WF_vars(Serve(c))
  /\ \A w \in Worker : WF_vars(Fire(w)) /\ WF_vars(startWfByCurrentDate(w))
  /\ WF_vars(HourPasses)

FairSpec == Spec /\ Fairness
-----------------------------------------------------------------------------
(* Properties.                                                             *)

At(e) == {n \in Node : e \in content[n]}

\* An entry whose submission the server acknowledged, and whose author never
\* saved the page, is neither lost nor run twice: until its hour comes it is
\* in exactly one node; when the job has started it, it is there still if it
\* repeats and gone if it does not.  Overlapping executions, concurrent
\* submissions, crashes and failing starts make no difference.
AckedKept ==
  \A e \in acked : author[e.job] \notin saved =>
    \/ /\ isRepeat(e) \/ starts[e.job] = 0
       /\ \E n \in Node : At(e) = {n}
    \/ /\ ~isRepeat(e) /\ starts[e.job] = 1
       /\ At(e) = {}

\* An entry leaves a node only because the job started it and it does not
\* repeat, or because its own author saved a page without it; even when the
\* job fails half way, conflicts or is overtaken.
LeavesByStartOrSave ==
  [][\A n \in Node : \A e \in content[n] \ content'[n] :
       \/ ~isRepeat(e) /\ starts'[e.job] = More(starts[e.job])
       \/ \E c \in Conn : /\ conn[c].kind = "save"
                          /\ conn[c].user = author[e.job]
                          /\ conn'[c].kind = "idle"]_vars

\* The servers run, and nothing keeps the job's loop from its end.
Healthy ==
  /\ up = Server
  /\ lost = {}
  /\ broken = {}
  /\ Existing \subseteq written

\* If the system is healthy from some moment on, every one-shot entry whose
\* hour recurs leaves its node: it is started, unless a save takes it away.
DueIsStarted ==
  <>[]Healthy =>
    \A e \in Entry : fires[e.cron] # {} /\ ~isRepeat(e) =>
      \A n \in Node : e \in content[n]
                       ~> e \notin content[n]

\* Pages, nodes, transactions and servers together keep the promise of
\* SchedulerPromise: the entries that wait are those that some node holds.
Promise == INSTANCE SchedulerPromise WITH waiting <- UNION {content[n] : n \in Node}
PromiseKept == Promise!Spec
=============================================================================
