-------------------------- MODULE SchedulerPromise --------------------------
(***************************************************************************)
(* What the workflow scheduler promises its users, without nodes, copies,  *)
(* transactions, executions or servers: an accepted schedule waits until   *)
(* an hour in which it is due; then it is started, once if it does not     *)
(* repeat, together with others of its author; nobody but its author takes *)
(* it away before.                                                         *)
(*                                                                         *)
(* An author who saves the page of schedules states what waits from then   *)
(* on; the page is a copy, so the statement may be any.                    *)
(***************************************************************************)
EXTENDS Naturals

CONSTANTS User, Job, author, Cron, fires, repeats, Hours

Slot  == 0 .. Hours - 1
Entry == [job : Job, cron : Cron]

VARIABLES
  waiting,  \* the entries that the job will start
  starts,   \* how often a job was started, 2 for twice or more
  acked,    \* the entries that were accepted
  saved     \* the users who ever saved the page

vars == <<waiting, starts, acked, saved>>

Init ==
  /\ waiting = {}
  /\ starts = [j \in Job |-> 0]
  /\ acked = {}
  /\ saved = {}

By(u) == {e \in Entry : author[e.job] = u}
OneShot(S) == {e \in S : e.cron \notin repeats}
More(k) == IF k < 2 THEN k + 1 ELSE 2

\* A submission is accepted once.
Accept(e) ==
  /\ \A f \in acked : f.job # e.job
  /\ author[e.job] \notin saved => e \notin waiting /\ starts[e.job] = 0
  /\ acked' = acked \cup {e}
  /\ waiting' = waiting \cup {e}
  /\ UNCHANGED <<starts, saved>>

Save(u) ==
  /\ saved' = saved \cup {u}
  /\ UNCHANGED <<waiting, starts, acked>>

Replace(u) ==
  /\ u \in saved
  /\ \E W \in SUBSET By(u) : waiting' = (waiting \ By(u)) \cup W
  /\ UNCHANGED <<starts, acked, saved>>

\* The entries S of one author are due in one hour and are started together.
\* What does not repeat waits no longer - unless its author's saves have put
\* it in two places - and had not been started before.
Start(u, S) ==
  LET done == OneShot(S) IN
  /\ \E h \in Slot : \A e \in S : h \in fires[e.cron]
  /\ starts' = [j \in Job |-> IF \E e \in S : e.job = j THEN More(starts[j]) ELSE starts[j]]
  /\ \E X \in SUBSET done :
       /\ waiting' = waiting \ X
       /\ u \notin saved => X = done /\ \A e \in done : starts[e.job] = 0
  /\ UNCHANGED <<acked, saved>>

Next ==
  \/ \E e \in Entry : Accept(e)
  \/ \E u \in User : Save(u) \/ Replace(u)
  \/ \E u \in User : \E S \in SUBSET (waiting \cap By(u)) : Start(u, S)

Spec == Init /\ [][Next]_vars
=============================================================================
