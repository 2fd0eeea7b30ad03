--------------------------- MODULE RelationsProofs ---------------------------
(***************************************************************************)
(* Theorems about Relations: for every number of workflows, projects,      *)
(* discussions and requests, what a request could see is not attached      *)
(* again, and the calendar of a project follows what is attached to it.    *)
(*                                                                         *)
(* DeadlinesFollow counts; what the steps keep is finer.  As long as no    *)
(* folder was made twice, the relations of a pair and its events carry the *)
(* same numbers, now (Paired) and in what each request has read: a request *)
(* that removes what it has read removes both or must be run again.        *)
(***************************************************************************)
EXTENDS Relations, FiniteSetTheorems, FunctionTheorems, WellFoundedInduction, TLAPS

Types ==
  /\ folders \subseteq Folder
  /\ nodes \subseteq RelNode
  /\ calendar \subseteq nodes
  /\ alive \subseteq Workflow
  /\ conn \in [Conn -> Request]
  /\ sent \in 0 .. MaxRequests
  /\ removed \subseteq Workflow \X Project

\* Projects are detached from their own page, and scripts know related workflows only.
RequestOK(q) ==
  q.op # "idle" =>
    /\ q.items # {} /\ q.items \subseteq Pairs(q.kind) /\ q.kind \in Kinds
    /\ q.kind = "related" => q.by = "wf"
    /\ q.kind = "project" /\ q.op = "delete" => q.by = "obj"
    /\ q.op \in {"attach", "detach", "list"} => q.kind = "related"

\* A project's relations are its children, events those of the workflow.
NodeOK(n) ==
  /\ n.kind \in Kinds \cup {"event"}
  /\ n.kind = "project" => n.by = "obj"
  /\ n.kind \in {"related", "event"} => n.by = "wf"
  /\ n.kind \in {"project", "event"} => n.obj \in Project
  /\ n.kind = "event" => n.wf \in Due

\* The folders a node hangs on.
Home(n) == [name |-> NameOf(n.kind, n.by, PairOf(n)), rank |-> n.home]
Link(n) == [name |-> NameOf(n.kind, IF n.kind = "event" THEN "wf" ELSE Other(n.by), PairOf(n)), rank |-> n.link]

Housed(fs, ns) == \A n \in ns : NodeOK(n) /\ Home(n) \in fs /\ Link(n) \in fs

\* The numbers of a pair's nodes of one kind.
Numbers(ns, k, p) == {n.no : n \in {m \in ns : m.kind = k /\ PairOf(m) = p}}

Paired(ns) == \A p \in (Due \X Project) \ removed : Numbers(ns, "project", p) = Numbers(ns, "event", p)

Requests ==
  \A c \in Conn :
    /\ RequestOK(conn[c])
    /\ conn[c].folders \subseteq folders
    /\ Housed(conn[c].folders, conn[c].seen)

Events ==
  /\ \A e \in calendar : e.kind = "event"
  /\ \A e \in nodes : e.kind = "event" /\ PairOf(e) \notin removed => e \in calendar

AllPaired == FoldersUnique => Paired(nodes) /\ \A c \in Conn : Paired(conn[c].seen)

IInv == Types /\ Requests /\ Housed(folders, nodes) /\ Events /\ AllPaired

-----------------------------------------------------------------------------
(* Names, ranks and numbers.                                               *)

LEMMA Least ==
  ASSUME NEW S \in SUBSET Nat, S # {}
  PROVE  \E m \in S : \A n \in S : m <= n
<1> DEFINE R == {p \in Nat \X Nat : p[1] < p[2]}
<1>1. IsWellFoundedOn(R, Nat)
  BY NatLessThanWellFounded DEF OpToRel
<1> HIDE DEF R
<1>2. PICK m \in S : \A n \in S : ~(<<n, m>> \in R)
  BY <1>1, WFMin
<1>3. \A n \in S : ~(n < m)
  BY <1>2 DEF R
<1> QED BY <1>3

\* The folder that is found by a name that is there.
LEMMA FirstRank ==
  ASSUME NEW fs \in SUBSET Folder, NEW name, \E f \in fs : f.name = name
  PROVE  /\ RankIn(fs, name) \in Ranks
         /\ [name |-> name, rank |-> RankIn(fs, name)] \in fs
<1>1. Ranked(fs, name) \in SUBSET Nat /\ Ranked(fs, name) \subseteq Ranks /\ Ranked(fs, name) # {}
  BY RelationsAssumption DEF Ranked, Folder
<1>2. PICK m \in Ranked(fs, name) : \A q \in Ranked(fs, name) : m <= q
  BY <1>1, Least
<1>3. \E r \in Ranks : IsFirst(fs, name, r)
  BY <1>1, <1>2 DEF IsFirst
<1>4. RankIn(fs, name) \in Ranks /\ IsFirst(fs, name, RankIn(fs, name))
  BY <1>3 DEF RankIn
<1>5. PICK f \in fs : f.name = name /\ f.rank = RankIn(fs, name)
  BY <1>4 DEF IsFirst, Ranked
<1>6. f = [name |-> name, rank |-> RankIn(fs, name)]
  BY <1>5 DEF Folder
<1> QED BY <1>4, <1>6

Unique(fs) == \A f, g \in fs : f.name = g.name => f = g

\* Where each name has one folder, it is the one that is found.
LEMMA OnlyRank ==
  ASSUME NEW fs \in SUBSET Folder, Unique(fs), NEW name, NEW rank, [name |-> name, rank |-> rank] \in fs
  PROVE  IsFirst(fs, name, rank)
<1> DEFINE f == [name |-> name, rank |-> rank]
<1>1. f \in fs /\ f.name = name /\ f.rank = rank /\ rank \in Nat
  BY RelationsAssumption DEF Folder
<1>2. \A g \in fs : g.name = name => g.rank = rank
  BY <1>1 DEF Unique
<1> QED BY <1>1, <1>2 DEF IsFirst, Ranked

LEMMA NameOK ==
  /\ \A k \in Kind : Pairs(k) \subseteq Workflow \X Object(k) /\ Object(k) \subseteq Objects
  /\ \A k, side, p : p \in Workflow \X Objects => NameOf(k, side, p) \in Name
  /\ \A p : NameOf("event", "wf", p) = NameOf("project", "wf", p)
<1>1. \A k \in Kind : Pairs(k) \subseteq Workflow \X Object(k) /\ Object(k) \subseteq Objects
  BY DEF Pairs, Kind, Object, Objects
<1>2. \A k, side, p : p \in Workflow \X Objects => NameOf(k, side, p) \in Name
  <2> SUFFICES ASSUME NEW k, NEW side, NEW p, p \in Workflow \X Objects PROVE NameOf(k, side, p) \in Name
    OBVIOUS
  <2>1. Store(k) \in {"pm", "aw"}
    BY DEF Store
  <2>2. (IF side = "wf" THEN p[1] ELSE p[2]) \in Objects
    BY DEF Objects
  <2> QED BY <2>1, <2>2 DEF NameOf, Name
<1>3. \A p : NameOf("event", "wf", p) = NameOf("project", "wf", p)
  BY DEF NameOf, Store
<1> QED BY <1>1, <1>2, <1>3

\* A node that has no number yet.
Draft == [kind : Kind \cup {"event"}, wf : Workflow, obj : Objects, by : Side,
          home : Ranks, link : Ranks, no : {0}]

Used(n) == {m.no : m \in {x \in nodes : [x EXCEPT !.no = 0] = n}}
FirstFree(used) == CHOOSE i \in 1 .. MaxDoubles : i \notin used /\ \A j \in 1 .. i - 1 : j \in used

LEMMA FreshOK ==
  ASSUME nodes \subseteq RelNode, NEW n \in Draft, Room(n)
  PROVE  /\ Fresh(n) \in RelNode
         /\ Fresh(n).no = FirstFree(Used(n))
         /\ Fresh(n).kind = n.kind /\ PairOf(Fresh(n)) = PairOf(n) /\ Fresh(n).by = n.by
         /\ Fresh(n).home = n.home /\ Fresh(n).link = n.link
<1>1. PICK i \in 1 .. MaxDoubles : [n EXCEPT !.no = i] \notin nodes
  BY DEF Room
<1>2. i \notin Used(n)
  <2> SUFFICES ASSUME NEW x \in nodes, [x EXCEPT !.no = 0] = n, x.no = i PROVE FALSE
    BY DEF Used
  <2>1. x \in RelNode
    OBVIOUS
  <2>2. x = [[x EXCEPT !.no = 0] EXCEPT !.no = i]
    BY <2>1 DEF RelNode
  <2> QED BY <1>1, <2>2
<1> DEFINE S == {j \in 1 .. MaxDoubles : j \notin Used(n)}
<1>3. S \in SUBSET Nat /\ S # {}
  BY <1>2
<1>4. PICK m \in S : \A j \in S : m <= j
  BY <1>3, Least
<1>5. \E j \in 1 .. MaxDoubles : j \notin Used(n) /\ \A h \in 1 .. j - 1 : h \in Used(n)
  <2>1. m \in 1 .. MaxDoubles /\ m \notin Used(n)
    BY <1>4
  <2>2. ASSUME NEW h \in 1 .. m - 1 PROVE h \in Used(n)
    <3>1. h \in 1 .. MaxDoubles /\ ~(m <= h)
      BY <2>1, RelationsAssumption
    <3> QED BY <1>4, <3>1
  <2> QED BY <2>1, <2>2
<1> HIDE DEF S
<1>6. FirstFree(Used(n)) \in 1 .. MaxDoubles
  BY <1>5 DEF FirstFree
<1>7. Fresh(n) = [n EXCEPT !.no = FirstFree(Used(n))]
  BY DEF Fresh, FirstFree, Used
<1> QED BY <1>6, <1>7 DEF Draft, RelNode, PairOf

\* Where each name has one folder, a project's relations and events are the same but
\* for their pair and their number.
LEMMA SameNode ==
  ASSUME NEW fs \in SUBSET Folder, Unique(fs),
         NEW m \in RelNode \cup Draft, NEW n \in RelNode \cup Draft,
         Housed(fs, {m, n}), m.kind = n.kind, n.kind \in {"project", "event"}, PairOf(m) = PairOf(n)
  PROVE  m.wf = n.wf /\ m.obj = n.obj /\ m.by = n.by /\ m.home = n.home /\ m.link = n.link
<1>1. m.by = n.by /\ m.wf = n.wf /\ m.obj = n.obj
  BY DEF Housed, NodeOK, PairOf
<1>2. Home(m).name = Home(n).name /\ Link(m).name = Link(n).name
  BY <1>1 DEF Home, Link
<1>3. Home(m) = Home(n) /\ Link(m) = Link(n)
  BY <1>2 DEF Housed, Unique
<1>4. Home(m).rank = m.home /\ Home(n).rank = n.home /\ Link(m).rank = m.link /\ Link(n).rank = n.link
  BY DEF Home, Link
<1> QED BY <1>1, <1>3, <1>4

\* Then the numbers that a new node may not have are those of its kind and pair.
LEMMA UsedIs ==
  ASSUME NEW fs \in SUBSET Folder, Unique(fs), nodes \subseteq RelNode, Housed(fs, nodes),
         NEW n \in Draft, Housed(fs, {n}), n.kind \in {"project", "event"}
  PROVE  Used(n) = Numbers(nodes, n.kind, PairOf(n))
<1>1. ASSUME NEW x \in nodes, [x EXCEPT !.no = 0] = n
      PROVE  x.kind = n.kind /\ PairOf(x) = PairOf(n)
  BY <1>1 DEF RelNode, PairOf
<1>2. ASSUME NEW x \in nodes, x.kind = n.kind, PairOf(x) = PairOf(n)
      PROVE  [x EXCEPT !.no = 0] = n
  <2>1. x.wf = n.wf /\ x.obj = n.obj /\ x.by = n.by /\ x.home = n.home /\ x.link = n.link
    <3>1. Housed(fs, {x, n})
      BY DEF Housed
    <3> QED BY <1>2, <3>1, SameNode
  <2>2. x \in RelNode /\ n.no = 0
    BY DEF Draft
  <2> QED BY <1>2, <2>1, <2>2 DEF RelNode, Draft
<1>3. {x \in nodes : [x EXCEPT !.no = 0] = n} = {x \in nodes : x.kind = n.kind /\ PairOf(x) = PairOf(n)}
  BY <1>1, <1>2
<1> QED BY <1>3, Zenon DEF Used, Numbers

-----------------------------------------------------------------------------
(* Creating relations.                                                     *)

\* Every name that is needed is found, or gets its folder.
LEMMA Found ==
  ASSUME NEW c \in Conn, conn[c].folders \subseteq Folder, NEW needed \in SUBSET Name,
         NEW rank \in [Missing(c, needed) -> Ranks]
  PROVE  /\ getFolder(rank) \subseteq Folder
         /\ \A name \in needed :
              LET fs == conn[c].folders \cup getFolder(rank) IN
              RankIn(fs, name) \in Ranks /\ [name |-> name, rank |-> RankIn(fs, name)] \in fs
<1>1. getFolder(rank) \subseteq Folder
  BY DEF getFolder, Folder, Missing
<1>2. ASSUME NEW name \in needed
      PROVE  \E f \in conn[c].folders \cup getFolder(rank) : f.name = name
  <2>1. CASE name \in Missing(c, needed)
    <3>1. [name |-> name, rank |-> rank[name]] \in getFolder(rank)
      BY <2>1 DEF getFolder
    <3> QED BY <3>1
  <2>2. CASE name \notin Missing(c, needed)
    BY <2>2 DEF Missing, Ranked
  <2> QED BY <2>1, <2>2
<1> QED BY <1>1, <1>2, FirstRank

\* A relation that is created, and its event.
LEMMA RelationOK ==
  ASSUME NEW q \in Request, RequestOK(q), q.op # "idle", NEW p \in q.items, q.kind = "project" => q.by = "obj",
         NEW fs \in SUBSET Folder,
         \A name \in {NameOf(q.kind, q.by, p), NameOf(q.kind, Other(q.by), p)} :
           RankIn(fs, name) \in Ranks /\ [name |-> name, rank |-> RankIn(fs, name)] \in fs
  PROVE  /\ LET r == Relation(fs, q.kind, q.by, p) IN
            r \in Draft /\ Housed(fs, {r}) /\ r.kind = q.kind /\ PairOf(r) = p
         /\ q.kind = "project" /\ p[1] \in Due =>
              LET e == Event(fs, p) IN e \in Draft /\ Housed(fs, {e}) /\ e.kind = "event" /\ PairOf(e) = p
<1> DEFINE r == Relation(fs, q.kind, q.by, p)
           e == Event(fs, p)
           home == RankIn(fs, NameOf(q.kind, q.by, p))
           link == RankIn(fs, NameOf(q.kind, Other(q.by), p))
<1>1. q.kind \in Kind /\ q.kind \in Kinds /\ q.by \in Side
  BY DEF RequestOK, Request
<1>2. p[1] \in Workflow /\ p[2] \in Object(q.kind) /\ p[2] \in Objects /\ p = <<p[1], p[2]>>
  <2>1. p \in Workflow \X Object(q.kind) /\ Object(q.kind) \subseteq Objects
    BY <1>1, NameOK DEF RequestOK
  <2> QED BY <2>1
<1>3. home \in Ranks /\ [name |-> NameOf(q.kind, q.by, p), rank |-> home] \in fs
      /\ link \in Ranks /\ [name |-> NameOf(q.kind, Other(q.by), p), rank |-> link] \in fs
  OBVIOUS
<1>4. r = [kind |-> q.kind, wf |-> p[1], obj |-> p[2], by |-> q.by, home |-> home, link |-> link, no |-> 0]
  BY DEF Relation
<1>5. q.kind # "event" /\ (q.kind = "project" => p[2] \in Project)
  BY <1>1, <1>2 DEF Kind, Object
<1> HIDE DEF home, link
<1>6. r \in Draft /\ r.kind = q.kind /\ PairOf(r) = p
  BY <1>1, <1>2, <1>3, <1>4 DEF Draft, PairOf
<1>7. NodeOK(r)
  BY <1>1, <1>4, <1>5 DEF NodeOK, RequestOK
<1>8. Home(r) = [name |-> NameOf(q.kind, q.by, p), rank |-> home]
      /\ Link(r) = [name |-> NameOf(q.kind, Other(q.by), p), rank |-> link]
  BY <1>4, <1>5, <1>6 DEF Home, Link
<1>9. Housed(fs, {r})
  BY <1>3, <1>7, <1>8 DEF Housed
<1>10. ASSUME q.kind = "project", p[1] \in Due
       PROVE  e \in Draft /\ Housed(fs, {e}) /\ e.kind = "event" /\ PairOf(e) = p
  <2>1. NameOf("event", "wf", p) = NameOf(q.kind, Other(q.by), p)
    BY <1>10, NameOK DEF Other
  <2>2. e = [kind |-> "event", wf |-> p[1], obj |-> p[2], by |-> "wf", home |-> link, link |-> link, no |-> 0]
    BY <2>1 DEF Event, Relation, link
  <2>3. e \in Draft /\ e.kind = "event" /\ PairOf(e) = p
    BY <1>2, <1>3, <2>2 DEF Draft, PairOf, Side
  <2>4. NodeOK(e)
    BY <1>5, <1>10, <2>2 DEF NodeOK
  <2>5. Home(e) = [name |-> NameOf(q.kind, Other(q.by), p), rank |-> link] /\ Link(e) = Home(e)
    BY <2>1, <2>2, <2>3 DEF Home, Link
  <2> QED BY <1>3, <2>3, <2>4, <2>5 DEF Housed
<1> QED BY <1>6, <1>9, <1>10

\* What a request creates: folders are only added, and the relations of ps each with its event.
LEMMA CreateStep ==
  ASSUME IInv, NEW c \in Conn, conn[c].op # "idle", NEW ps \in SUBSET New(c),
         ps # {} /\ conn[c].kind = "project" => conn[c].by = "obj",
         Create(c, ps), removed' = removed
  PROVE  /\ folders \subseteq folders' /\ folders' \subseteq Folder
         /\ nodes \subseteq nodes' /\ nodes' \subseteq RelNode /\ calendar' \subseteq nodes'
         /\ Housed(folders', nodes')
         /\ Events'
         /\ FoldersUnique' /\ Paired(nodes) => Paired(nodes')
         /\ \A n \in nodes' \ nodes : n.kind # "event" => n.kind = conn[c].kind /\ PairOf(n) \in ps /\ n.by = conn[c].by
<1> DEFINE q == conn[c]
           k == conn[c].kind
           by == conn[c].by
           needed == {NameOf(k, by, p) : p \in conn[c].items} \cup {NameOf(k, Other(by), p) : p \in ps}
<1>1. q \in Request /\ RequestOK(q) /\ q.folders \subseteq folders /\ q.folders \subseteq Folder
      /\ k \in Kind /\ k # "event" /\ folders \subseteq Folder /\ nodes \subseteq RelNode
      /\ ps \subseteq conn[c].items
  BY DEF IInv, Types, Requests, Request, Kind, New
<1>2. needed \subseteq Name
  <2>1. conn[c].items \subseteq Workflow \X Objects
    BY <1>1 DEF Request
  <2> QED BY <1>1, <2>1, NameOK
<1>3. PICK rank \in [Missing(c, needed) -> Ranks] :
        LET fs   == conn[c].folders \cup getFolder(rank)
            rels == {Relation(fs, k, by, p) : p \in ps}
            evts == {Event(fs, p) : p \in createEvent(k, ps)}
        IN /\ \A n \in rels \cup evts : Room(n)
           /\ folders' = folders \cup getFolder(rank)
           /\ nodes' = nodes \cup {Fresh(n) : n \in rels \cup evts}
           /\ calendar' = calendar \cup {Fresh(n) : n \in evts}
  BY DEF Create
<1> DEFINE fs == conn[c].folders \cup getFolder(rank)
           rels == {Relation(fs, k, by, p) : p \in ps}
           evts == {Event(fs, p) : p \in createEvent(k, ps)}
<1>4. /\ getFolder(rank) \subseteq Folder
      /\ \A name \in needed : RankIn(fs, name) \in Ranks /\ [name |-> name, rank |-> RankIn(fs, name)] \in fs
  BY <1>1, <1>2, Found
<1>5. /\ \A n \in rels \cup evts : Room(n)
      /\ folders' = folders \cup getFolder(rank)
      /\ nodes' = nodes \cup {Fresh(n) : n \in rels \cup evts}
      /\ calendar' = calendar \cup {Fresh(n) : n \in evts}
  BY <1>3
<1>6. fs \subseteq folders' /\ folders \subseteq folders' /\ folders' \subseteq Folder
  BY <1>1, <1>4, <1>5
<1>7. createEvent(k, ps) = IF k = "project" THEN {p \in ps : p[1] \in Due} ELSE {}
  BY DEF createEvent
<1>8. ASSUME NEW p \in ps
      PROVE  /\ LET r == Relation(fs, k, by, p) IN
                r \in Draft /\ Housed(fs, {r}) /\ r.kind = k /\ PairOf(r) = p
             /\ k = "project" /\ p[1] \in Due =>
                  LET e == Event(fs, p) IN e \in Draft /\ Housed(fs, {e}) /\ e.kind = "event" /\ PairOf(e) = p
  <2>1. {NameOf(k, by, p), NameOf(k, Other(by), p)} \subseteq needed
    BY <1>1
  <2>2. fs \subseteq Folder
    BY <1>6
  <2>3. q.op # "idle" /\ p \in q.items /\ (q.kind = "project" => q.by = "obj")
    BY <1>1
  <2> HIDE DEF needed, fs
  <2>4. \A name \in {NameOf(k, by, p), NameOf(k, Other(by), p)} :
          RankIn(fs, name) \in Ranks /\ [name |-> name, rank |-> RankIn(fs, name)] \in fs
    BY <1>4, <2>1
  <2> QED BY <1>1, <2>2, <2>3, <2>4, RelationOK
<1> HIDE DEF needed, fs
<1>9. \A n \in rels : n \in Draft /\ Housed(fs, {n}) /\ n.kind = k /\ PairOf(n) \in ps /\ n.by = by
  <2> SUFFICES ASSUME NEW n \in rels
               PROVE  n \in Draft /\ Housed(fs, {n}) /\ n.kind = k /\ PairOf(n) \in ps /\ n.by = by
    OBVIOUS
  <2>1. PICK p \in ps : n = Relation(fs, k, by, p)
    OBVIOUS
  <2> HIDE DEF rels
  <2>2. n.by = by
    BY <2>1 DEF Relation
  <2>3. n \in Draft /\ Housed(fs, {n}) /\ n.kind = k /\ PairOf(n) = p
    BY <1>8, <2>1
  <2> QED BY <2>2, <2>3
<1>10. \A n \in evts : n \in Draft /\ Housed(fs, {n}) /\ n.kind = "event" /\ PairOf(n) \in ps
  BY <1>7, <1>8
<1> HIDE DEF rels, evts
<1>11. ASSUME NEW n \in rels \cup evts
       PROVE  /\ Fresh(n) \in RelNode /\ Fresh(n).no = FirstFree(Used(n))
              /\ Fresh(n).kind = n.kind /\ PairOf(Fresh(n)) = PairOf(n) /\ Fresh(n).by = n.by
              /\ Fresh(n).home = n.home /\ Fresh(n).link = n.link
  <2>1. n \in Draft /\ Room(n)
    BY <1>5, <1>9, <1>10
  <2> QED BY <1>1, <2>1, FreshOK
<1>12. \A n \in nodes' \ nodes : \E m \in rels \cup evts : n = Fresh(m)
  BY <1>5
<1>13. nodes \subseteq nodes' /\ nodes' \subseteq RelNode /\ calendar' \subseteq nodes'
  BY <1>1, <1>5, <1>11 DEF IInv, Types
<1>14. Housed(folders', nodes')
  <2>1. ASSUME NEW n \in rels \cup evts
        PROVE  NodeOK(Fresh(n)) /\ Home(Fresh(n)) \in fs /\ Link(Fresh(n)) \in fs
    <3>1. NodeOK(n) /\ Home(n) \in fs /\ Link(n) \in fs
      BY <1>9, <1>10 DEF Housed
    <3>2. Home(Fresh(n)) = Home(n) /\ Link(Fresh(n)) = Link(n)
      BY <1>11 DEF Home, Link
    <3>3. Fresh(n).wf = n.wf /\ Fresh(n).obj = n.obj
      BY <1>11 DEF PairOf
    <3> QED BY <1>11, <3>1, <3>2, <3>3 DEF NodeOK
  <2> QED BY <1>5, <1>6, <2>1 DEF Housed, IInv
<1>15. Events'
  <2>1. \A e \in calendar' : e.kind = "event"
    BY <1>5, <1>10, <1>11 DEF IInv, Events
  <2>2. ASSUME NEW n \in nodes', n.kind = "event", PairOf(n) \notin removed PROVE n \in calendar'
    <3>1. CASE n \in nodes
      BY <1>5, <2>2, <3>1 DEF IInv, Events
    <3>2. CASE n \notin nodes
      <4>1. PICK m \in rels \cup evts : n = Fresh(m)
        BY <1>12, <3>2
      <4>2. m \in evts
        BY <1>1, <1>9, <1>11, <2>2, <4>1
      <4> QED BY <1>5, <4>1, <4>2
    <3> QED BY <3>1, <3>2
  <2> QED BY <2>1, <2>2 DEF Events
<1>16. \A n \in nodes' \ nodes : n.kind # "event" => n.kind = k /\ PairOf(n) \in ps /\ n.by = by
  <2> SUFFICES ASSUME NEW n \in nodes' \ nodes, n.kind # "event"
               PROVE  n.kind = k /\ PairOf(n) \in ps /\ n.by = by
    OBVIOUS
  <2>1. PICK m \in rels \cup evts : n = Fresh(m)
    BY <1>12
  <2>2. n.kind = m.kind /\ PairOf(n) = PairOf(m) /\ n.by = m.by
    BY <1>11, <2>1
  <2>3. m \in rels
    BY <1>10, <2>2
  <2> QED BY <1>9, <2>2, <2>3
<1>17. ASSUME FoldersUnique', Paired(nodes)
       PROVE  Paired(nodes')
  <2> SUFFICES ASSUME NEW p \in (Due \X Project) \ removed
               PROVE  Numbers(nodes', "project", p) = Numbers(nodes', "event", p)
    BY DEF Paired
  <2>1. Numbers(nodes, "project", p) = Numbers(nodes, "event", p)
    BY <1>17 DEF Paired
  <2>2. CASE k = "project" /\ p \in ps
    <3> DEFINE r == Relation(fs, k, by, p)
               e == Event(fs, p)
    <3>1. r \in rels /\ e \in evts
      BY <1>7, <2>2 DEF rels, evts
    <3>2. r \in Draft /\ Housed(fs, {r}) /\ r.kind = "project" /\ PairOf(r) = p
          /\ e \in Draft /\ Housed(fs, {e}) /\ e.kind = "event" /\ PairOf(e) = p
      BY <1>8, <2>2
    <3>3. \A n \in rels : PairOf(n) = p => n = r
      BY <1>8 DEF rels
    <3>4. \A n \in evts : PairOf(n) = p => n = e
      BY <1>7, <1>8 DEF evts
    <3> HIDE DEF r, e
    <3>5. Unique(folders') /\ Housed(folders', {r}) /\ Housed(folders', {e}) /\ Housed(folders', nodes)
      BY <1>6, <1>13, <1>14, <1>17, <3>2 DEF FoldersUnique, Unique, Housed
    <3>6. Used(r) = Numbers(nodes, "project", p) /\ Used(e) = Numbers(nodes, "event", p)
      BY <1>1, <1>6, <3>2, <3>5, UsedIs
    <3>7. Fresh(r).no = Fresh(e).no
      BY <1>11, <2>1, <3>1, <3>6
    <3> DEFINE new == {Fresh(n) : n \in rels \cup evts}
    <3>8. Numbers(nodes \cup new, "project", p) = Numbers(nodes, "project", p) \cup {Fresh(r).no}
      <4>1. \A n \in rels \cup evts : n.kind = "project" /\ PairOf(n) = p => n = r
        BY <1>10, <3>3
      <4>2. \A x \in new : x.kind = "project" /\ PairOf(x) = p => x = Fresh(r)
        BY <1>11, <4>1
      <4>3. Fresh(r) \in new /\ Fresh(r).kind = "project" /\ PairOf(Fresh(r)) = p
        BY <1>11, <3>1, <3>2
      <4> HIDE DEF new
      <4>4. {m \in nodes \cup new : m.kind = "project" /\ PairOf(m) = p}
              = {m \in nodes : m.kind = "project" /\ PairOf(m) = p} \cup {Fresh(r)}
        BY <4>2, <4>3
      <4> QED BY <4>4 DEF Numbers
    <3>9. Numbers(nodes \cup new, "event", p) = Numbers(nodes, "event", p) \cup {Fresh(e).no}
      <4>1. \A n \in rels \cup evts : n.kind = "event" /\ PairOf(n) = p => n = e
        BY <1>1, <1>9, <3>4
      <4>2. \A x \in new : x.kind = "event" /\ PairOf(x) = p => x = Fresh(e)
        BY <1>11, <4>1
      <4>3. Fresh(e) \in new /\ Fresh(e).kind = "event" /\ PairOf(Fresh(e)) = p
        BY <1>11, <3>1, <3>2
      <4> HIDE DEF new
      <4>4. {m \in nodes \cup new : m.kind = "event" /\ PairOf(m) = p}
              = {m \in nodes : m.kind = "event" /\ PairOf(m) = p} \cup {Fresh(e)}
        BY <4>2, <4>3
      <4> QED BY <4>4 DEF Numbers
    <3>10. nodes' = nodes \cup new
      BY <1>5
    <3> HIDE DEF new
    <3> QED BY <2>1, <3>7, <3>8, <3>9, <3>10
  <2>3. CASE ~(k = "project" /\ p \in ps)
    <3>1. \A n \in rels \cup evts : ~(n.kind \in {"project", "event"} /\ PairOf(n) = p)
      BY <1>1, <1>7, <1>9, <1>10, <2>3 DEF evts
    <3>2. {m \in nodes' : m.kind = "project" /\ PairOf(m) = p} = {m \in nodes : m.kind = "project" /\ PairOf(m) = p}
          /\ {m \in nodes' : m.kind = "event" /\ PairOf(m) = p} = {m \in nodes : m.kind = "event" /\ PairOf(m) = p}
      BY <1>5, <1>11, <3>1
    <3> QED BY <2>1, <3>2 DEF Numbers
  <2> QED BY <2>2, <2>3
<1> QED BY <1>6, <1>13, <1>14, <1>15, <1>16, <1>17

-----------------------------------------------------------------------------
(* Removing relations.                                                     *)

\* Where each name has one folder, a request removes all of a pair that it has read.
LEMMA RemovedIs ==
  ASSUME IInv, FoldersUnique, NEW c \in Conn, conn[c].kind = "project", conn[c].by = "obj", NEW p
  PROVE  /\ Detached(c, p) = {n \in conn[c].seen : n.kind = "project" /\ PairOf(n) = p}
         /\ Deadlines(c, p) = {n \in conn[c].seen : n.kind = "event" /\ PairOf(n) = p}
<1> DEFINE fs == conn[c].folders
           ns == conn[c].seen
<1>1. fs \subseteq Folder /\ Unique(fs) /\ Housed(fs, ns)
  BY DEF IInv, Types, Requests, Request, FoldersUnique, Unique
<1>2. ASSUME NEW n \in ns, n.kind \in {"project", "event"}, PairOf(n) = p
      PROVE  IsFirst(fs, NameOf(n.kind, n.by, p), n.home) /\ n.by = IF n.kind = "event" THEN "wf" ELSE "obj"
  <2>1. [name |-> NameOf(n.kind, n.by, p), rank |-> n.home] \in fs
    BY <1>1, <1>2 DEF Housed, Home
  <2>2. n.by = IF n.kind = "event" THEN "wf" ELSE "obj"
    BY <1>1, <1>2 DEF Housed, NodeOK
  <2> QED BY <1>1, <2>1, <2>2, OnlyRank
<1> HIDE DEF fs, ns
<1>3. Detached(c, p) = {n \in Children(fs, ns, "project", "obj", p) : PairOf(n) = p}
      /\ Deadlines(c, p) = {n \in Children(fs, ns, "event", "wf", p) : PairOf(n) = p}
  BY DEF Detached, Deadlines, fs, ns
<1>4. {n \in Children(fs, ns, "project", "obj", p) : PairOf(n) = p} = {n \in ns : n.kind = "project" /\ PairOf(n) = p}
  BY <1>2 DEF Children
<1>5. {n \in Children(fs, ns, "event", "wf", p) : PairOf(n) = p} = {n \in ns : n.kind = "event" /\ PairOf(n) = p}
  BY <1>2 DEF Children
<1> QED BY <1>3, <1>4, <1>5 DEF ns

\* A node that was read and is stored now is known by its kind, pair and number.
LEMMA SeenIsStored ==
  ASSUME IInv, FoldersUnique, NEW c \in Conn, NEW m \in conn[c].seen, NEW n \in nodes,
         m.kind = n.kind, n.kind \in {"project", "event"}, PairOf(m) = PairOf(n), m.no = n.no
  PROVE  m = n
<1>1. m \in RelNode /\ n \in RelNode /\ folders \in SUBSET Folder /\ Unique(folders)
  BY DEF IInv, Types, Request, FoldersUnique, Unique
<1>2. Housed(folders, {m, n})
  BY DEF IInv, Requests, Housed
<1>3. m.wf = n.wf /\ m.obj = n.obj /\ m.by = n.by /\ m.home = n.home /\ m.link = n.link
  BY <1>1, <1>2, SameNode
<1> QED BY <1>1, <1>3 DEF RelNode

\* What remains of a pair's nodes of one kind when all that a request has read are removed.
LEMMA Remaining ==
  ASSUME IInv, FoldersUnique, NEW c \in Conn, NEW k \in {"project", "event"}, NEW p,
         NEW ns \in SUBSET nodes, ns \subseteq conn[c].seen,
         {n \in ns : n.kind = k /\ PairOf(n) = p} = {n \in conn[c].seen : n.kind = k /\ PairOf(n) = p}
  PROVE  Numbers(nodes \ ns, k, p) = Numbers(nodes, k, p) \ Numbers(conn[c].seen, k, p)
<1>1. ASSUME NEW n \in nodes, n.kind = k, PairOf(n) = p
      PROVE  n \in ns <=> n.no \in Numbers(conn[c].seen, k, p)
  <2>1. ASSUME NEW m \in conn[c].seen, m.kind = k, PairOf(m) = p, m.no = n.no
        PROVE  n \in ns
    <3>1. m = n
      BY <1>1, <2>1, SeenIsStored
    <3>2. m \in ns
      BY <2>1
    <3> QED BY <3>1, <3>2
  <2> QED BY <1>1, <2>1 DEF Numbers
<1>2. \A i, j \in nodes : i.kind = k /\ PairOf(i) = p /\ j.kind = k /\ PairOf(j) = p /\ i.no = j.no
        => (i \in ns <=> j \in ns)
  BY <1>1
<1> QED BY <1>1, <1>2 DEF Numbers

\* Removing keeps the invariant if it removes relations and events alike.
LEMMA DeleteStep ==
  ASSUME IInv, NEW c \in Conn, NEW ns \in SUBSET conn[c].seen, Delete(c, ns),
         NEW q \in Request, RequestOK(q), q.folders = {}, q.seen = {}, conn' = [conn EXCEPT ![c] = q],
         UNCHANGED <<folders, alive, sent, removed>>,
         FoldersUnique => \A p \in (Due \X Project) \ removed :
           Numbers(nodes', "project", p) = Numbers(nodes', "event", p)
  PROVE  IInv'
<1>1. ns \subseteq nodes /\ nodes' = nodes \ ns /\ calendar' = calendar \ ns
  BY DEF Delete
<1>2. /\ conn' \in [Conn -> Request] /\ conn'[c] = q /\ \A d \in Conn \ {c} : conn'[d] = conn[d]
  BY DEF IInv, Types
<1>3. Types'
  BY <1>1, <1>2 DEF IInv, Types
<1>4. Requests'
  BY <1>2 DEF IInv, Requests, Housed
<1>5. Housed(folders', nodes') /\ Events'
  BY <1>1 DEF IInv, Housed, Events
<1>6. AllPaired'
  <2>1. Paired(conn[c].seen)'
    BY <1>2 DEF Paired, Numbers
  <2>2. FoldersUnique' => Paired(nodes)'
    BY DEF FoldersUnique, Paired
  <2>3. FoldersUnique' => \A d \in Conn \ {c} : Paired(conn[d].seen)'
    BY <1>2 DEF IInv, AllPaired, FoldersUnique, Paired
  <2> QED BY <1>2, <2>1, <2>2, <2>3 DEF AllPaired
<1> QED BY <1>3, <1>4, <1>5, <1>6 DEF IInv
-----------------------------------------------------------------------------
(* The steps.                                                              *)

LEMMA InitIInv == Init => IInv
<1> SUFFICES ASSUME Init PROVE IInv
  OBVIOUS
<1>1. /\ folders = {} /\ nodes = {} /\ calendar = {} /\ alive = Workflow /\ sent = 0 /\ removed = {}
      /\ conn = [c \in Conn |-> Idle(0)]
  BY DEF Init
<1>2. Idle(0) \in Request /\ Idle(0).op = "idle" /\ Idle(0).folders = {} /\ Idle(0).seen = {}
  BY DEF Idle, Request, Kind, Side
<1>3. 0 \in 0 .. MaxRequests
  BY RelationsAssumption
<1>4. Types
  BY <1>1, <1>2, <1>3 DEF Types
<1>5. Requests /\ Housed(folders, nodes) /\ Events
  BY <1>1, <1>2 DEF Requests, RequestOK, Housed, Events
<1>6. AllPaired
  <2>1. Paired({})
    BY DEF Paired, Numbers
  <2>2. \A c \in Conn : conn[c].seen = {}
    BY <1>1, <1>2
  <2>3. \A c \in Conn : Paired(conn[c].seen)
    BY <2>1, <2>2
  <2> QED BY <1>1, <2>1, <2>3 DEF AllPaired
<1> QED BY <1>4, <1>5, <1>6 DEF IInv

\* One connection goes on, what is stored only grows.
LEMMA ConnStep ==
  ASSUME IInv, NEW c \in Conn, NEW q \in Request, conn' = [conn EXCEPT ![c] = q],
         RequestOK(q), q.folders \subseteq folders', Housed(q.folders, q.seen),
         FoldersUnique' => Paired(q.seen),
         folders \subseteq folders', folders' \subseteq Folder, nodes' \subseteq RelNode, calendar' \subseteq nodes',
         Housed(folders', nodes'), Events', FoldersUnique' => Paired(nodes'),
         alive' = alive, sent' \in 0 .. MaxRequests, removed' = removed
  PROVE  IInv'
<1>1. conn' \in [Conn -> Request] /\ conn'[c] = q /\ \A d \in Conn \ {c} : conn'[d] = conn[d]
  BY DEF IInv, Types
<1>2. Types'
  BY <1>1 DEF IInv, Types
<1>3. Requests'
  BY <1>1 DEF IInv, Requests
<1>4. FoldersUnique' => FoldersUnique
  BY DEF FoldersUnique
<1>5. ASSUME FoldersUnique', NEW d \in Conn
      PROVE  Paired(conn'[d].seen)
  BY <1>1, <1>4, <1>5 DEF IInv, AllPaired
<1>6. AllPaired'
  BY <1>5 DEF AllPaired, Paired
<1> QED BY <1>2, <1>3, <1>6 DEF IInv

\* A request that begins, or ends, has read nothing.
LEMMA Begun ==
  ASSUME NEW q, q.folders = {}, q.seen = {}
  PROVE  q.folders \subseteq folders /\ Housed(q.folders, q.seen) /\ Paired(q.seen)
BY DEF Housed, Paired, Numbers

LEMMA Ended ==
  ASSUME NEW status \in {0, 200, 500}
  PROVE  /\ Idle(status) \in Request /\ RequestOK(Idle(status))
         /\ Idle(status).folders = {} /\ Idle(status).seen = {}
BY DEF Idle, Request, RequestOK, Kind, Side

\* A request as it is sent, and when it has read or forgotten what is stored.
Asking(op, k, by, items) == [Idle(0) EXCEPT !.op = op, !.kind = k, !.by = by, !.items = items]
Reading(q, b, fs, ns) == [q EXCEPT !.looked = b, !.folders = fs, !.seen = ns]

RequestOf(O, I, F, N, S) ==
  [op : O, kind : Kind, by : Side, items : I, looked : BOOLEAN, folders : F, seen : N, status : S]

LEMMA RequestShape ==
  \E O, I, F, N, S :
    /\ Request = RequestOf(O, I, F, N, S)
    /\ O = {"idle", "put", "delete", "attach", "detach", "list"} /\ I = SUBSET (Workflow \X Objects)
    /\ F = SUBSET Folder /\ N = SUBSET RelNode
BY Zenon DEF Request, RequestOf

LEMMA SentOK ==
  ASSUME NEW op \in {"put", "delete", "attach", "detach", "list"}, NEW k \in Kind, NEW by \in Side,
         NEW items \in SUBSET (Workflow \X Objects)
  PROVE  LET q == Asking(op, k, by, items) IN
         q \in Request /\ q.op = op /\ q.kind = k /\ q.by = by /\ q.items = items /\ q.folders = {} /\ q.seen = {}
<1> DEFINE i == Idle(0)
           q == Asking(op, k, by, items)
<1>1. PICK O, I, F, N, S :
        /\ Request = RequestOf(O, I, F, N, S) /\ op \in O /\ items \in I
  <2>1. PICK O, I, F, N, S :
          /\ Request = RequestOf(O, I, F, N, S)
          /\ O = {"idle", "put", "delete", "attach", "detach", "list"} /\ I = SUBSET (Workflow \X Objects)
    BY RequestShape
  <2>2. op \in O /\ items \in I
    BY <2>1
  <2> QED BY <2>1, <2>2
<1>2. i \in RequestOf(O, I, F, N, S) /\ i.folders = {} /\ i.seen = {}
  BY <1>1, Ended
<1>3. q = [i EXCEPT !.op = op, !.kind = k, !.by = by, !.items = items]
  BY DEF Asking
<1> HIDE DEF i, q
<1>4. q \in RequestOf(O, I, F, N, S)
  BY <1>1, <1>2, <1>3 DEF RequestOf
<1>5. q.op = op /\ q.kind = k /\ q.by = by /\ q.items = items /\ q.folders = {} /\ q.seen = {}
  BY <1>2, <1>3 DEF RequestOf
<1> QED BY <1>1, <1>4, <1>5 DEF q

LEMMA ReadOK ==
  ASSUME NEW q \in Request, NEW b \in BOOLEAN, NEW fs \in SUBSET Folder, NEW ns \in SUBSET RelNode
  PROVE  LET r == Reading(q, b, fs, ns) IN
         r \in Request /\ r.folders = fs /\ r.seen = ns
           /\ r.op = q.op /\ r.kind = q.kind /\ r.by = q.by /\ r.items = q.items
<1> DEFINE r == Reading(q, b, fs, ns)
<1>1. PICK O, I, F, N, S :
        /\ Request = RequestOf(O, I, F, N, S) /\ fs \in F /\ ns \in N
  <2>1. PICK O, I, F, N, S : Request = RequestOf(O, I, F, N, S) /\ F = SUBSET Folder /\ N = SUBSET RelNode
    BY RequestShape
  <2> QED BY <2>1
<1>2. r = [q EXCEPT !.looked = b, !.folders = fs, !.seen = ns] /\ q \in RequestOf(O, I, F, N, S)
  BY <1>1 DEF Reading
<1> HIDE DEF r
<1>3. r \in RequestOf(O, I, F, N, S)
  BY <1>1, <1>2 DEF RequestOf
<1>4. r.folders = fs /\ r.seen = ns /\ r.op = q.op /\ r.kind = q.kind /\ r.by = q.by /\ r.items = q.items
  BY <1>2 DEF RequestOf
<1> QED BY <1>1, <1>3, <1>4 DEF r

LEMMA SendStep ==
  ASSUME IInv, NEW c \in Conn, NEW op \in {"put", "delete", "attach", "detach", "list"}, NEW k \in Kinds, NEW by \in Side,
         NEW items \in SUBSET Pairs(k), items # {}, Send(c, op, k, by, items),
         k = "related" => by = "wf",
         k = "project" /\ op = "delete" => by = "obj",
         op \in {"attach", "detach", "list"} => k = "related",
         UNCHANGED <<folders, nodes, calendar, alive, removed>>
  PROVE  IInv'
<1> DEFINE q == Asking(op, k, by, items)
<1>1. k \in Kind /\ items \in SUBSET (Workflow \X Objects)
  BY RelationsAssumption, NameOK
<1>2. q \in Request /\ q.op = op /\ q.kind = k /\ q.by = by /\ q.items = items /\ q.folders = {} /\ q.seen = {}
  BY <1>1, SentOK
<1>3. q \in Request
  BY <1>2
<1>4. RequestOK(q) /\ q.folders = {} /\ q.seen = {}
  <2> HIDE DEF q
  <2> QED BY <1>2 DEF RequestOK
<1>5. conn' = [conn EXCEPT ![c] = q] /\ sent' \in 0 .. MaxRequests
  BY RelationsAssumption DEF Send, IInv, Types, Asking
<1> HIDE DEF q
<1>6. q.folders \subseteq folders /\ Housed(q.folders, q.seen) /\ Paired(q.seen)
  BY <1>4, Begun
<1>7. Events' /\ (FoldersUnique' => Paired(nodes'))
  BY DEF IInv, Events, AllPaired, FoldersUnique, Paired
<1> QED BY <1>3, <1>4, <1>5, <1>6, <1>7, ConnStep DEF IInv, Types

\* The pages and scripts.
LEMMA ClickStep ==
  ASSUME IInv, NEW c \in Conn, onAttachWorkflow(c) \/ onDetachWorkflow(c) \/ CallService(c)
  PROVE  IInv'
<1>1. CASE onAttachWorkflow(c)
  <2>1. PICK k \in Kinds, by \in Side : \E items \in SUBSET Pairs(k) :
          items # {} /\ (k = "related" => by = "wf") /\ Send(c, "put", k, by, items)
    BY <1>1 DEF onAttachWorkflow
  <2>2. PICK items \in SUBSET Pairs(k) : items # {} /\ (k = "related" => by = "wf") /\ Send(c, "put", k, by, items)
    BY <2>1
  <2>3. UNCHANGED <<folders, nodes, calendar, alive, removed>>
    BY <1>1 DEF onAttachWorkflow
  <2> QED BY <2>2, <2>3, SendStep
<1>2. CASE onDetachWorkflow(c)
  <2>1. PICK k \in Kinds : \E p \in Pairs(k) : Send(c, "delete", k, IF k = "project" THEN "obj" ELSE "wf", {p})
    BY <1>2 DEF onDetachWorkflow
  <2>2. PICK p \in Pairs(k) : Send(c, "delete", k, IF k = "project" THEN "obj" ELSE "wf", {p})
    BY <2>1
  <2> DEFINE by == IF k = "project" THEN "obj" ELSE "wf"
             items == {p}
  <2>3. Send(c, "delete", k, by, items) /\ by \in Side /\ items \in SUBSET Pairs(k) /\ items # {}
        /\ (k = "related" => by = "wf") /\ (k = "project" => by = "obj")
    BY <2>2 DEF Side
  <2>4. UNCHANGED <<folders, nodes, calendar, alive, removed>>
    BY <1>2 DEF onDetachWorkflow
  <2> HIDE DEF by, items
  <2> QED BY <2>3, <2>4, SendStep
<1>3. CASE CallService(c)
  <2>1. PICK op \in {"attach", "detach", "list"}, p \in Pairs("related") : Send(c, op, "related", "wf", {p})
    BY <1>3 DEF CallService
  <2> DEFINE items == {p}
  <2>2. Send(c, op, "related", "wf", items) /\ "wf" \in Side /\ items \in SUBSET Pairs("related") /\ items # {}
    BY <2>1 DEF Side
  <2>3. UNCHANGED <<folders, nodes, calendar, alive, removed>> /\ "related" \in Kinds
    BY <1>3 DEF CallService
  <2> HIDE DEF items
  <2> QED BY <2>2, <2>3, SendStep
<1> QED BY <1>1, <1>2, <1>3

\* What a request reads is as sound as what is stored; run again, it has read nothing.
LEMMA LookStep ==
  ASSUME IInv, NEW c \in Conn, Look(c) \/ RetryRequest(c) \/ LoseRequest(c)
  PROVE  IInv'
<1>1. UNCHANGED <<folders, nodes, calendar, alive, sent, removed>>
  BY DEF Look, RetryRequest, LoseRequest
<1>2. conn[c] \in Request /\ RequestOK(conn[c]) /\ folders \subseteq Folder /\ nodes \subseteq RelNode
  BY DEF IInv, Types, Requests
<1>3. PICK q \in Request :
        /\ conn' = [conn EXCEPT ![c] = q] /\ RequestOK(q) /\ q.folders \subseteq folders
        /\ Housed(q.folders, q.seen) /\ (FoldersUnique => Paired(q.seen))
  <2>1. CASE Look(c)
    <3> DEFINE b == TRUE
               q == Reading(conn[c], b, folders, nodes)
    <3>0. b \in BOOLEAN
      OBVIOUS
    <3>1. conn' = [conn EXCEPT ![c] = q]
      BY <2>1 DEF Look, IInv, Types, Reading
    <3> HIDE DEF b
    <3>2. /\ q \in Request /\ q.folders = folders /\ q.seen = nodes
          /\ q.op = conn[c].op /\ q.kind = conn[c].kind /\ q.by = conn[c].by /\ q.items = conn[c].items
      BY <1>2, <3>0, ReadOK
    <3> HIDE DEF q
    <3>3. RequestOK(q)
      BY <1>2, <3>2 DEF RequestOK
    <3> QED BY <3>1, <3>2, <3>3 DEF IInv, AllPaired
  <2>2. CASE RetryRequest(c)
    <3> DEFINE b == FALSE
               q == Reading(conn[c], b, {}, {})
    <3>0. b \in BOOLEAN
      OBVIOUS
    <3>1. conn' = [conn EXCEPT ![c] = q]
      BY <2>2 DEF RetryRequest, IInv, Types, Reading
    <3> HIDE DEF b
    <3>2. /\ q \in Request /\ q.folders = {} /\ q.seen = {}
          /\ q.op = conn[c].op /\ q.kind = conn[c].kind /\ q.by = conn[c].by /\ q.items = conn[c].items
      BY <1>2, <3>0, ReadOK
    <3> HIDE DEF q
    <3>3. RequestOK(q)
      BY <1>2, <3>2 DEF RequestOK
    <3> QED BY <3>1, <3>2, <3>3, Begun
  <2>3. CASE LoseRequest(c)
    <3>1. conn' = [conn EXCEPT ![c] = Idle(0)]
      BY <2>3 DEF LoseRequest, Answer
    <3> QED BY <3>1, Ended, Begun
  <2> QED BY <2>1, <2>2, <2>3
<1>4. Events' /\ (FoldersUnique' => Paired(nodes')) /\ (FoldersUnique' => FoldersUnique)
  BY <1>1 DEF IInv, Events, AllPaired, FoldersUnique, Paired
<1> QED BY <1>1, <1>3, <1>4, ConnStep DEF IInv, Types

\* What is created is created soundly, whatever the answer.
LEMMA CreatedStep ==
  ASSUME IInv, NEW c \in Conn, conn[c].op # "idle", NEW ps \in SUBSET New(c),
         ps # {} /\ conn[c].kind = "project" => conn[c].by = "obj",
         Create(c, ps), UNCHANGED <<alive, sent, removed>>,
         NEW q \in Request, RequestOK(q), q.folders = {}, q.seen = {}, conn' = [conn EXCEPT ![c] = q]
  PROVE  IInv'
<1>1. /\ folders \subseteq folders' /\ folders' \subseteq Folder
      /\ nodes' \subseteq RelNode /\ calendar' \subseteq nodes'
      /\ Housed(folders', nodes') /\ Events'
      /\ FoldersUnique' /\ Paired(nodes) => Paired(nodes')
  BY CreateStep
<1>2. FoldersUnique' => Paired(nodes)
  BY <1>1 DEF IInv, AllPaired, FoldersUnique
<1>3. sent' \in 0 .. MaxRequests
  BY DEF IInv, Types
<1>4. q.folders \subseteq folders' /\ Housed(q.folders, q.seen) /\ Paired(q.seen)
  BY Begun
<1>5. FoldersUnique' => Paired(q.seen) /\ Paired(nodes')
  BY <1>1, <1>2, <1>4
<1> QED BY <1>1, <1>3, <1>4, <1>5, ConnStep

\* Nothing of a project is created from the workflow's side: the script throws.
LEMMA PushSide ==
  ASSUME IInv, NEW c \in Conn, conn[c].op # "idle", conn[c].kind = "project",
         Throws(c) = {} \/ New(c) \ Throws(c) # {}
  PROVE  conn[c].by = "obj"
<1>1. conn[c].items # {} /\ conn[c].by \in Side
  BY DEF IInv, Types, Requests, RequestOK, Request
<1> QED BY <1>1 DEF Throws, New, Side

LEMMA PushStep ==
  ASSUME IInv, NEW c \in Conn, pushWorkflows(c) \/ pushWorkflowsThrows(c) \/ getRelatedWorkflows(c)
  PROVE  IInv'
<1>1. PICK q \in Request :
        conn' = [conn EXCEPT ![c] = q] /\ RequestOK(q) /\ q.folders = {} /\ q.seen = {}
  BY Ended DEF pushWorkflows, pushWorkflowsThrows, getRelatedWorkflows, Answer
<1>2. conn[c].op # "idle" /\ UNCHANGED <<alive, sent, removed>>
  BY DEF pushWorkflows, pushWorkflowsThrows, getRelatedWorkflows
<1>3. ASSUME NEW ps \in SUBSET New(c), Create(c, ps), ps # {} /\ conn[c].kind = "project" => conn[c].by = "obj"
      PROVE  IInv'
  BY <1>1, <1>2, <1>3, CreatedStep
<1>4. CASE pushWorkflows(c)
  <2>1. conn[c].kind = "project" => conn[c].by = "obj"
    BY <1>2, <1>4, PushSide DEF pushWorkflows
  <2> QED BY <1>3, <1>4, <2>1 DEF pushWorkflows
<1>5. CASE pushWorkflowsThrows(c)
  <2>1. CASE \E ps \in SUBSET (New(c) \ Throws(c)) : Create(c, ps)
    <3>1. PICK ps \in SUBSET (New(c) \ Throws(c)) : Create(c, ps)
      BY <2>1
    <3>2. ps # {} /\ conn[c].kind = "project" => conn[c].by = "obj"
      BY <1>2, PushSide
    <3> QED BY <1>3, <3>1, <3>2
  <2>2. CASE UNCHANGED <<folders, nodes, calendar>>
    <3>1. q.folders \subseteq folders' /\ Housed(q.folders, q.seen) /\ Paired(q.seen)
      BY <1>1, Begun
    <3>2. Events' /\ (FoldersUnique' => Paired(nodes'))
      BY <1>2, <2>2 DEF IInv, Events, AllPaired, FoldersUnique, Paired
    <3> QED BY <1>1, <1>2, <2>2, <3>1, <3>2, ConnStep DEF IInv, Types
  <2> QED BY <1>5, <2>1, <2>2 DEF pushWorkflowsThrows
<1>6. CASE getRelatedWorkflows(c)
  <2>1. Create(c, {})
    BY <1>6 DEF getRelatedWorkflows
  <2> QED BY <1>3, <2>1
<1> QED BY <1>4, <1>5, <1>6

\* Nodes of other pairs, or of no project, do not count.
LEMMA Untouched ==
  ASSUME NEW ns, NEW p, \A n \in ns : ~(n.kind \in {"project", "event"} /\ PairOf(n) = p)
  PROVE  /\ Numbers(nodes \ ns, "project", p) = Numbers(nodes, "project", p)
         /\ Numbers(nodes \ ns, "event", p) = Numbers(nodes, "event", p)
<1>1. {n \in nodes \ ns : n.kind = "project" /\ PairOf(n) = p} = {n \in nodes : n.kind = "project" /\ PairOf(n) = p}
  OBVIOUS
<1>2. {n \in nodes \ ns : n.kind = "event" /\ PairOf(n) = p} = {n \in nodes : n.kind = "event" /\ PairOf(n) = p}
  OBVIOUS
<1> QED BY <1>1, <1>2 DEF Numbers

\* What a request removes, it has read, and it is of its pair.
LEMMA RemovedFrom ==
  ASSUME NEW c \in Conn, NEW p
  PROVE  /\ Detached(c, p) \subseteq conn[c].seen /\ Deadlines(c, p) \subseteq conn[c].seen
         /\ \A n \in Detached(c, p) : n.kind = conn[c].kind /\ PairOf(n) = p
         /\ \A n \in Deadlines(c, p) : n.kind = "event" /\ PairOf(n) = p
         /\ conn[c].kind # "project" => Deadlines(c, p) = {}
BY DEF Detached, Deadlines, Children

LEMMA DeletedStep ==
  ASSUME IInv, NEW c \in Conn, deleteRelation(c)
  PROVE  IInv'
<1>1. conn[c].items # {} /\ conn[c].op = "delete" /\ RequestOK(conn[c]) /\ conn[c].kind # "event"
  BY DEF deleteRelation, IInv, Types, Requests, RequestOK, Request, Kind
<1>2. PICK p \in conn[c].items : Delete(c, Detached(c, p) \cup Deadlines(c, p))
  BY <1>1 DEF deleteRelation
<1> DEFINE ns == Detached(c, p) \cup Deadlines(c, p)
<1>3. ns \in SUBSET conn[c].seen /\ ns \subseteq nodes /\ nodes' = nodes \ ns /\ Delete(c, ns)
  BY <1>2, RemovedFrom DEF Delete
<1>4. ASSUME FoldersUnique, NEW q \in (Due \X Project) \ removed
      PROVE  Numbers(nodes', "project", q) = Numbers(nodes', "event", q)
  <2>1. Numbers(nodes, "project", q) = Numbers(nodes, "event", q)
        /\ Numbers(conn[c].seen, "project", q) = Numbers(conn[c].seen, "event", q)
    BY <1>4 DEF IInv, AllPaired, Paired
  <2>2. CASE conn[c].kind = "project" /\ q = p
    <3>1. conn[c].by = "obj"
      BY <1>1, <2>2 DEF RequestOK
    <3>2. /\ Detached(c, p) = {n \in conn[c].seen : n.kind = "project" /\ PairOf(n) = p}
          /\ Deadlines(c, p) = {n \in conn[c].seen : n.kind = "event" /\ PairOf(n) = p}
      BY <1>4, <2>2, <3>1, RemovedIs
    <3>3. /\ {n \in ns : n.kind = "project" /\ PairOf(n) = p} = {n \in conn[c].seen : n.kind = "project" /\ PairOf(n) = p}
          /\ {n \in ns : n.kind = "event" /\ PairOf(n) = p} = {n \in conn[c].seen : n.kind = "event" /\ PairOf(n) = p}
      BY <3>2
    <3> HIDE DEF ns
    <3>4. /\ Numbers(nodes \ ns, "project", p) = Numbers(nodes, "project", p) \ Numbers(conn[c].seen, "project", p)
          /\ Numbers(nodes \ ns, "event", p) = Numbers(nodes, "event", p) \ Numbers(conn[c].seen, "event", p)
      BY <1>3, <1>4, <3>3, Remaining
    <3> QED BY <1>3, <2>1, <2>2, <3>4
  <2>3. CASE ~(conn[c].kind = "project" /\ q = p)
    <3>1. \A n \in ns : ~(n.kind \in {"project", "event"} /\ PairOf(n) = q)
      BY <1>1, <2>3, RemovedFrom
    <3> HIDE DEF ns
    <3> QED BY <1>3, <2>1, <3>1, Untouched
  <2> QED BY <2>2, <2>3
<1>5. UNCHANGED <<folders, alive, sent, removed>>
  BY DEF deleteRelation
<1>6. PICK r \in Request :
        conn' = [conn EXCEPT ![c] = r] /\ RequestOK(r) /\ r.folders = {} /\ r.seen = {}
  BY Ended DEF deleteRelation, Answer
<1> HIDE DEF ns
<1> QED BY <1>3, <1>4, <1>5, <1>6, DeleteStep

\* The loop ends early only for a pair whose calendar entry a user has removed: where
\* the relations that were read are still there, so are their events.
LEMMA DeletedThrowsStep ==
  ASSUME IInv, NEW c \in Conn, deleteRelationThrows(c)
  PROVE  IInv'
<1>1. conn[c].items # {} /\ conn[c].op = "delete" /\ RequestOK(conn[c]) /\ conn[c].kind # "event"
  BY DEF deleteRelationThrows, IInv, Types, Requests, RequestOK, Request, Kind
<1>2. PICK p \in conn[c].items :
        /\ ~(Deadlines(c, p) \subseteq calendar)
        /\ \E es \in SUBSET (Deadlines(c, p) \cap calendar) : Delete(c, Detached(c, p) \cup es)
  BY <1>1 DEF deleteRelationThrows
<1>3. PICK es \in SUBSET (Deadlines(c, p) \cap calendar) : Delete(c, Detached(c, p) \cup es)
  BY <1>2
<1> DEFINE ns == Detached(c, p) \cup es
<1>4. ns \in SUBSET conn[c].seen /\ ns \subseteq nodes /\ nodes' = nodes \ ns /\ Delete(c, ns)
  BY <1>3, RemovedFrom DEF Delete
<1>5. conn[c].kind = "project" /\ conn[c].by = "obj"
  BY <1>1, <1>2, RemovedFrom DEF RequestOK
<1>6. ASSUME FoldersUnique, NEW q \in (Due \X Project) \ removed
      PROVE  Numbers(nodes', "project", q) = Numbers(nodes', "event", q)
  <2>1. Numbers(nodes, "project", q) = Numbers(nodes, "event", q)
        /\ Numbers(conn[c].seen, "project", q) = Numbers(conn[c].seen, "event", q)
    BY <1>6 DEF IInv, AllPaired, Paired
  <2>2. q # p
    <3> SUFFICES ASSUME q = p PROVE FALSE
      OBVIOUS
    <3>1. /\ Detached(c, p) = {n \in conn[c].seen : n.kind = "project" /\ PairOf(n) = p}
          /\ Deadlines(c, p) = {n \in conn[c].seen : n.kind = "event" /\ PairOf(n) = p}
      BY <1>5, <1>6, RemovedIs
    <3>2. PICK e \in conn[c].seen : e.kind = "event" /\ PairOf(e) = p /\ e \notin calendar
      BY <1>2, <3>1
    <3>3. e.no \in Numbers(conn[c].seen, "event", p)
      BY <3>2 DEF Numbers
    <3>4. PICK r \in conn[c].seen : r.kind = "project" /\ PairOf(r) = p /\ r.no = e.no
      BY <2>1, <3>3 DEF Numbers
    <3>5. r \in nodes
      BY <1>4, <3>1, <3>4
    <3>6. e.no \in Numbers(nodes, "project", p)
      BY <3>4, <3>5 DEF Numbers
    <3>7. PICK d \in nodes : d.kind = "event" /\ PairOf(d) = p /\ d.no = e.no
      BY <2>1, <3>6 DEF Numbers
    <3>8. d = e
      BY <1>6, <3>2, <3>7, SeenIsStored
    <3>9. PairOf(d) \notin removed
      BY <3>7
    <3> QED BY <3>2, <3>7, <3>8, <3>9 DEF IInv, Events
  <2>3. \A n \in ns : ~(n.kind \in {"project", "event"} /\ PairOf(n) = q)
    BY <2>2, RemovedFrom
  <2> HIDE DEF ns
  <2> QED BY <1>4, <2>1, <2>3, Untouched
<1>7. UNCHANGED <<folders, alive, sent, removed>>
  BY DEF deleteRelationThrows
<1>8. PICK r \in Request :
        conn' = [conn EXCEPT ![c] = r] /\ RequestOK(r) /\ r.folders = {} /\ r.seen = {}
  <2>1. conn' = [conn EXCEPT ![c] = Idle(500)]
    BY DEF deleteRelationThrows, Answer
  <2>2. Idle(500) \in Request /\ RequestOK(Idle(500)) /\ Idle(500).folders = {} /\ Idle(500).seen = {}
    BY Ended
  <2> QED BY <2>1, <2>2
<1> HIDE DEF ns
<1> QED BY <1>4, <1>6, <1>7, <1>8, DeleteStep

\* The service only removes relations between workflows.
LEMMA DetachStep ==
  ASSUME IInv, NEW c \in Conn, detachRelatedWorkflow(c)
  PROVE  IInv'
<1>1. conn[c].items # {} /\ conn[c].op = "detach" /\ conn[c].kind = "related" /\ RequestOK(conn[c])
  BY DEF detachRelatedWorkflow, IInv, Types, Requests, RequestOK
<1>2. PICK p \in conn[c].items :
        \/ UNCHANGED folders /\ \E n \in Detached(c, p) : Delete(c, {n})
        \/ Create(c, {})
  BY <1>1 DEF detachRelatedWorkflow
<1>3. UNCHANGED <<alive, sent, removed>>
  BY DEF detachRelatedWorkflow
<1>4. PICK r \in Request :
        conn' = [conn EXCEPT ![c] = r] /\ RequestOK(r) /\ r.folders = {} /\ r.seen = {}
  BY Ended DEF detachRelatedWorkflow, Answer
<1>5. CASE UNCHANGED folders /\ \E n \in Detached(c, p) : Delete(c, {n})
  <2>1. PICK n \in Detached(c, p) : Delete(c, {n})
    BY <1>5
  <2> DEFINE ns == {n}
  <2>2. ns \in SUBSET conn[c].seen /\ nodes' = nodes \ ns /\ Delete(c, ns)
    BY <2>1, RemovedFrom DEF Delete
  <2>3. \A m \in ns : m.kind = "related"
    BY <1>1, RemovedFrom
  <2> HIDE DEF ns
  <2>4. ASSUME FoldersUnique, NEW q \in (Due \X Project) \ removed
        PROVE  Numbers(nodes', "project", q) = Numbers(nodes', "event", q)
    <3>1. Numbers(nodes, "project", q) = Numbers(nodes, "event", q)
      BY <2>4 DEF IInv, AllPaired, Paired
    <3>2. \A m \in ns : ~(m.kind \in {"project", "event"} /\ PairOf(m) = q)
      BY <2>3
    <3> QED BY <2>2, <3>1, <3>2, Untouched
  <2> QED BY <1>3, <1>4, <1>5, <2>2, <2>4, DeleteStep
<1>6. CASE Create(c, {})
  <2>1. {} \in SUBSET New(c) /\ conn[c].op # "idle"
    BY <1>1
  <2> QED BY <1>3, <1>4, <1>6, <2>1, CreatedStep
<1> QED BY <1>2, <1>5, <1>6

\* Whose entry a user has removed does not count any more.
LEMMA WorldStep ==
  ASSUME IInv, (\E e \in calendar : RemoveCalendarEntry(e)) \/ \E w \in alive : cancelWorkflow(w)
  PROVE  IInv'
<1>1. CASE \E e \in calendar : RemoveCalendarEntry(e)
  <2>1. PICK e \in calendar : RemoveCalendarEntry(e)
    BY <1>1
  <2>2. calendar' = calendar \ {e} /\ removed' = removed \cup {PairOf(e)} /\ UNCHANGED <<folders, nodes, alive, conn, sent>>
    BY <2>1 DEF RemoveCalendarEntry
  <2>3. PairOf(e) \in Workflow \X Project
    <3>1. e \in RelNode /\ NodeOK(e) /\ e.kind = "event"
      BY DEF IInv, Types, Housed, Events
    <3> QED BY <3>1 DEF RelNode, NodeOK, PairOf
  <2>4. Types' /\ Requests' /\ Housed(folders', nodes') /\ Events'
    BY <2>2, <2>3 DEF IInv, Types, Requests, Events
  <2>5. AllPaired'
    BY <2>2 DEF IInv, AllPaired, FoldersUnique, Paired
  <2> QED BY <2>4, <2>5 DEF IInv
<1>2. CASE \E w \in alive : cancelWorkflow(w)
  <2>1. alive' \subseteq alive /\ UNCHANGED <<folders, nodes, calendar, conn, sent, removed>>
    BY <1>2 DEF cancelWorkflow
  <2> QED BY <2>1 DEF IInv, Types, Requests, Events, AllPaired, FoldersUnique, Paired
<1> QED BY <1>1, <1>2

\* Every step keeps the invariant.
LEMMA NextIInv == IInv /\ [Next]_vars => IInv'
<1> SUFFICES ASSUME IInv, [Next]_vars PROVE IInv'
  OBVIOUS
<1>1. CASE UNCHANGED vars
  BY <1>1 DEF vars, IInv, Types, Requests, Events, AllPaired, FoldersUnique, Paired
<1> QED BY <1>1, ClickStep, LookStep, PushStep, DeletedStep, DeletedThrowsStep, DetachStep, WorldStep DEF Next, Serve

-----------------------------------------------------------------------------
(* The theorems.                                                           *)

\* The state of the relations keeps its shape; in particular a calendar entry belongs to a
\* node that exists (createEvent and the delete script of projects).
THEOREM Typing == Spec => []TypeOK
<1>1. IInv => TypeOK
  BY DEF IInv, Types, TypeOK
<1> QED BY <1>1, InitIInv, NextIInv, PTL DEF Spec


\* Where each name has one folder, a pair's nodes of one kind are as many as their numbers.
LEMMA Counted ==
  ASSUME IInv, FoldersUnique, NEW k \in {"project", "event"}, NEW p
  PROVE  Cardinality({n \in nodes : n.kind = k /\ PairOf(n) = p}) = Cardinality(Numbers(nodes, k, p))
<1> DEFINE S == {n \in nodes : n.kind = k /\ PairOf(n) = p}
           T == Numbers(nodes, k, p)
           f == [n \in S |-> n.no]
<1>1. nodes \subseteq RelNode /\ folders \in SUBSET Folder /\ Unique(folders) /\ Housed(folders, nodes)
  BY DEF IInv, Types, FoldersUnique, Unique
<1>2. T = {n.no : n \in S}
  BY DEF Numbers
<1>3. ASSUME NEW m \in S, NEW n \in S, m.no = n.no
      PROVE  m = n
  <2>1. Housed(folders, {m, n})
    BY <1>1 DEF Housed
  <2>2. m.wf = n.wf /\ m.obj = n.obj /\ m.by = n.by /\ m.home = n.home /\ m.link = n.link
    BY <1>1, <2>1, SameNode
  <2> QED BY <1>1, <1>3, <2>2 DEF RelNode
<1>4. T \subseteq 1 .. MaxDoubles
  BY <1>1, <1>2 DEF RelNode
<1> HIDE DEF S, T
<1>5. f \in [S -> T] /\ \A t \in T : \E n \in S : f[n] = t
  BY <1>2
<1>6. \A m, n \in S : f[m] = f[n] => m = n
  BY <1>3
<1> HIDE DEF f
<1>7. f \in Bijection(S, T)
  BY <1>5, <1>6, Fun_IsBij
<1>8. ExistsBijection(T, S)
  <2>1. ExistsBijection(S, T)
    BY <1>7 DEF ExistsBijection
  <2> QED BY <2>1, Fun_ExistsBijSymmetric
<1>9. IsFiniteSet(T)
  <2>1. 1 \in Int /\ MaxDoubles \in Int
    BY RelationsAssumption
  <2>2. IsFiniteSet(1 .. MaxDoubles)
    BY <2>1, FS_Interval
  <2> QED BY <1>4, <2>2, FS_Subset
<1> QED BY <1>8, <1>9, FS_Bijection DEF S, T

\* The calendar of a project has as many events of an attached workflow with a due date as
\* the project has relations of it, and none of other workflows (createEvent, and the loops of
\* the delete script), as long as no folder was made twice and no user removed an entry.
THEOREM DeadlinesFollowRelations == Spec => []DeadlinesFollow
<1>1. ASSUME IInv PROVE DeadlinesFollow
  <2> SUFFICES ASSUME FoldersUnique, NEW p \in (Workflow \X Project) \ removed
               PROVE  Cardinality({n \in calendar : PairOf(n) = p}) =
                        IF p[1] \in Due THEN Cardinality({n \in nodes : n.kind = "project" /\ PairOf(n) = p})
                        ELSE 0
    BY DEF DeadlinesFollow
  <2>1. {n \in calendar : PairOf(n) = p} = {n \in nodes : n.kind = "event" /\ PairOf(n) = p}
    BY <1>1 DEF IInv, Types, Events
  <2>2. CASE p[1] \in Due
    <3>1. p \in (Due \X Project) \ removed
      BY <2>2
    <3>2. Numbers(nodes, "project", p) = Numbers(nodes, "event", p)
      BY <1>1, <3>1 DEF IInv, AllPaired, Paired
    <3>3. Cardinality({n \in nodes : n.kind = "project" /\ PairOf(n) = p}) = Cardinality(Numbers(nodes, "project", p))
          /\ Cardinality({n \in nodes : n.kind = "event" /\ PairOf(n) = p}) = Cardinality(Numbers(nodes, "event", p))
      BY <1>1, Counted
    <3> QED BY <2>1, <2>2, <3>2, <3>3
  <2>3. CASE p[1] \notin Due
    <3>1. {n \in nodes : n.kind = "event" /\ PairOf(n) = p} = {}
      BY <1>1, <2>3 DEF IInv, Housed, NodeOK, PairOf
    <3> QED BY <2>1, <2>3, <3>1, FS_EmptySet
  <2> QED BY <2>2, <2>3
<1> QED BY <1>1, InitIInv, NextIInv, PTL DEF Spec

\* Without discussions, where each name has one folder, what a request read of a pair it would
\* create is what relationExists looks for.
LEMMA SeenExists ==
  ASSUME IInv, "discussion" \notin Kinds, NEW c \in Conn, conn[c].op # "idle", Unique(conn[c].folders),
         NEW p, NEW m \in conn[c].seen, m.kind = conn[c].kind, PairOf(m) = p,
         conn[c].kind = "project" => conn[c].by = "obj"
  PROVE  relationExists(c, p)
<1>1. RequestOK(conn[c]) /\ NodeOK(m) /\ Home(m) \in conn[c].folders /\ conn[c].folders \subseteq Folder
      /\ conn[c].kind \in {"project", "related"}
  <2>1. RequestOK(conn[c]) /\ NodeOK(m) /\ Home(m) \in conn[c].folders /\ conn[c].folders \subseteq folders
    BY DEF IInv, Requests, Housed
  <2>2. conn[c].kind \in Kinds
    BY <2>1 DEF RequestOK
  <2> QED BY <2>1, <2>2, RelationsAssumption DEF IInv, Types, Kind
<1>2. m.by = conn[c].by
  BY <1>1 DEF RequestOK, NodeOK
<1>3. [name |-> NameOf(conn[c].kind, conn[c].by, p), rank |-> m.home] \in conn[c].folders
  BY <1>1, <1>2 DEF Home
<1>4. IsFirst(conn[c].folders, NameOf(conn[c].kind, conn[c].by, p), m.home)
  BY <1>1, <1>3, OnlyRank
<1> QED BY <1>2, <1>4 DEF relationExists, Children

\* A relation that appears is one that some request had to create.
LEMMA CreatedBy ==
  ASSUME IInv, [Next]_vars, NEW n \in nodes' \ nodes, n.kind # "event"
  PROVE  \E d \in Conn : /\ conn[d].op # "idle" /\ n.kind = conn[d].kind /\ PairOf(n) \in New(d)
                         /\ conn[d].kind = "project" => conn[d].by = "obj"
                         /\ \E q \in Request : conn' = [conn EXCEPT ![d] = q]
<1>1. PICK d \in Conn :
        \/ pushWorkflows(d) \/ pushWorkflowsThrows(d) \/ getRelatedWorkflows(d)
        \/ deleteRelation(d) \/ deleteRelationThrows(d) \/ detachRelatedWorkflow(d)
  <2>1. nodes' # nodes
    OBVIOUS
  <2> QED BY <2>1 DEF Next, Serve, vars, onAttachWorkflow, onDetachWorkflow, CallService, Look, RetryRequest,
                      LoseRequest, RemoveCalendarEntry, cancelWorkflow
<1>2. conn[d].op # "idle" /\ conn[d].items # {} /\ removed' = removed
  <2>1. conn[d].op # "idle" /\ removed' = removed
    BY <1>1 DEF pushWorkflows, pushWorkflowsThrows, getRelatedWorkflows, deleteRelation, deleteRelationThrows,
                detachRelatedWorkflow
  <2> QED BY <2>1 DEF IInv, Requests, RequestOK
<1>3. PICK q \in Request : conn' = [conn EXCEPT ![d] = q]
  <2>1. conn' = [conn EXCEPT ![d] = Idle(200)] \/ conn' = [conn EXCEPT ![d] = Idle(500)]
    BY <1>1 DEF pushWorkflows, pushWorkflowsThrows, getRelatedWorkflows, deleteRelation, deleteRelationThrows,
                detachRelatedWorkflow, Answer
  <2>2. Idle(200) \in Request /\ Idle(500) \in Request
    BY Ended
  <2> QED BY <2>1, <2>2
<1>4. ASSUME deleteRelation(d) \/ deleteRelationThrows(d)
      PROVE  FALSE
  <2>1. \E ns : Delete(d, ns)
    BY <1>2, <1>4 DEF deleteRelation, deleteRelationThrows
  <2> QED BY <2>1 DEF Delete
<1>5. ~(\E ns : Delete(d, ns))
  BY DEF Delete
<1>6. PICK ps \in SUBSET New(d) :
        Create(d, ps) /\ (ps # {} /\ conn[d].kind = "project" => conn[d].by = "obj")
  <2>1. CASE pushWorkflows(d)
    BY <1>2, <2>1, PushSide DEF pushWorkflows
  <2>2. CASE pushWorkflowsThrows(d)
    <3>1. PICK ps \in SUBSET (New(d) \ Throws(d)) : Create(d, ps)
      BY <2>2 DEF pushWorkflowsThrows
    <3>2. ps # {} /\ conn[d].kind = "project" => conn[d].by = "obj"
      BY <1>2, PushSide
    <3> QED BY <3>1, <3>2
  <2>3. CASE getRelatedWorkflows(d)
    BY <2>3 DEF getRelatedWorkflows
  <2>4. CASE detachRelatedWorkflow(d)
    <3>1. Create(d, {})
      BY <1>2, <1>5, <2>4 DEF detachRelatedWorkflow
    <3> QED BY <3>1
  <2> QED BY <1>1, <1>4, <2>1, <2>2, <2>3, <2>4
<1>7. n.kind = conn[d].kind /\ PairOf(n) \in ps
  BY <1>2, <1>6, CreateStep
<1> QED BY <1>2, <1>3, <1>6, <1>7

\* A request does not attach a pair of which it could see a relation of the same kind
\* (relationExists before createRelation), as long as no folder was made twice.  Discussions
\* are left out: they are attached from both sides, and each side looks into its own folder.
THEOREM VisibleIsNotAttachedAgain ==
  ASSUME "discussion" \notin Kinds
  PROVE  Spec => AttachesOnce
<1> DEFINE Once == \A c \in Conn : \A n \in nodes' \ nodes, m \in nodes \cap conn[c].seen :
                     FoldersUnique /\ n.kind # "event" /\ m.kind = n.kind /\ PairOf(m) = PairOf(n)
                     => conn'[c] = conn[c]
<1>1. ASSUME IInv, [Next]_vars PROVE Once
  <2> SUFFICES ASSUME NEW c \in Conn, NEW n \in nodes' \ nodes, NEW m \in nodes \cap conn[c].seen,
                      FoldersUnique, n.kind # "event", m.kind = n.kind, PairOf(m) = PairOf(n)
               PROVE  conn'[c] = conn[c]
    OBVIOUS
  <2>1. PICK d \in Conn : /\ conn[d].op # "idle" /\ n.kind = conn[d].kind /\ PairOf(n) \in New(d)
                          /\ conn[d].kind = "project" => conn[d].by = "obj"
                          /\ \E q \in Request : conn' = [conn EXCEPT ![d] = q]
    BY <1>1, CreatedBy
  <2>2. CASE c # d
    BY <1>1, <2>1, <2>2 DEF IInv, Types
  <2>3. CASE c = d
    <3>1. Unique(conn[c].folders)
      BY <1>1 DEF IInv, Requests, FoldersUnique, Unique
    <3>2. relationExists(c, PairOf(n))
      BY <1>1, <2>1, <2>3, <3>1, SeenExists
    <3> QED BY <2>1, <2>3, <3>2 DEF New
  <2> QED BY <2>2, <2>3
<1>2. AttachesOnce <=> [][Once]_vars
  BY DEF AttachesOnce
<1> HIDE DEF Once
<1> QED BY <1>1, <1>2, InitIInv, NextIInv, PTL DEF Spec

\* Both pages of a relation look into the folder it hangs on (getNodes reads children and
\* targets of associations), unless there is a second folder of that name, which may be
\* found in its place: what one side lists the other lists, too.
THEOREM BothSidesListIt == Spec => []ListedOnBothSidesUnlessRaced
<1>1. ASSUME IInv PROVE ListedOnBothSidesUnlessRaced
  <2> SUFFICES ASSUME FoldersUnique, NEW n \in Relations, NEW side \in Side, n.kind # "discussion",
                      Known(n.kind, PairOf(n))
               PROVE  PairOf(n) \in Answered(n.kind, side, PairOf(n))
    BY DEF ListedOnBothSidesUnlessRaced, ListedOnBothSides
  <2>1. n \in nodes /\ n.kind # "event" /\ n.by \in Side /\ Home(n) \in folders /\ Link(n) \in folders
    BY <1>1 DEF Relations, IInv, Types, Housed, RelNode
  <2>2. folders \in SUBSET Folder /\ Unique(folders)
    BY <1>1 DEF IInv, Types, FoldersUnique, Unique
  <2>3. CASE side = n.by
    <3>1. [name |-> NameOf(n.kind, side, PairOf(n)), rank |-> n.home] \in folders
      BY <2>1, <2>3 DEF Home
    <3>2. IsFirst(folders, NameOf(n.kind, side, PairOf(n)), n.home)
      BY <2>2, <3>1, OnlyRank
    <3>3. n \in Children(folders, nodes, n.kind, side, PairOf(n))
      BY <2>1, <2>3, <3>2 DEF Children
    <3> QED BY <3>3 DEF Answered, getNodes
  <2>4. CASE side # n.by
    <3>1. side = Other(n.by) /\ n.by = Other(side)
      BY <2>1, <2>4 DEF Other, Side
    <3>2. [name |-> NameOf(n.kind, side, PairOf(n)), rank |-> n.link] \in folders
      BY <2>1, <3>1 DEF Link
    <3>3. IsFirst(folders, NameOf(n.kind, side, PairOf(n)), n.link)
      BY <2>2, <3>2, OnlyRank
    <3>4. n \in Linked(folders, nodes, n.kind, side, PairOf(n))
      BY <2>1, <3>1, <3>3 DEF Linked
    <3> QED BY <3>4 DEF Answered, getNodes
  <2> QED BY <2>3, <2>4
<1> QED BY <1>1, InitIInv, NextIInv, PTL DEF Spec

\* Without discussions, what a request read of a pair it would detach is what the
\* delete script looks for.
LEMMA SeenDetached ==
  ASSUME IInv, "discussion" \notin Kinds, FoldersUnique, NEW c \in Conn, conn[c].op \in {"delete", "detach"},
         NEW m \in conn[c].seen, m.kind = conn[c].kind
  PROVE  m \in Detached(c, PairOf(m))
<1>1. RequestOK(conn[c]) /\ NodeOK(m) /\ Home(m) \in conn[c].folders /\ conn[c].folders \subseteq folders
  BY DEF IInv, Requests, Housed
<1>2. conn[c].kind \in {"project", "related"}
  BY <1>1, RelationsAssumption DEF RequestOK, Kind
<1>3. m.by = conn[c].by
  BY <1>1, <1>2 DEF RequestOK, NodeOK
<1>4. [name |-> NameOf(conn[c].kind, conn[c].by, PairOf(m)), rank |-> m.home] \in conn[c].folders
  BY <1>1, <1>3 DEF Home
<1>5. conn[c].folders \in SUBSET Folder /\ Unique(conn[c].folders)
  BY <1>1 DEF IInv, Types, FoldersUnique, Unique
<1>6. IsFirst(conn[c].folders, NameOf(conn[c].kind, conn[c].by, PairOf(m)), m.home)
  BY <1>4, <1>5, OnlyRank
<1> QED BY <1>3, <1>6 DEF Detached, Children

\* Only the handlers of a detach answer it with success.
LEMMA DetachAnswered ==
  ASSUME IInv, [Next]_vars, NEW c \in Conn, conn[c].op \in {"delete", "detach"}, conn'[c] = Idle(200)
  PROVE  deleteRelation(c) \/ detachRelatedWorkflow(c)
<1>1. conn'[c].op = "idle" /\ conn'[c].status = 200
  BY DEF Idle
<1>2. conn'[c] # conn[c]
  BY <1>1
<1>3. PICK d \in Conn : onAttachWorkflow(d) \/ onDetachWorkflow(d) \/ CallService(d) \/ Serve(d) \/ LoseRequest(d)
  BY <1>2 DEF Next, vars, RemoveCalendarEntry, cancelWorkflow
<1>4. \E q : conn' = [conn EXCEPT ![d] = q]
  BY <1>3 DEF onAttachWorkflow, onDetachWorkflow, CallService, Send, Serve, Look, pushWorkflows, pushWorkflowsThrows,
              deleteRelation, deleteRelationThrows, detachRelatedWorkflow, getRelatedWorkflows, RetryRequest,
              LoseRequest, Answer
<1>5. d = c
  BY <1>2, <1>4 DEF IInv, Types
<1>6. conn = [x \in Conn |-> conn[x]] /\ conn[c] \in Request
  BY DEF IInv, Types
<1>7. ~(onAttachWorkflow(c) \/ onDetachWorkflow(c) \/ CallService(c) \/ pushWorkflows(c) \/ pushWorkflowsThrows(c)
        \/ getRelatedWorkflows(c))
  BY DEF onAttachWorkflow, onDetachWorkflow, CallService, Send, pushWorkflows, pushWorkflowsThrows, getRelatedWorkflows
<1>8. ~Look(c) /\ ~RetryRequest(c)
  BY <1>1, <1>6 DEF Look, RetryRequest, Request
<1>9. ~deleteRelationThrows(c) /\ ~LoseRequest(c)
  BY <1>1, <1>6 DEF deleteRelationThrows, LoseRequest, Answer, Idle
<1> QED BY <1>3, <1>5, <1>7, <1>8, <1>9 DEF Serve

\* A delete or detach that is answered with success leaves the pair listed nowhere, if no second
\* folder or relation was made and nothing came while it ran.  The hypotheses are needed: the
\* script looks at one side only, which misses discussions attached from the other, and it
\* cannot remove what the 2013.09 release has attached.
THEOREM DetachedIsGone ==
  ASSUME "discussion" \notin Kinds, Legacy = {}
  PROVE  Spec => DetachRemoves
<1> DEFINE Gone == \A c \in Conn, k \in Kinds : \A p \in Pairs(k) :
                     /\ conn[c].op \in {"delete", "detach"} /\ conn[c].kind = k /\ p \in conn[c].items
                     /\ conn'[c] = Idle(200)
                     /\ Unraced /\ nodes \subseteq conn[c].seen
                     => ~Listed(k, p)'
<1>1. ASSUME IInv, [Next]_vars PROVE Gone
  <2> SUFFICES ASSUME NEW c \in Conn, NEW k \in Kinds, NEW p \in Pairs(k),
                      conn[c].op \in {"delete", "detach"}, conn[c].kind = k, p \in conn[c].items,
                      conn'[c] = Idle(200), Unraced, nodes \subseteq conn[c].seen
               PROVE  ~Listed(k, p)'
    OBVIOUS
  <2>1. \A n \in nodes : n.kind = k /\ PairOf(n) = p => n \in Detached(c, p)
    BY <1>1, SeenDetached DEF Unraced
  <2>2. \A n \in nodes' : ~(n.kind = k /\ PairOf(n) = p)
    <3>1. CASE deleteRelation(c)
      <4>1. nodes' = nodes \ (Detached(c, p) \cup Deadlines(c, p))
        BY <3>1 DEF deleteRelation, Delete
      <4> QED BY <2>1, <4>1
    <3>2. CASE detachRelatedWorkflow(c)
      <4>1. CASE Detached(c, p) = {}
        <5>1. Create(c, {})
          BY <3>2, <4>1 DEF detachRelatedWorkflow
        <5>2. nodes' = nodes
          BY <5>1 DEF Create, createEvent
        <5> QED BY <2>1, <4>1, <5>2
      <4>2. CASE Detached(c, p) # {}
        <5>1. PICK n \in Detached(c, p) : Delete(c, {n})
          BY <3>2, <4>2 DEF detachRelatedWorkflow
        <5>2. n \in nodes /\ nodes' = nodes \ {n} /\ n.kind = k /\ PairOf(n) = p
          BY <5>1 DEF Delete, Detached, Children
        <5>3. k # "event"
          BY RelationsAssumption DEF Kind
        <5>4. \A m \in nodes : m.kind = k /\ PairOf(m) = p => m = n
          BY <5>2, <5>3 DEF Unraced, AttachedOnce, Relations
        <5> QED BY <5>2, <5>4
      <4> QED BY <4>1, <4>2
    <3> QED BY <1>1, <3>1, <3>2, DetachAnswered
  <2>3. ASSUME NEW side \in Side PROVE p \notin getNodes(k, side, p)'
    BY <2>2 DEF getNodes, Children, Linked
  <2> QED BY <2>3 DEF Listed, Answered
<1>2. DetachRemoves <=> [][Gone]_vars
  BY DEF DetachRemoves
<1> HIDE DEF Gone
<1> QED BY <1>1, <1>2, InitIInv, NextIInv, PTL DEF Spec
=============================================================================
