------------------------ MODULE TaskDiscussionProofs ------------------------
(***************************************************************************)
(* Theorems about TaskDiscussion: whatever the number of pages and of      *)
(* comments, a discussion that a page has found stays the one that is      *)
(* shown, and an update shows all of its comments.                         *)
(*                                                                         *)
(* An update goes down the tree by a queue.  Which comments it has visited *)
(* already is not kept anywhere: the invariant says that there is such a   *)
(* set (Visited), and grows it by each answer that is drawn.               *)
(***************************************************************************)
EXTENDS TaskDiscussion, FiniteSetTheorems, FunctionTheorems, SequenceTheorems, WellFoundedInduction, TLAPS

Stored == 1 .. Len(comments)
Items(s) == {s[i] : i \in 1 .. Len(s)}

\* There is one folder, and no two first links have been committed.
Calm == Len(folders) = 1 /\ ~raced

\* The topic is the first of the folder's list.
AtFront(topic) ==
  \E i \in 1 .. Len(folders[1]) :
    folders[1][i] = topic /\ topic \in linked /\ \A j \in 1 .. Len(folders[1]) : j < i => folders[1][j] \notin linked

\* The topic is the one that all pages find, as long as it is calm.
Found(topic) == folders # <<>> /\ (Calm => AtFront(topic))

FoldersOK ==
  /\ topics \in 0 .. MaxTopics
  /\ folders \in Seq(Seq(1 .. topics))
  /\ first \in 0 .. Len(folders) /\ (first = 0 <=> folders = <<>>)
  /\ linked \subseteq 1 .. topics /\ early \subseteq Page /\ raced \in BOOLEAN

CommentsOK ==
  /\ comments \in Seq([on : Nat, under : Nat, listed : BOOLEAN])
  /\ Len(comments) <= MaxComments
  /\ \A c \in Stored :
       /\ comments[c].on \in 1 .. topics
       /\ LET under == comments[c].under IN under # Root => under < c /\ comments[under].on = comments[c].on
       /\ comments[c].listed => Found(comments[c].on)

\* A page knows its thread from the list, or from the topic that it has created.
LoadOK(pg) ==
  /\ pg.thread <= topics /\ pg.sees <= Len(folders)
  /\ pg.load \in {"none", "list", "topic"} => pg.thread = NoTopic /\ ~pg.listed
  /\ pg.load \in {"relation", "put"} => pg.thread # NoTopic
  /\ pg.listed => pg.thread # NoTopic /\ Found(pg.thread)

\* What is posted goes to the thread, whatever it replies to.
FormOK(pg) ==
  /\ pg.to.on <= topics /\ pg.to.under <= Len(comments)
  /\ pg.form = "sent" =>
       /\ pg.thread # NoTopic /\ pg.to.on = pg.thread
       /\ pg.to.under # Root => comments[pg.to.under].on = pg.thread

OnThread(pg, c) == c \in Stored /\ comments[c].on = pg.thread

\* Comments the update has to show below c.
ToShow(pg, c) == {d \in pg.had : comments[d].under = c}

\* The comments in V have been asked for: their replies are shown, and are asked for themselves
\* if they have replies.
Visited(pg, V) ==
  /\ Root \in V \cup Items(pg.queue)
  /\ \A c \in pg.had :
       comments[c].under \in V =>
         c \in pg.shown /\ (ToShow(pg, c) # {} => c \in V \cup Items(pg.queue))

UpdateOK(pg) ==
  /\ \A c \in pg.shown \cup pg.had \cup pg.reply.items : OnThread(pg, c)
  /\ pg.reply.open \subseteq pg.reply.items
  /\ \A c \in Items(pg.queue) : c <= Len(comments)
  /\ pg.thread = NoTopic => ~pg.isUpdating
  /\ ~pg.isUpdating => pg.queue = <<>>
  /\ pg.queue = <<>> => ~pg.reply.come
  /\ \A c \in pg.had : comments[c].under # Root => comments[c].under \in pg.had
  /\ pg.reply.come =>
       \A c \in ToShow(pg, Head(pg.queue)) :
         c \in pg.reply.items /\ (ToShow(pg, c) # {} => c \in pg.reply.open)
  /\ pg.queue # <<>> => \E V \in SUBSET (0 .. MaxComments) : Visited(pg, V)

PageOK(pg) == LoadOK(pg) /\ FormOK(pg) /\ UpdateOK(pg)

\* A page, as a record whose fields range over any sets.
PageOf(L, T, N, F, O, Q, R, S) ==
  [load : L, thread : T, listed : BOOLEAN, sees : N, form : F, to : O,
   isUpdating : BOOLEAN, queue : Q, reply : R, shown : S, had : S]
Loads == {"none", "list", "topic", "relation", "put", "done"}
Forms == {"idle", "sent", "stored", "blocked"}
Target == [on : Nat, under : Nat]
Reply == [come : BOOLEAN, items : SUBSET Comment, open : SUBSET Comment]
Pg == [load : Loads, thread : Nat, listed : BOOLEAN, sees : Nat, form : Forms, to : Target,
       isUpdating : BOOLEAN, queue : Seq(Nat), reply : Reply, shown : SUBSET Comment, had : SUBSET Comment]

\* The page's topic has been created, and its link is not committed.
Linking(pg) == pg.load \in {"relation", "put"}

\* No folder has a link to the topic.
Unlinked(topic) == \A f \in 1 .. Len(folders) : \A i \in 1 .. Len(folders[f]) : folders[f][i] # topic

\* A link that is committed stands before every link to the topic.
Behind(topic) ==
  Calm => \A i \in 1 .. Len(folders[1]) :
            folders[1][i] = topic => \E j \in 1 .. Len(folders[1]) : j < i /\ folders[1][j] \in linked

\* A PUT that found a topic in the list has a place behind it.
Links ==
  /\ \A p, o \in Page :
       p # o /\ Linking(page[p]) /\ Linking(page[o]) => page[p].thread # page[o].thread
  /\ \A p \in Page : page[p].load = "relation" => Unlinked(page[p].thread)
  /\ \A p \in Page : page[p].load = "put" /\ p \notin early => Behind(page[p].thread)

IInv ==
  /\ FoldersOK /\ CommentsOK /\ Links
  /\ page \in [Page -> Pg]
  /\ \A p \in Page : PageOK(page[p])

-----------------------------------------------------------------------------
(* Numbers, sequences, and enumerations in order.                          *)

LEMMA Least ==
  ASSUME NEW S \in SUBSET Nat, S # {}
  PROVE  \E m \in S : \A n \in S : m <= n
<1> DEFINE R == {p \in Nat \X Nat : p[1] < p[2]}
<1>1. IsWellFoundedOn(R, Nat)
  BY NatLessThanWellFounded DEF OpToRel
<1> HIDE DEF R
<1>2. PICK m \in S : \A n \in S : ~(<<n, m>> \in R)
  BY <1>1, WFMin
<1>3. \A n \in S : ~(n < m)
  BY <1>2 DEF R
<1> QED BY <1>3

LEMMA Greatest ==
  ASSUME NEW S \in SUBSET Comment, S # {}
  PROVE  \E m \in S : \A n \in S : n <= m
<1>1. MaxComments \in Nat /\ \A n \in S : n \in 1 .. MaxComments
  BY DiscussionAssumption DEF Comment
<1> DEFINE T == {MaxComments - n : n \in S}
<1>2. T \in SUBSET Nat /\ T # {}
  BY <1>1
<1>3. PICK t \in T : \A u \in T : t <= u
  BY <1>2, Least
<1>4. PICK m \in S : \A n \in S : MaxComments - m <= MaxComments - n
  BY <1>3
<1> QED BY <1>1, <1>4

LEMMA CommentsFinite ==
  ASSUME NEW S \in SUBSET Comment
  PROVE  IsFiniteSet(S) /\ Cardinality(S) \in Nat
<1>1. IsFiniteSet(Comment)
  BY DiscussionAssumption, FS_Interval DEF Comment
<1> QED BY <1>1, FS_Subset, FS_CardinalityType

Sorted(S, s) == s \in [1 .. Cardinality(S) -> S] /\ \A i, j \in 1 .. Cardinality(S) : i < j => s[i] < s[j]

\* Without its greatest element a set is smaller; there is no smallest one without an order.
LEMMA HasOrder ==
  ASSUME NEW S \in SUBSET Comment
  PROVE  \E s : Sorted(S, s)
<1> DEFINE Bad == {Cardinality(T) : T \in {U \in SUBSET Comment : ~\E s : Sorted(U, s)}}
<1> SUFFICES ASSUME Bad # {} PROVE FALSE
  OBVIOUS
<1>1. Bad \in SUBSET Nat
  BY CommentsFinite
<1>2. PICK n \in Bad : \A m \in Bad : n <= m
  BY <1>1, Least
<1>3. PICK T \in SUBSET Comment : n = Cardinality(T) /\ ~\E s : Sorted(T, s)
  OBVIOUS
<1>4. IsFiniteSet(T) /\ n \in Nat
  BY <1>3, CommentsFinite
<1>5. T # {}
  <2> SUFFICES ASSUME T = {} PROVE FALSE
    OBVIOUS
  <2>1. Cardinality(T) = 0
    BY FS_EmptySet
  <2>2. Sorted(T, [i \in 1 .. 0 |-> 0])
    BY <2>1 DEF Sorted
  <2> QED BY <1>3, <2>2
<1>6. PICK m \in T : \A k \in T : k <= m
  BY <1>5, Greatest
<1>7. PICK U : U = T \ {m}
  OBVIOUS
<1>8. Cardinality(U) = n - 1 /\ U \in SUBSET Comment
  BY <1>3, <1>4, <1>6, <1>7, FS_RemoveElement
<1>9. Cardinality(U) \in Nat
  BY <1>8, CommentsFinite
<1>10. PICK s : Sorted(U, s)
  <2>1. Cardinality(U) \notin Bad
    BY <1>2, <1>4, <1>8
  <2> QED BY <1>8, <2>1
<1>11. PICK t : t = [i \in 1 .. n |-> IF i = n THEN m ELSE s[i]]
  OBVIOUS
<1>12. \A i \in 1 .. n : i = n \/ (i \in 1 .. n - 1 /\ s[i] \in U)
  BY <1>4, <1>8, <1>10 DEF Sorted
<1>13. \A k \in U : k < m /\ k \in T
  <2>1. \A k \in T : k \in Nat
    BY DEF Comment
  <2> QED BY <1>6, <1>7, <2>1
<1>14. t \in [1 .. n -> T]
  BY <1>6, <1>11, <1>12, <1>13
<1>15. ASSUME NEW i \in 1 .. n, NEW j \in 1 .. n, i < j
       PROVE  t[i] < t[j]
  <2>1. i \in 1 .. n - 1 /\ t[i] = s[i] /\ s[i] \in U
    BY <1>4, <1>11, <1>12, <1>15
  <2>2. CASE j = n
    BY <1>11, <1>13, <2>1, <2>2
  <2>3. CASE j # n
    BY <1>4, <1>8, <1>10, <1>11, <1>12, <1>15, <2>1, <2>3 DEF Sorted
  <2> QED BY <2>2, <2>3
<1>16. Sorted(T, t)
  BY <1>3, <1>14, <1>15 DEF Sorted
<1> QED BY <1>3, <1>16

LEMMA InOrderOK ==
  ASSUME NEW S \in SUBSET Comment
  PROVE  InOrder(S) \in Seq(Nat) /\ Items(InOrder(S)) = S
<1>1. IsFiniteSet(S) /\ Cardinality(S) \in Nat
  BY CommentsFinite
<1>2. PICK n : n = Cardinality(S)
  OBVIOUS
<1>3. \E s \in [1 .. n -> S] : \A i, j \in DOMAIN s : i < j => s[i] < s[j]
  BY <1>2, HasOrder DEF Sorted
<1>4. PICK s : s = InOrder(S)
  OBVIOUS
<1>5. s \in [1 .. n -> S] /\ \A i, j \in DOMAIN s : i < j => s[i] < s[j]
  BY <1>2, <1>3, <1>4 DEF InOrder
<1>6. S \subseteq Nat
  BY DEF Comment
<1>7. \A i, j \in 1 .. n : s[i] = s[j] => i = j
  <2> SUFFICES ASSUME NEW i \in 1 .. n, NEW j \in 1 .. n, i # j PROVE s[i] # s[j]
    OBVIOUS
  <2>1. i < j \/ j < i
    BY <1>1, <1>2
  <2>2. s[i] < s[j] \/ s[j] < s[i]
    BY <1>5, <2>1
  <2>3. s[i] \in Nat /\ s[j] \in Nat
    BY <1>5, <1>6
  <2> QED BY <2>2, <2>3
<1>8. s \in Injection(1 .. n, S)
  BY <1>5, <1>7, Fun_IsInj
<1>9. Cardinality(1 .. n) = n
  BY <1>1, <1>2, FS_Interval
<1>10. s \in Surjection(1 .. n, S)
  BY <1>1, <1>2, <1>8, <1>9, FS_Injection
<1>11. Len(s) = n /\ s \in Seq(Nat)
  <2>1. s \in Seq(S)
    BY <1>1, <1>2, <1>5, SeqDef
  <2>2. Len(s) = n
    BY <1>1, <1>2, <1>5, <2>1, LenProperties
  <2> QED BY <1>6, <2>1, <2>2, SeqMonotonic
<1>12. Items(s) = S
  BY <1>5, <1>10, <1>11 DEF Items, Surjection
<1> QED BY <1>4, <1>11, <1>12

LEMMA TailOK ==
  ASSUME NEW s \in Seq(Nat), s # <<>>
  PROVE  Head(s) \in Items(s) /\ Head(s) \in Nat /\ Tail(s) \in Seq(Nat) /\ Items(s) = {Head(s)} \cup Items(Tail(s))
<1>1. Len(s) \in Nat \ {0} /\ Head(s) = s[1] /\ Head(s) \in Nat /\ Tail(s) \in Seq(Nat) /\ Len(Tail(s)) = Len(s) - 1
  BY EmptySeq, HeadTailProperties
<1>2. \A i \in 1 .. Len(s) - 1 : Tail(s)[i] = s[i + 1]
  BY <1>1, HeadTailProperties
<1>3. Head(s) \in Items(s)
  BY <1>1 DEF Items
<1>4. ASSUME NEW x \in Items(s) PROVE x = Head(s) \/ x \in Items(Tail(s))
  <2>1. PICK i \in 1 .. Len(s) : x = s[i]
    BY DEF Items
  <2>2. CASE i = 1
    BY <1>1, <2>1, <2>2
  <2>3. CASE i # 1
    <3>1. i - 1 \in 1 .. Len(s) - 1 /\ (i - 1) + 1 = i
      BY <1>1, <2>3
    <3>2. Tail(s)[i - 1] = x
      BY <1>2, <2>1, <3>1
    <3> QED BY <1>1, <3>1, <3>2 DEF Items
  <2> QED BY <2>2, <2>3
<1>5. ASSUME NEW x \in Items(Tail(s)) PROVE x \in Items(s)
  <2>1. PICK i \in 1 .. Len(s) - 1 : x = Tail(s)[i]
    BY <1>1 DEF Items
  <2>2. i + 1 \in 1 .. Len(s) /\ x = s[i + 1]
    BY <1>1, <1>2, <2>1
  <2> QED BY <2>2 DEF Items
<1> QED BY <1>1, <1>3, <1>4, <1>5

LEMMA ConcatOK ==
  ASSUME NEW s \in Seq(Nat), NEW t \in Seq(Nat)
  PROVE  s \o t \in Seq(Nat) /\ Items(s \o t) = Items(s) \cup Items(t)
<1>1. Len(s) \in Nat /\ Len(t) \in Nat /\ s \o t \in Seq(Nat) /\ Len(s \o t) = Len(s) + Len(t)
  BY LenProperties, ConcatProperties
<1>2. \A i \in 1 .. Len(s) + Len(t) : (s \o t)[i] = IF i <= Len(s) THEN s[i] ELSE t[i - Len(s)]
  BY ConcatProperties
<1>3. ASSUME NEW x \in Items(s \o t) PROVE x \in Items(s) \cup Items(t)
  <2>1. PICK i \in 1 .. Len(s) + Len(t) : x = (s \o t)[i]
    BY <1>1 DEF Items
  <2>2. CASE i <= Len(s)
    BY <1>1, <1>2, <2>1, <2>2 DEF Items
  <2>3. CASE ~(i <= Len(s))
    <3>1. i - Len(s) \in 1 .. Len(t) /\ x = t[i - Len(s)]
      BY <1>1, <1>2, <2>1, <2>3
    <3> QED BY <3>1 DEF Items
  <2> QED BY <2>2, <2>3
<1>4. ASSUME NEW x \in Items(s) PROVE x \in Items(s \o t)
  BY <1>1, <1>2 DEF Items
<1>5. ASSUME NEW x \in Items(t) PROVE x \in Items(s \o t)
  <2>1. PICK i \in 1 .. Len(t) : x = t[i]
    BY DEF Items
  <2>2. i + Len(s) \in 1 .. Len(s) + Len(t) /\ ~(i + Len(s) <= Len(s)) /\ (i + Len(s)) - Len(s) = i
    BY <1>1
  <2>3. (s \o t)[i + Len(s)] = x
    BY <1>2, <2>1, <2>2
  <2> QED BY <1>1, <2>2, <2>3 DEF Items
<1> QED BY <1>1, <1>3, <1>4, <1>5

LEMMA SeqNarrow ==
  ASSUME NEW A, NEW B, NEW s \in Seq(A), \A i \in 1 .. Len(s) : s[i] \in B
  PROVE  s \in Seq(B)
BY LenProperties

-----------------------------------------------------------------------------
(* Pages.                                                                  *)

SameLoad(r, q) == r.load = q.load /\ r.thread = q.thread /\ r.listed = q.listed /\ r.sees = q.sees
SameForm(r, q) == r.form = q.form /\ r.to = q.to
SameUpdate(r, q) ==
  r.isUpdating = q.isUpdating /\ r.queue = q.queue /\ r.reply = q.reply /\ r.shown = q.shown /\ r.had = q.had

LEMMA PageShape ==
  \E L, T, N, F, O, Q, R, S :
    /\ Pg = PageOf(L, T, N, F, O, Q, R, S)
    /\ L = Loads /\ T = Nat /\ N = Nat /\ F = Forms /\ O = Target /\ Q = Seq(Nat) /\ R = Reply /\ S = SUBSET Comment
BY Zenon DEF Pg, PageOf

\* What the code assigns to the fields of each part of a page.
WithLoad(q, load) == [q EXCEPT !.load = load]
WithThread(q, load, thread) == [q EXCEPT !.load = load, !.thread = thread]
WithListed(q, load, thread) == [q EXCEPT !.load = load, !.thread = thread, !.listed = TRUE]
WithSees(q, load, sees) == [q EXCEPT !.load = load, !.sees = sees]
WithForm(q, form) == [q EXCEPT !.form = form]
WithTarget(q, form, to) == [q EXCEPT !.form = form, !.to = to]
Answered(q) == [Drawn(q) EXCEPT !.reply = NoReply]
Updated(q, up, queue, reply, shown, had) ==
  [q EXCEPT !.isUpdating = up, !.queue = queue, !.reply = reply, !.shown = shown, !.had = had]

LEMMA LoadSet ==
  ASSUME NEW q \in Pg, NEW load \in Loads
  PROVE  LET r == WithLoad(q, load) IN
         /\ r \in Pg /\ SameForm(r, q) /\ SameUpdate(r, q)
         /\ r.load = load /\ r.thread = q.thread /\ r.listed = q.listed /\ r.sees = q.sees
<1>1. PICK L, T, N, F, O, Q, R, S :
        Pg = PageOf(L, T, N, F, O, Q, R, S) /\ load \in L
  <2>1. PICK L, T, N, F, O, Q, R, S : Pg = PageOf(L, T, N, F, O, Q, R, S) /\ L = Loads /\ T = Nat /\ N = Nat
    BY PageShape
  <2> QED BY <2>1
<1>2. q \in PageOf(L, T, N, F, O, Q, R, S)
  BY <1>1
<1> QED BY <1>1, <1>2 DEF PageOf, SameForm, SameUpdate, WithLoad

LEMMA ThreadSet ==
  ASSUME NEW q \in Pg, NEW load \in Loads, NEW thread \in Nat
  PROVE  LET r == WithThread(q, load, thread) IN
         /\ r \in Pg /\ SameForm(r, q) /\ SameUpdate(r, q)
         /\ r.load = load /\ r.thread = thread /\ r.listed = q.listed /\ r.sees = q.sees
<1>1. PICK L, T, N, F, O, Q, R, S :
        Pg = PageOf(L, T, N, F, O, Q, R, S) /\ load \in L /\ thread \in T
  <2>1. PICK L, T, N, F, O, Q, R, S : Pg = PageOf(L, T, N, F, O, Q, R, S) /\ L = Loads /\ T = Nat /\ N = Nat
    BY PageShape
  <2> QED BY <2>1
<1>2. q \in PageOf(L, T, N, F, O, Q, R, S)
  BY <1>1
<1> QED BY <1>1, <1>2 DEF PageOf, SameForm, SameUpdate, WithThread

LEMMA ListedSet ==
  ASSUME NEW q \in Pg, NEW load \in Loads, NEW thread \in Nat
  PROVE  LET r == WithListed(q, load, thread) IN
         /\ r \in Pg /\ SameForm(r, q) /\ SameUpdate(r, q)
         /\ r.load = load /\ r.thread = thread /\ r.listed = TRUE /\ r.sees = q.sees
<1>1. PICK L, T, N, F, O, Q, R, S :
        Pg = PageOf(L, T, N, F, O, Q, R, S) /\ load \in L /\ thread \in T
  <2>1. PICK L, T, N, F, O, Q, R, S : Pg = PageOf(L, T, N, F, O, Q, R, S) /\ L = Loads /\ T = Nat /\ N = Nat
    BY PageShape
  <2> QED BY <2>1
<1>2. q \in PageOf(L, T, N, F, O, Q, R, S)
  BY <1>1
<1> QED BY <1>1, <1>2 DEF PageOf, SameForm, SameUpdate, WithListed

LEMMA SeesSet ==
  ASSUME NEW q \in Pg, NEW load \in Loads, NEW sees \in Nat
  PROVE  LET r == WithSees(q, load, sees) IN
         /\ r \in Pg /\ SameForm(r, q) /\ SameUpdate(r, q)
         /\ r.load = load /\ r.thread = q.thread /\ r.listed = q.listed /\ r.sees = sees
<1>1. PICK L, T, N, F, O, Q, R, S :
        Pg = PageOf(L, T, N, F, O, Q, R, S) /\ load \in L /\ sees \in N
  <2>1. PICK L, T, N, F, O, Q, R, S : Pg = PageOf(L, T, N, F, O, Q, R, S) /\ L = Loads /\ T = Nat /\ N = Nat
    BY PageShape
  <2> QED BY <2>1
<1>2. q \in PageOf(L, T, N, F, O, Q, R, S)
  BY <1>1
<1> QED BY <1>1, <1>2 DEF PageOf, SameForm, SameUpdate, WithSees

LEMMA FormSet ==
  ASSUME NEW q \in Pg, NEW form \in Forms
  PROVE  LET r == WithForm(q, form) IN
         /\ r \in Pg /\ SameLoad(r, q) /\ SameUpdate(r, q)
         /\ r.form = form /\ r.to = q.to
<1>1. PICK L, T, N, F, O, Q, R, S : Pg = PageOf(L, T, N, F, O, Q, R, S) /\ form \in F
  <2>1. PICK L, T, N, F, O, Q, R, S : Pg = PageOf(L, T, N, F, O, Q, R, S) /\ F = Forms
    BY PageShape
  <2> QED BY <2>1
<1>2. q \in PageOf(L, T, N, F, O, Q, R, S)
  BY <1>1
<1> QED BY <1>1, <1>2 DEF PageOf, SameLoad, SameUpdate, WithForm

LEMMA TargetSet ==
  ASSUME NEW q \in Pg, NEW form \in Forms, NEW to \in Target
  PROVE  LET r == WithTarget(q, form, to) IN
         /\ r \in Pg /\ SameLoad(r, q) /\ SameUpdate(r, q)
         /\ r.form = form /\ r.to = to
<1>1. PICK L, T, N, F, O, Q, R, S : Pg = PageOf(L, T, N, F, O, Q, R, S) /\ form \in F /\ to \in O
  <2>1. PICK L, T, N, F, O, Q, R, S : Pg = PageOf(L, T, N, F, O, Q, R, S) /\ F = Forms /\ O = Target
    BY PageShape
  <2> QED BY <2>1
<1>2. q \in PageOf(L, T, N, F, O, Q, R, S)
  BY <1>1
<1> QED BY <1>1, <1>2 DEF PageOf, SameLoad, SameUpdate, WithTarget

LEMMA UpdateSet ==
  ASSUME NEW q \in Pg, NEW up \in BOOLEAN, NEW queue \in Seq(Nat), NEW reply \in Reply,
         NEW shown \in SUBSET Comment, NEW had \in SUBSET Comment
  PROVE  LET r == Updated(q, up, queue, reply, shown, had) IN
         /\ r \in Pg /\ SameLoad(r, q) /\ SameForm(r, q)
         /\ r.isUpdating = up /\ r.queue = queue /\ r.reply = reply /\ r.shown = shown /\ r.had = had
<1>1. PICK L, T, N, F, O, Q, R, S :
        Pg = PageOf(L, T, N, F, O, Q, R, S) /\ queue \in Q /\ reply \in R /\ shown \in S /\ had \in S
  <2>1. PICK L, T, N, F, O, Q, R, S :
          Pg = PageOf(L, T, N, F, O, Q, R, S) /\ Q = Seq(Nat) /\ R = Reply /\ S = SUBSET Comment
    BY PageShape
  <2> QED BY <2>1
<1>2. q \in PageOf(L, T, N, F, O, Q, R, S)
  BY <1>1
<1>3. PICK r : r = Updated(q, up, queue, reply, shown, had)
  OBVIOUS
<1>4. r \in PageOf(L, T, N, F, O, Q, R, S)
  BY <1>1, <1>2, <1>3 DEF PageOf, Updated
<1>5. /\ SameLoad(r, q) /\ SameForm(r, q)
      /\ r.isUpdating = up /\ r.queue = queue /\ r.reply = reply /\ r.shown = shown /\ r.had = had
  BY <1>2, <1>3 DEF PageOf, SameLoad, SameForm, Updated
<1> QED BY <1>1, <1>3, <1>4, <1>5

LEMMA NewPageOK ==
  /\ NewPage \in Pg /\ NewPage.load = "none" /\ NewPage.thread = NoTopic /\ NewPage.listed = FALSE /\ NewPage.sees = 0
  /\ NewPage.form = "idle" /\ NewPage.to = Nowhere /\ NewPage.isUpdating = FALSE /\ NewPage.queue = <<>>
  /\ NewPage.reply = NoReply /\ NewPage.shown = {} /\ NewPage.had = {}
<1>1. <<>> \in Seq(Nat)
  BY EmptySeq
<1>2. Nowhere \in Target /\ NoReply \in Reply /\ NoTopic \in Nat
  BY DEF Nowhere, Target, NoReply, Reply, NoTopic, Root
<1> QED BY <1>1, <1>2 DEF NewPage, Pg, Loads, Forms

\* An empty page is in order, and so is one that has only begun to load.
LEMMA EmptyOK ==
  ASSUME FoldersOK, CommentsOK, NEW pg \in Pg, pg.thread = NoTopic, pg.listed = FALSE, pg.sees = 0,
         pg.load \in {"none", "list"}, pg.form = "idle", pg.to = Nowhere, pg.isUpdating = FALSE, pg.queue = <<>>,
         pg.reply = NoReply, pg.shown = {}, pg.had = {}
  PROVE  PageOK(pg)
<1>1. topics \in Nat /\ Len(folders) \in Nat /\ Len(comments) \in Nat /\ Len(<<>>) = 0
  BY DiscussionAssumption, LenProperties, EmptySeq DEF FoldersOK, CommentsOK
<1>2. LoadOK(pg)
  BY <1>1 DEF LoadOK, NoTopic
<1>3. FormOK(pg)
  BY <1>1 DEF FormOK, Nowhere, NoTopic, Root
<1>4. UpdateOK(pg)
  BY <1>1 DEF UpdateOK, NoReply, Items
<1> QED BY <1>2, <1>3, <1>4 DEF PageOK

\* The server only adds.
Grow ==
  /\ topics <= topics' /\ Len(folders) <= Len(folders') /\ Len(comments) <= Len(comments')
  /\ \A c \in Stored : comments'[c] = comments[c]
  /\ \A t \in 1 .. topics : Found(t) => Found(t)'

LEMMA Others ==
  ASSUME IInv, FoldersOK', CommentsOK', Grow, NEW pg \in Pg, PageOK(pg)
  PROVE  PageOK(pg)'
<1>1. /\ topics \in Nat /\ topics' \in Nat /\ Len(folders) \in Nat
      /\ Len(folders') \in Nat /\ Len(comments) \in Nat /\ Len(comments') \in Nat
  BY DiscussionAssumption, LenProperties DEF IInv, FoldersOK, CommentsOK
<1>2. /\ topics <= topics' /\ Len(folders) <= Len(folders') /\ Len(comments) <= Len(comments')
      /\ \A c \in Stored : c \in Stored' /\ comments'[c] = comments[c]
      /\ \A t \in 1 .. topics : Found(t) => Found(t)'
  BY <1>1 DEF Grow, Stored
<1>3. pg.thread \in Nat /\ pg.sees \in Nat /\ pg.to \in Target /\ pg.queue \in Seq(Nat)
  BY DEF Pg
<1>4. LoadOK(pg)'
  BY <1>1, <1>2, <1>3 DEF PageOK, LoadOK, NoTopic
<1>5. FormOK(pg)'
  <2>1. pg.to.on \in Nat /\ pg.to.under \in Nat
    BY <1>3 DEF Target
  <2>2. pg.to.under # Root => pg.to.under \in Stored
    BY <1>1, <2>1 DEF PageOK, FormOK, Stored, Root
  <2> QED BY <1>1, <1>2, <2>1, <2>2 DEF PageOK, FormOK
<1>6. UpdateOK(pg)'
  <2>1. \A c \in pg.shown \cup pg.had \cup pg.reply.items :
          OnThread(pg, c) /\ OnThread(pg, c)' /\ comments'[c] = comments[c]
    BY <1>2 DEF PageOK, UpdateOK, OnThread
  <2>2. \A c : ToShow(pg, c)' = ToShow(pg, c)
    BY <2>1 DEF ToShow
  <2>3. \A c \in Items(pg.queue) : c \in Nat
    BY <1>3, ElementOfSeq, LenProperties DEF Items
  <2>4. \A V : Visited(pg, V) => Visited(pg, V)'
    BY <2>1, <2>2 DEF Visited
  <2>5. \A c \in Items(pg.queue) : c <= Len(comments')
    BY <1>1, <1>2, <2>3 DEF PageOK, UpdateOK
  <2>6. pg.queue # <<>> => \E V \in SUBSET (0 .. MaxComments) : Visited(pg, V)'
    BY <2>4 DEF PageOK, UpdateOK
  <2>7. \A c \in pg.had : comments'[c].under # Root => comments'[c].under \in pg.had
    BY <2>1 DEF PageOK, UpdateOK
  <2> QED BY <2>1, <2>2, <2>5, <2>6, <2>7 DEF PageOK, UpdateOK
<1> QED BY <1>4, <1>5, <1>6 DEF PageOK

\* A step of one page.
LEMMA PageStep ==
  ASSUME IInv, NEW p \in Page, NEW r \in Pg, page' = [page EXCEPT ![p] = r], PageOK(r)',
         FoldersOK', CommentsOK', Links', Grow
  PROVE  IInv'
<1>1. page' \in [Page -> Pg]
  BY DEF IInv
<1>2. \A o \in Page : page'[o] = IF o = p THEN r ELSE page[o]
  BY DEF IInv
<1>3. ASSUME NEW o \in Page PROVE PageOK(page[o])'
  <2>1. PICK q : q = page[o]
    OBVIOUS
  <2>2. q \in Pg /\ PageOK(q)
    BY <2>1 DEF IInv
  <2>3. PageOK(q)'
    BY <2>2, Others
  <2>4. page'[o] = r \/ page'[o] = q
    BY <1>2, <2>1
  <2> QED BY <2>3, <2>4
<1> QED BY <1>1, <1>3 DEF IInv

LEMMA Quiet ==
  ASSUME IInv, UNCHANGED server
  PROVE  FoldersOK' /\ CommentsOK' /\ Grow /\ UNCHANGED links
<1>1. topics \in Nat /\ Len(folders) \in Nat /\ Len(comments) \in Nat
  BY DiscussionAssumption, LenProperties DEF IInv, FoldersOK, CommentsOK
<1>2. UNCHANGED <<topics, folders, first, linked, early, raced, comments>>
  BY DEF server, links
<1>3. \A t : Found(t)' <=> Found(t)
  BY <1>2 DEF Found, Calm, AtFront
<1>4. FoldersOK' /\ CommentsOK'
  BY <1>2, <1>3 DEF IInv, FoldersOK, CommentsOK, Stored
<1>5. Grow
  BY <1>1, <1>2, <1>3 DEF Stored, Grow
<1> QED BY <1>2, <1>4, <1>5 DEF links

\* The links are left alone, and the page begins none.
KeepsLink(r, q) == Linking(r) => r.load = q.load /\ r.thread = q.thread

LEMMA LinksKept ==
  ASSUME IInv, UNCHANGED links, NEW p \in Page, NEW r \in Pg, page' = [page EXCEPT ![p] = r],
         KeepsLink(r, page[p])
  PROVE  Links'
<1>1. UNCHANGED <<folders, linked, early, raced>>
  BY DEF links
<1>2. \A t : (Unlinked(t)' <=> Unlinked(t)) /\ (Behind(t)' <=> Behind(t))
  BY <1>1 DEF Unlinked, Behind, Calm
<1>3. \A o \in Page : page'[o] = IF o = p THEN r ELSE page[o]
  BY DEF IInv
<1>4. \A o \in Page : Linking(page'[o]) => page'[o].load = page[o].load /\ page'[o].thread = page[o].thread
  BY <1>3 DEF KeepsLink
<1>5. \A o \in Page : Linking(page'[o]) => Linking(page[o])
  BY <1>4 DEF Linking
<1>6. \A o, n \in Page : o # n /\ Linking(page'[o]) /\ Linking(page'[n]) => page'[o].thread # page'[n].thread
  BY <1>4, <1>5 DEF IInv, Links
<1>7. \A o \in Page : page'[o].load = "relation" => Unlinked(page[o].thread)'
  BY <1>2, <1>4 DEF IInv, Links, Linking
<1>8. \A o \in Page : page'[o].load = "put" /\ o \notin early' => Behind(page[o].thread)'
  BY <1>1, <1>2, <1>4 DEF IInv, Links, Linking
<1>9. \A o \in Page : Linking(page[o])' <=> Linking(page'[o])
  BY DEF Linking
<1> QED BY <1>6, <1>7, <1>8, <1>9 DEF Links

-----------------------------------------------------------------------------
(* Steps.                                                                  *)

LEMMA InitIInv == Init => IInv
<1> SUFFICES ASSUME Init PROVE IInv
  OBVIOUS
<1>1. FoldersOK
  <2>1. raced \in BOOLEAN
    BY DEF Init
  <2> QED BY <2>1, DiscussionAssumption, EmptySeq DEF Init, FoldersOK
<1>2. CommentsOK
  BY DiscussionAssumption, EmptySeq DEF Init, CommentsOK, Stored
<1>3. page \in [Page -> Pg] /\ \A p \in Page : page[p] = NewPage
  BY NewPageOK DEF Init
<1>4. PageOK(NewPage)
  <2>1. PICK pg : pg = NewPage
    OBVIOUS
  <2> QED BY <1>1, <1>2, <2>1, NewPageOK, EmptyOK
<1>5. Links
  BY <1>3, NewPageOK DEF Links, Linking
<1> QED BY <1>1, <1>2, <1>3, <1>4, <1>5 DEF IInv

LEMMA OpenStep ==
  ASSUME IInv, NEW p \in Page, initUI(p)
  PROVE  IInv'
<1>1. PICK n : n = NewPage
  OBVIOUS
<1>2. PICK r : r = WithLoad(n, "list")
  OBVIOUS
<1>3. page' = [page EXCEPT ![p] = r] /\ UNCHANGED server
  BY <1>1, <1>2 DEF initUI, WithLoad
<1>4. /\ r \in Pg /\ SameForm(r, n) /\ SameUpdate(r, n) /\ r.load = "list"
      /\ r.thread = n.thread /\ r.listed = n.listed /\ r.sees = n.sees
  <2>1. n \in Pg /\ "list" \in Loads
    BY <1>1, NewPageOK DEF Loads
  <2> QED BY <1>2, <2>1, LoadSet
<1>5. FoldersOK' /\ CommentsOK' /\ Grow /\ UNCHANGED links
  BY <1>3, Quiet
<1>6. PageOK(r)
  BY <1>1, <1>4, NewPageOK, EmptyOK DEF IInv, SameForm, SameUpdate
<1>7. PageOK(r)'
  BY <1>4, <1>5, <1>6, Others
<1>8. Links'
  BY <1>3, <1>4, <1>5, LinksKept DEF KeepsLink, Linking
<1> QED BY <1>3, <1>4, <1>5, <1>7, <1>8, PageStep

\* An update begins with the topic.
LEMMA UpdateOpens ==
  ASSUME FoldersOK', CommentsOK', NEW pg \in Pg, PageOK(pg)', NEW r, r = updateDiscussion(pg)
  PROVE  r \in Pg /\ PageOK(r)' /\ SameLoad(r, pg)
<1>1. CASE pg.isUpdating \/ pg.thread = NoTopic
  BY <1>1 DEF updateDiscussion, SameLoad
<1>2. CASE ~pg.isUpdating /\ pg.thread # NoTopic
  <2>1. PICK had : had = {c \in DOMAIN comments' : comments'[c].on = pg.thread}
    OBVIOUS
  <2>2. PICK queue : queue = <<Root>>
    OBVIOUS
  <2>3. /\ Len(comments') \in Nat /\ Len(comments') <= MaxComments
        /\ DOMAIN comments' = Stored' /\ Stored' = 1 .. Len(comments')
    BY LenProperties DEF CommentsOK, Stored
  <2>4. had = {c \in Stored' : comments'[c].on = pg.thread} /\ had \in SUBSET Comment
    BY <2>1, <2>3, DiscussionAssumption DEF Comment
  <2>5. queue \in Seq(Nat) /\ Items(queue) = {Root} /\ queue # <<>>
    <3>1. queue \in Seq(Nat) /\ Len(queue) = 1 /\ queue[1] = 0
      BY <2>2 DEF Root
    <3>2. Len(<<>>) = 0
      BY EmptySeq
    <3> QED BY <3>1, <3>2 DEF Items, Root
  <2>u. PICK up \in BOOLEAN : up = TRUE
    OBVIOUS
  <2>6. r = [pg EXCEPT !.isUpdating = up, !.queue = queue, !.had = had]
    BY <1>2, <2>1, <2>2, <2>u DEF updateDiscussion
  <2>7. pg.reply \in Reply /\ pg.shown \in SUBSET Comment
    BY DEF Pg
  <2>8. r = Updated(pg, up, queue, pg.reply, pg.shown, had)
    <3>1. PICK L, T, N, F, O, Q, R, S : pg \in PageOf(L, T, N, F, O, Q, R, S)
      BY PageShape
    <3> QED BY <2>6, <3>1 DEF PageOf, Updated
  <2>9. /\ r \in Pg /\ SameLoad(r, pg) /\ SameForm(r, pg)
        /\ r.isUpdating = up /\ r.queue = queue /\ r.reply = pg.reply /\ r.shown = pg.shown /\ r.had = had
    BY <2>4, <2>5, <2>7, <2>8, UpdateSet
  <2>10. ~r.reply.come
    BY <1>2, <2>9 DEF PageOK, UpdateOK
  <2>11. \A c \in had : OnThread(r, c)' /\ (comments'[c].under # Root => comments'[c].under \in had)
    <3> SUFFICES ASSUME NEW c \in had
                 PROVE  OnThread(r, c)' /\ (comments'[c].under # Root => comments'[c].under \in had)
      OBVIOUS
    <3>1. c \in Stored' /\ comments'[c].on = pg.thread
      BY <2>4
    <3>2. comments'[c].under \in Nat
      <4>1. comments' \in Seq([on : Nat, under : Nat, listed : BOOLEAN])
        BY DEF CommentsOK
      <4>2. comments'[c] \in [on : Nat, under : Nat, listed : BOOLEAN]
        BY <2>3, <3>1, <4>1, ElementOfSeq
      <4> QED BY <4>2
    <3>3. comments'[c].under # Root => comments'[c].under \in Stored' /\ comments'[comments'[c].under].on = comments'[c].on
      BY <2>3, <3>1, <3>2 DEF CommentsOK, Root
    <3> QED BY <2>4, <2>9, <3>1, <3>3 DEF OnThread, SameLoad
  <2>12. Visited(r, {})'
    BY <2>5, <2>9 DEF Visited
  <2>13. UpdateOK(r)'
    <3>0. r.isUpdating
      BY <2>u, <2>9
    <3>1. \A c \in r.shown \cup r.had \cup r.reply.items : OnThread(r, c)'
      BY <2>9, <2>11 DEF PageOK, UpdateOK, OnThread, SameLoad
    <3>2. r.reply.open \subseteq r.reply.items
      BY <2>9 DEF PageOK, UpdateOK
    <3>3. \A c \in Items(r.queue) : c <= Len(comments')
      BY <2>3, <2>5, <2>9 DEF Root
    <3>4. \E V \in SUBSET (0 .. MaxComments) : Visited(r, V)'
      <4>1. {} \in SUBSET (0 .. MaxComments)
        OBVIOUS
      <4> QED BY <2>12, <4>1
    <3>5. r.thread # NoTopic
      BY <1>2, <2>9 DEF SameLoad
    <3>6. r.queue # <<>> /\ ~r.reply.come /\ r.had = had
      BY <2>5, <2>9, <2>10
    <3> QED BY <2>11, <3>0, <3>1, <3>2, <3>3, <3>4, <3>5, <3>6 DEF UpdateOK
  <2>14. LoadOK(r)' /\ FormOK(r)'
    BY <2>9 DEF PageOK, LoadOK, FormOK, SameLoad, SameForm
  <2> QED BY <2>9, <2>13, <2>14 DEF PageOK
<1> QED BY <1>1, <1>2 DEF Pg

\* A page that has none gets its thread.
LEMMA LoadsOK ==
  ASSUME FoldersOK', CommentsOK', NEW q \in Pg, NEW r \in Pg, PageOK(q)', SameForm(r, q), SameUpdate(r, q),
         LoadOK(r)', r.thread = q.thread \/ q.thread = NoTopic
  PROVE  PageOK(r)'
<1>1. FormOK(r)'
  BY DEF PageOK, FormOK, SameForm
<1>2. UpdateOK(r)'
  <2>1. CASE r.thread = q.thread
    <3>1. \A c : ToShow(r, c)' = ToShow(q, c)' /\ (OnThread(r, c)' <=> OnThread(q, c)')
      BY <2>1 DEF ToShow, OnThread, SameUpdate
    <3>2. \A V : Visited(r, V)' <=> Visited(q, V)'
      BY <3>1 DEF Visited, SameUpdate
    <3> QED BY <2>1, <3>1, <3>2 DEF PageOK, UpdateOK, SameUpdate
  <2>2. CASE q.thread = NoTopic
    <3>1. \A c \in Stored' : comments'[c].on \in 1 .. topics' /\ comments'[c].on # NoTopic
      BY DiscussionAssumption DEF CommentsOK, FoldersOK, NoTopic
    <3>2. q.shown = {} /\ q.had = {} /\ q.reply.items = {} /\ q.reply.open = {}
      BY <2>2, <3>1 DEF PageOK, UpdateOK, OnThread
    <3>3. ~q.isUpdating /\ q.queue = <<>> /\ ~q.reply.come
      BY <2>2 DEF PageOK, UpdateOK
    <3>4. /\ r.shown = {} /\ r.had = {} /\ r.reply.items = {} /\ r.reply.open = {}
          /\ ~r.isUpdating /\ r.queue = <<>> /\ ~r.reply.come
      BY <3>2, <3>3 DEF SameUpdate
    <3>5. Items(r.queue) = {}
      BY <3>4, EmptySeq DEF Items
    <3> QED BY <3>4, <3>5 DEF UpdateOK
  <2> QED BY <2>1, <2>2
<1> QED BY <1>1, <1>2 DEF PageOK

\* The first of the list is what every page finds.
LEMMA FirstOfList ==
  ASSUME IInv, Listed # {}, NEW t, t = ThreadOf(Listed)
  PROVE  t \in 1 .. topics /\ topics \in Nat /\ Found(t)
<1>1. PICK list : list = Listed
  OBVIOUS
<1>2. /\ first \in 1 .. Len(folders) /\ folders # <<>> /\ Len(folders) \in Nat /\ topics \in Nat
      /\ folders[first] \in Seq(1 .. topics) /\ Len(folders[first]) \in Nat
  <2>1. first # 0
    BY DEF Listed
  <2>2. first \in 1 .. Len(folders) /\ folders # <<>> /\ Len(folders) \in Nat /\ topics \in Nat
    BY <2>1, LenProperties, DiscussionAssumption DEF IInv, FoldersOK
  <2>3. folders[first] \in Seq(1 .. topics)
    BY <2>2, ElementOfSeq DEF IInv, FoldersOK
  <2> QED BY <2>2, <2>3, LenProperties
<1>3. list = {i \in 1 .. Len(folders[first]) : folders[first][i] \in linked} /\ list # {}
  BY <1>1, <1>2, LenProperties DEF Listed
<1>4. PICK m \in list : \A n \in list : m <= n
  <2>1. list \in SUBSET Nat
    BY <1>2, <1>3
  <2> QED BY <1>3, <2>1, Least
<1>5. PICK m2 : m2 = CHOOSE i \in list : \A j \in list : i <= j
  OBVIOUS
<1>6. m2 \in list /\ \A j \in list : m2 <= j
  BY <1>4, <1>5
<1>7. t = folders[first][m2]
  BY <1>1, <1>5 DEF ThreadOf
<1>8. t \in 1 .. topics /\ t \in linked
  BY <1>2, <1>3, <1>6, <1>7, ElementOfSeq
<1>9. ASSUME Calm PROVE AtFront(t)
  <2>1. first = 1
    BY <1>2, <1>9 DEF Calm
  <2>2. m2 \in 1 .. Len(folders[1]) /\ folders[1][m2] = t
    BY <1>3, <1>6, <1>7, <2>1
  <2>3. ASSUME NEW j \in 1 .. Len(folders[1]), j < m2 PROVE folders[1][j] \notin linked
    <3>1. j \notin list
      BY <1>2, <1>6, <2>1, <2>2, <2>3
    <3> QED BY <1>3, <2>1, <3>1
  <2> QED BY <1>8, <2>2, <2>3 DEF AtFront
<1> QED BY <1>2, <1>8, <1>9 DEF Found

LEMMA ListStep ==
  ASSUME IInv, NEW p \in Page, getDiscussionThread(p)
  PROVE  IInv'
<1>q. PICK q : q = page[p]
  OBVIOUS
<1>1. q \in Pg /\ PageOK(q) /\ q.load = "list" /\ q.thread = NoTopic /\ UNCHANGED server
  BY <1>q DEF IInv, getDiscussionThread, PageOK, LoadOK
<1>2. FoldersOK' /\ CommentsOK' /\ Grow /\ UNCHANGED links
  BY <1>1, Quiet
<1>4. CASE Listed # {}
  <2>0. PICK t : t = ThreadOf(Listed)
    OBVIOUS
  <2>1. PICK n : n = WithListed(q, "done", t)
    OBVIOUS
  <2>2. PICK r : r = updateDiscussion(n)
    OBVIOUS
  <2>3. page' = [page EXCEPT ![p] = r]
    BY <1>q, <1>4, <2>0, <2>1, <2>2 DEF getDiscussionThread, WithListed
  <2>4. t \in 1 .. topics /\ topics \in Nat /\ Found(t)
    BY <1>4, <2>0, FirstOfList
  <2>7. /\ n \in Pg /\ SameForm(n, q) /\ SameUpdate(n, q)
        /\ n.load = "done" /\ n.thread = t /\ n.listed = TRUE /\ n.sees = q.sees
    <3>1. "done" \in Loads /\ t \in Nat
      BY <2>4 DEF Loads
    <3> QED BY <1>1, <2>1, <3>1, ListedSet
  <2>8. PageOK(q)'
    BY <1>1, <1>2, Others
  <2>9. LoadOK(n)'
    <3>1. topics' = topics /\ Found(t)'
      BY <1>1, <1>2, <2>4 DEF Grow, server
    <3> QED BY <1>1, <1>2, <2>4, <2>7, <2>8, <3>1 DEF LoadOK, PageOK, NoTopic
  <2>10. PageOK(n)'
    BY <1>1, <1>2, <2>7, <2>8, <2>9, LoadsOK
  <2>11. r \in Pg /\ PageOK(r)' /\ SameLoad(r, n)
    BY <1>2, <2>2, <2>7, <2>10, UpdateOpens
  <2>12. Links'
    BY <1>2, <2>3, <2>7, <2>11, LinksKept DEF KeepsLink, Linking, SameLoad
  <2> QED BY <1>2, <2>3, <2>11, <2>12, PageStep
<1>5. CASE Listed = {}
  <2>1. PICK r : r = WithLoad(q, "topic")
    OBVIOUS
  <2>2. page' = [page EXCEPT ![p] = r]
    BY <1>q, <1>5, <2>1 DEF getDiscussionThread, WithLoad
  <2>3. /\ r \in Pg /\ SameForm(r, q) /\ SameUpdate(r, q)
        /\ r.load = "topic" /\ r.thread = q.thread /\ r.listed = q.listed /\ r.sees = q.sees
    <3>1. "topic" \in Loads
      BY DEF Loads
    <3> QED BY <1>1, <2>1, <3>1, LoadSet
  <2>4. PageOK(q)'
    BY <1>1, <1>2, Others
  <2>5. PageOK(r)'
    <3>1. LoadOK(r)'
      BY <1>1, <2>3, <2>4 DEF PageOK, LoadOK
    <3> QED BY <1>1, <1>2, <2>3, <2>4, <3>1, LoadsOK
  <2>6. Links'
    BY <1>2, <2>2, <2>3, LinksKept DEF KeepsLink, Linking
  <2> QED BY <1>2, <2>2, <2>3, <2>5, <2>6, PageStep
<1> QED BY <1>4, <1>5

LEMMA TopicStep ==
  ASSUME IInv, NEW p \in Page, createDiscussionThread(p)
  PROVE  IInv'
<1>q. PICK q : q = page[p]
  OBVIOUS
<1>1. /\ q \in Pg /\ PageOK(q) /\ q.load = "topic" /\ q.thread = NoTopic /\ ~q.listed
      /\ topics < MaxTopics /\ topics' = topics + 1
      /\ UNCHANGED <<folders, first, linked, early, raced, comments>>
  BY <1>q DEF IInv, createDiscussionThread, PageOK, LoadOK, links
<1>2. topics \in Nat /\ topics' \in 0 .. MaxTopics /\ Len(folders) \in Nat /\ Len(comments) \in Nat
  BY <1>1, DiscussionAssumption, LenProperties DEF IInv, FoldersOK, CommentsOK
<1>3. 1 .. topics \subseteq 1 .. topics'
  BY <1>1, <1>2
<1>4. FoldersOK'
  <2>1. folders \in Seq(Seq(1 .. topics'))
    <3>1. Seq(1 .. topics) \subseteq Seq(1 .. topics')
      BY <1>3, SeqMonotonic
    <3> QED BY <3>1, SeqMonotonic DEF IInv, FoldersOK
  <2> QED BY <1>1, <1>2, <1>3, <2>1 DEF IInv, FoldersOK
<1>f. \A t : Found(t)' <=> Found(t)
  BY <1>1 DEF Found, Calm, AtFront
<1>5. CommentsOK'
  BY <1>1, <1>3, <1>f DEF IInv, CommentsOK, Stored
<1>6. Grow
  BY <1>1, <1>2, <1>f DEF Grow
<1>7. q.thread \in Nat
  BY <1>1 DEF Pg
<1>8. PageOK(q)'
  BY <1>1, <1>4, <1>5, <1>6, Others
<1>9. PICK r :
        /\ page' = [page EXCEPT ![p] = r] /\ r \in Pg /\ SameForm(r, q) /\ SameUpdate(r, q)
        /\ r.listed = q.listed /\ r.sees = q.sees
        /\ (r.load = "relation" /\ r.thread = topics') \/ (r.load = "done" /\ r.thread = q.thread)
  <2>1. PICK t \in Nat : t = topics'
    BY <1>2
  <2>2. PICK a : a = WithThread(q, "relation", t)
    OBVIOUS
  <2>3. PICK b : b = WithLoad(q, "done")
    OBVIOUS
  <2>4. "relation" \in Loads /\ "done" \in Loads
    BY DEF Loads
  <2>0. q \in Pg
    BY <1>1
  <2>5. /\ a \in Pg /\ SameForm(a, q) /\ SameUpdate(a, q)
        /\ a.load = "relation" /\ a.thread = t /\ a.listed = q.listed /\ a.sees = q.sees
    BY <2>0, <2>2, <2>4, ThreadSet
  <2>6. /\ b \in Pg /\ SameForm(b, q) /\ SameUpdate(b, q) /\ b.load = "done"
        /\ b.thread = q.thread /\ b.listed = q.listed /\ b.sees = q.sees
    BY <2>0, <2>3, <2>4, LoadSet
  <2>7. page' = [page EXCEPT ![p] = a] \/ page' = [page EXCEPT ![p] = b]
    BY <1>q, <1>1, <2>1, <2>2, <2>3 DEF createDiscussionThread, WithLoad, WithThread
  <2> QED BY <2>1, <2>5, <2>6, <2>7
<1>11. LoadOK(r)'
  BY <1>1, <1>2, <1>7, <1>8, <1>9 DEF PageOK, LoadOK, NoTopic
<1>12. PageOK(r)'
  BY <1>1, <1>4, <1>5, <1>8, <1>9, <1>11, LoadsOK
<1>13. Links'
  <2>1. CASE r.load = "done"
    BY <1>1, <1>9, <2>1, LinksKept DEF KeepsLink, Linking, links
  <2>2. CASE r.load = "relation"
    <3>1. \A o \in Page : page'[o] = IF o = p THEN r ELSE page[o]
      BY <1>9 DEF IInv
    <3>2. \A t : (Unlinked(t)' <=> Unlinked(t)) /\ (Behind(t)' <=> Behind(t))
      BY <1>1 DEF Unlinked, Behind, Calm
    <3>3. \A o \in Page : page[o].thread \in Nat /\ page[o].thread <= topics
      BY DEF IInv, Pg, PageOK, LoadOK
    <3>4. r.thread = topics' /\ \A o \in Page : page[o].thread # topics'
      BY <1>1, <1>2, <1>9, <2>2, <3>3
    <3>5. Unlinked(topics')
      <4>1. \A f \in 1 .. Len(folders) : folders[f] \in Seq(1 .. topics)
        BY ElementOfSeq DEF IInv, FoldersOK
      <4>2. \A f \in 1 .. Len(folders) : \A i \in 1 .. Len(folders[f]) : folders[f][i] \in 1 .. topics
        BY <4>1, ElementOfSeq
      <4> QED BY <1>1, <1>2, <4>2 DEF Unlinked
    <3>6. \A o, n \in Page : o # n /\ Linking(page'[o]) /\ Linking(page'[n]) => page'[o].thread # page'[n].thread
      BY <3>1, <3>4 DEF IInv, Links
    <3>7. \A o \in Page : page'[o].load = "relation" => Unlinked(page[o].thread)'
      BY <3>1, <3>2, <3>4, <3>5 DEF IInv, Links
    <3>8. \A o \in Page : page'[o].load = "put" /\ o \notin early' => Behind(page[o].thread)'
      BY <1>1, <2>2, <3>1, <3>2 DEF IInv, Links
    <3>9. \A o \in Page : Linking(page[o])' <=> Linking(page'[o])
      BY DEF Linking
    <3> QED BY <3>6, <3>7, <3>8, <3>9 DEF Links
  <2> QED BY <1>9, <2>1, <2>2
<1> QED BY <1>4, <1>5, <1>6, <1>9, <1>12, <1>13, PageStep

\* Steps that concern one part of a page only.
LEMMA FormsOK ==
  ASSUME NEW q \in Pg, NEW r \in Pg, PageOK(q)', SameLoad(r, q), SameUpdate(r, q), FormOK(r)'
  PROVE  PageOK(r)'
<1>1. LoadOK(r)'
  BY DEF PageOK, LoadOK, SameLoad
<1>2. \A c : ToShow(r, c)' = ToShow(q, c)' /\ (OnThread(r, c)' <=> OnThread(q, c)')
  BY DEF ToShow, OnThread, SameLoad, SameUpdate
<1>3. \A V : Visited(r, V)' <=> Visited(q, V)'
  BY <1>2 DEF Visited, SameUpdate
<1>4. UpdateOK(r)'
  BY <1>2, <1>3 DEF PageOK, UpdateOK, SameLoad, SameUpdate
<1> QED BY <1>1, <1>4 DEF PageOK

LEMMA UpdatesOK ==
  ASSUME NEW q \in Pg, NEW r \in Pg, PageOK(q)', SameLoad(r, q), SameForm(r, q), UpdateOK(r)'
  PROVE  PageOK(r)'
BY DEF PageOK, LoadOK, FormOK, SameLoad, SameForm

\* What the folders hold after a link is created.
Wider(t) ==
  /\ folders' \in Seq(Seq(1 .. topics)) /\ Len(folders') = Len(folders)
  /\ \A f \in 1 .. Len(folders) : \A i \in 1 .. Len(folders[f]) :
       i \in 1 .. Len(folders'[f]) /\ folders'[f][i] = folders[f][i]
  /\ \A f \in 1 .. Len(folders) : \A i \in 1 .. Len(folders'[f]) :
       i \in 1 .. Len(folders[f]) \/ (f = first /\ i = Len(folders[f]) + 1 /\ folders'[f][i] = t)

LEMMA AppendOK ==
  ASSUME IInv, NEW t \in 1 .. topics,
         folders' = IF first = 0 THEN folders ELSE [folders EXCEPT ![first] = Append(@, t)]
  PROVE  Wider(t)
<1>1. /\ Len(folders) \in Nat /\ folders \in Seq(Seq(1 .. topics)) /\ first \in 0 .. Len(folders)
      /\ \A f \in 1 .. Len(folders) : folders[f] \in Seq(1 .. topics) /\ Len(folders[f]) \in Nat
  BY LenProperties, ElementOfSeq DEF IInv, FoldersOK
<1>2. CASE first = 0
  BY <1>1, <1>2 DEF Wider
<1>3. CASE first # 0
  <2>1. PICK new : new = Append(folders[first], t)
    OBVIOUS
  <2>2. first \in 1 .. Len(folders) /\ folders' = [folders EXCEPT ![first] = new]
    BY <1>1, <1>3, <2>1
  <2>3. /\ new \in Seq(1 .. topics) /\ Len(new) = Len(folders[first]) + 1 /\ new[Len(folders[first]) + 1] = t
        /\ \A i \in 1 .. Len(folders[first]) : new[i] = folders[first][i]
    BY <1>1, <2>1, <2>2, AppendProperties
  <2>4. /\ folders' \in Seq(Seq(1 .. topics)) /\ Len(folders') = Len(folders)
        /\ \A j \in 1 .. Len(folders) : folders'[j] = IF j = first THEN new ELSE folders[j]
    <3>1. PICK g \in 1 .. Len(folders) : g = first
      BY <2>2
    <3>2. folders \in Seq(Seq(1 .. topics)) /\ folders' = [folders EXCEPT ![g] = new]
      BY <1>1, <2>2, <3>1
    <3>3. PICK after : after = [folders EXCEPT ![g] = new]
      OBVIOUS
    <3>4. /\ after \in Seq(Seq(1 .. topics)) /\ Len(after) = Len(folders)
          /\ \A j \in 1 .. Len(folders) : after[j] = IF j = g THEN new ELSE folders[j]
      BY <2>3, <3>1, <3>2, <3>3, ExceptSeq
    <3>5. folders' = after
      BY <3>2, <3>3
    <3> QED BY <3>1, <3>4, <3>5
  <2>5. ASSUME NEW f \in 1 .. Len(folders), NEW i \in 1 .. Len(folders[f])
        PROVE  i \in 1 .. Len(folders'[f]) /\ folders'[f][i] = folders[f][i]
    <3>1. CASE f = first
      BY <1>1, <2>3, <2>4, <3>1
    <3>2. CASE f # first
      BY <2>4, <3>2
    <3> QED BY <3>1, <3>2
  <2>6. ASSUME NEW f \in 1 .. Len(folders), NEW i \in 1 .. Len(folders'[f])
        PROVE  i \in 1 .. Len(folders[f]) \/ (f = first /\ i = Len(folders[f]) + 1 /\ folders'[f][i] = t)
    <3>1. CASE f = first
      <4>1. folders'[f] = new /\ Len(folders[f]) \in Nat
        BY <1>1, <2>4, <3>1
      <4> QED BY <2>3, <3>1, <4>1
    <3>2. CASE f # first
      BY <2>4, <3>2
    <3> QED BY <3>1, <3>2
  <2> QED BY <2>4, <2>5, <2>6 DEF Wider
<1> QED BY <1>2, <1>3

LEMMA BeginStep ==
  ASSUME IInv, NEW p \in Page, BeginPut(p)
  PROVE  IInv'
<1>q. PICK q : q = page[p]
  OBVIOUS
<1>f. PICK f : f = first
  OBVIOUS
<1>t. PICK t : t = q.thread
  OBVIOUS
<1>r. PICK r : r = WithSees(q, "put", f)
  OBVIOUS
<1>1. /\ q \in Pg /\ PageOK(q) /\ q.load = "relation" /\ page' = [page EXCEPT ![p] = r]
      /\ UNCHANGED <<topics, first, linked, raced, comments>>
      /\ early' = IF Listed = {} THEN early \cup {p} ELSE early \ {p}
      /\ folders' = IF first = 0 THEN folders ELSE [folders EXCEPT ![first] = Append(@, t)]
  BY <1>q, <1>f, <1>t, <1>r DEF IInv, BeginPut, WithSees
<1>2. /\ topics \in Nat /\ Len(folders) \in Nat /\ Len(comments) \in Nat /\ t \in 1 .. topics
      /\ first \in 0 .. Len(folders) /\ (first = 0 <=> folders = <<>>)
  BY <1>1, <1>t, LenProperties, DiscussionAssumption DEF IInv, FoldersOK, CommentsOK, PageOK, LoadOK, NoTopic, Pg
<1>3. Wider(t)
  BY <1>1, <1>2, AppendOK
<1>4. (folders' = <<>> <=> folders = <<>>) /\ Len(folders') = Len(folders) /\ (Calm' <=> Calm)
  BY <1>1, <1>2, <1>3, EmptySeq DEF Wider, Calm
<1>5. ASSUME NEW u, Found(u) PROVE Found(u)'
  <2> SUFFICES ASSUME Calm, AtFront(u) PROVE AtFront(u)'
    BY <1>4, <1>5 DEF Found
  <2>1. PICK i \in 1 .. Len(folders[1]) :
          /\ folders[1][i] = u /\ u \in linked
          /\ \A j \in 1 .. Len(folders[1]) : j < i => folders[1][j] \notin linked
    BY DEF AtFront
  <2>2. 1 \in 1 .. Len(folders) /\ Len(folders[1]) \in Nat
    BY <1>2, LenProperties, ElementOfSeq DEF Calm, IInv, FoldersOK
  <2>3. i \in 1 .. Len(folders'[1]) /\ folders'[1][i] = u
    BY <1>3, <2>1, <2>2 DEF Wider
  <2>4. ASSUME NEW j \in 1 .. Len(folders'[1]), j < i PROVE folders'[1][j] \notin linked
    <3>1. j \in 1 .. Len(folders[1])
      BY <1>3, <2>2, <2>4 DEF Wider
    <3> QED BY <1>3, <2>1, <2>2, <2>4, <3>1 DEF Wider
  <2> QED BY <1>1, <2>1, <2>3, <2>4 DEF AtFront
<1>6. FoldersOK'
  BY <1>1, <1>2, <1>3, <1>4 DEF IInv, FoldersOK, Wider
<1>7. CommentsOK' /\ Grow
  BY <1>1, <1>2, <1>4, <1>5 DEF IInv, CommentsOK, Stored, Grow
<1>8. PageOK(q)'
  BY <1>1, <1>6, <1>7, Others
<1>9. f \in Nat /\ f <= Len(folders')
  BY <1>f, <1>2, <1>4
<1>10. /\ r \in Pg /\ SameForm(r, q) /\ SameUpdate(r, q)
       /\ r.load = "put" /\ r.thread = q.thread /\ r.listed = q.listed /\ r.sees = f
  <2>1. "put" \in Loads
    BY DEF Loads
  <2> QED BY <1>1, <1>9, <1>r, <2>1, SeesSet
<1>11. LoadOK(r)'
  BY <1>1, <1>8, <1>9, <1>10 DEF PageOK, LoadOK
<1>12. PageOK(r)'
  BY <1>1, <1>6, <1>7, <1>8, <1>10, <1>11, LoadsOK
<1>13. \A o \in Page : page'[o] = IF o = p THEN r ELSE page[o]
  BY <1>1 DEF IInv
<1>14. \A o, n \in Page : o # n /\ Linking(page'[o]) /\ Linking(page'[n]) => page'[o].thread # page'[n].thread
  BY <1>1, <1>q, <1>10, <1>13 DEF IInv, Links, Linking
<1>15. \A o \in Page \ {p} : Linking(page[o]) => page[o].thread # t
  BY <1>1, <1>q, <1>t DEF IInv, Links, Linking
<1>16. Unlinked(t)
  BY <1>1, <1>q, <1>t DEF IInv, Links
<1>17. ASSUME NEW o \in Page, page'[o].load = "relation" PROVE Unlinked(page[o].thread)'
  <2>1. o # p /\ page'[o] = page[o] /\ Unlinked(page[o].thread) /\ page[o].thread # t
    BY <1>10, <1>13, <1>15, <1>17 DEF IInv, Links, Linking
  <2>2. \A x \in 1 .. Len(folders) : \A i \in 1 .. Len(folders'[x]) : folders'[x][i] # page[o].thread
    BY <1>3, <2>1 DEF Wider, Unlinked
  <2> QED BY <1>4, <2>1, <2>2 DEF Unlinked
<1>18. ASSUME NEW o \in Page, page'[o].load = "put", o \notin early' PROVE Behind(page[o].thread)'
  <2> SUFFICES ASSUME Calm, NEW i \in 1 .. Len(folders'[1]), folders'[1][i] = page'[o].thread
               PROVE  \E j \in 1 .. Len(folders'[1]) : j < i /\ folders'[1][j] \in linked
    BY <1>1, <1>4 DEF Behind
  <2>1. 1 \in 1 .. Len(folders) /\ Len(folders[1]) \in Nat /\ first = 1
    <3>0. Len(folders) = 1 /\ folders \in Seq(Seq(1 .. topics))
      BY DEF Calm, IInv, FoldersOK
    <3>1. Len(folders) = 1 /\ folders # <<>>
      BY <3>0, EmptySeq
    <3>2. folders[1] \in Seq(1 .. topics)
      BY <3>1, ElementOfSeq DEF IInv, FoldersOK
    <3> QED BY <1>2, <3>1, <3>2, LenProperties
  <2>2. CASE o # p
    <3>1. page'[o] = page[o] /\ page[o].thread # t /\ o \notin early
      BY <1>1, <1>13, <1>15, <1>18, <2>2 DEF Linking
    <3>2. Behind(page[o].thread)
      BY <1>18, <3>1 DEF IInv, Links
    <3>3. i \in 1 .. Len(folders[1]) /\ folders[1][i] = page[o].thread
      BY <1>3, <2>1, <3>1 DEF Wider
    <3>4. PICK j \in 1 .. Len(folders[1]) : j < i /\ folders[1][j] \in linked
      BY <3>2, <3>3 DEF Behind
    <3> QED BY <1>3, <2>1, <3>4 DEF Wider
  <2>3. CASE o = p
    <3>1. Listed # {} /\ page'[o].thread = t
      BY <1>1, <1>t, <1>10, <1>13, <1>18, <2>3
    <3>2. Listed = {j \in 1 .. Len(folders[1]) : folders[1][j] \in linked}
      BY <2>1, LenProperties, ElementOfSeq DEF Listed, IInv, FoldersOK
    <3>3. PICK j \in 1 .. Len(folders[1]) : folders[1][j] \in linked
      BY <3>1, <3>2
    <3>4. i = Len(folders[1]) + 1
      <4>1. folders'[1][i] = t
        BY <3>1
      <4>2. i \notin 1 .. Len(folders[1])
        <5> SUFFICES ASSUME i \in 1 .. Len(folders[1]) PROVE FALSE
          OBVIOUS
        <5>1. folders'[1][i] = folders[1][i]
          BY <1>3, <2>1 DEF Wider
        <5> QED BY <1>16, <2>1, <4>1, <5>1 DEF Unlinked
      <4> QED BY <1>3, <2>1, <4>2 DEF Wider
    <3>5. j \in 1 .. Len(folders'[1]) /\ folders'[1][j] = folders[1][j]
      BY <1>3, <2>1 DEF Wider
    <3>6. j < i
      BY <2>1, <3>4
    <3> QED BY <3>3, <3>5, <3>6
  <2> QED BY <2>2, <2>3
<1>19. \A o \in Page : Linking(page[o])' <=> Linking(page'[o])
  BY DEF Linking
<1>20. Links'
  BY <1>14, <1>17, <1>18, <1>19 DEF Links
<1> QED BY <1>1, <1>6, <1>7, <1>10, <1>12, <1>20, PageStep

\* A folder is added; there are two then, or it is the only one.
Added(new) ==
  /\ folders' \in Seq(Seq(1 .. topics)) /\ Len(folders') = Len(folders) + 1 /\ folders' # <<>>
  /\ Len(folders) \in Nat /\ first' \in 1 .. Len(folders')
  /\ \A u : Found(u) => Found(u)'
  /\ \A u : Unlinked(u) /\ (\A i \in 1 .. Len(new) : new[i] # u) => Unlinked(u)'
  /\ \A u : (\A i \in 1 .. Len(new) : new[i] # u) => Behind(u)'

LEMMA NewFolderOK ==
  ASSUME IInv, NEW new \in Seq(1 .. topics), NewFolder(new)
  PROVE  Added(new)
<1>1. /\ Len(folders) \in Nat /\ folders \in Seq(Seq(1 .. topics)) /\ first \in 0 .. Len(folders)
      /\ folders' = Append(folders, new) /\ first' \in {Len(folders) + 1} \cup ({first} \ {0})
  BY LenProperties DEF IInv, FoldersOK, NewFolder
<1>2. /\ folders' \in Seq(Seq(1 .. topics)) /\ Len(folders') = Len(folders) + 1
      /\ \A f \in 1 .. Len(folders) : folders'[f] = folders[f]
      /\ folders'[Len(folders) + 1] = new
  BY <1>1, AppendProperties
<1>3. folders' # <<>> /\ first' \in 1 .. Len(folders')
  BY <1>1, <1>2, EmptySeq
<1>4. ASSUME NEW u, Found(u) PROVE Found(u)'
  <2>1. Len(folders) # 0
    BY <1>1, <1>4, EmptySeq DEF Found
  <2>2. ~Calm'
    BY <1>1, <1>2, <2>1 DEF Calm
  <2> QED BY <1>3, <2>2 DEF Found
<1>5. ASSUME NEW u, Unlinked(u), \A i \in 1 .. Len(new) : new[i] # u PROVE Unlinked(u)'
  <2> SUFFICES ASSUME NEW f \in 1 .. Len(folders'), NEW i \in 1 .. Len(folders'[f]) PROVE folders'[f][i] # u
    BY DEF Unlinked
  <2>1. CASE f = Len(folders) + 1
    BY <1>2, <1>5, <2>1
  <2>2. CASE f # Len(folders) + 1
    <3>1. f \in 1 .. Len(folders)
      BY <1>1, <1>2, <2>2
    <3> QED BY <1>2, <1>5, <3>1 DEF Unlinked
  <2> QED BY <2>1, <2>2
<1>6. ASSUME NEW u, \A i \in 1 .. Len(new) : new[i] # u PROVE Behind(u)'
  <2> SUFFICES ASSUME Calm' PROVE \A i \in 1 .. Len(folders'[1]) : folders'[1][i] # u
    BY DEF Behind
  <2>1. folders'[1] = new
    BY <1>1, <1>2 DEF Calm
  <2> QED BY <1>6, <2>1
<1> QED BY <1>1, <1>2, <1>3, <1>4, <1>5, <1>6 DEF Added

LEMMA FolderStep ==
  ASSUME IInv, getFolder
  PROVE  IInv'
<1>1. NewFolder(<<>>) /\ UNCHANGED <<topics, linked, early, raced, comments, page>>
  BY DEF getFolder
<1>2. PICK new \in Seq(1 .. topics) : new = <<>> /\ Len(new) = 0
  BY EmptySeq
<1>3. /\ folders' \in Seq(Seq(1 .. topics)) /\ Len(folders') = Len(folders) + 1 /\ folders' # <<>>
      /\ Len(folders) \in Nat /\ first' \in 1 .. Len(folders')
      /\ \A u : Found(u) => Found(u)'
      /\ \A u : Unlinked(u) => Unlinked(u)'
      /\ \A u : Behind(u)'
  <2>1. NewFolder(new)
    BY <1>1, <1>2
  <2>2. Added(new)
    BY <2>1, NewFolderOK
  <2> QED BY <1>2, <2>2 DEF Added
<1>4. topics \in Nat /\ Len(comments) \in Nat
  BY LenProperties, DiscussionAssumption DEF IInv, FoldersOK, CommentsOK
<1>5. FoldersOK'
  BY <1>1, <1>3 DEF IInv, FoldersOK
<1>6. CommentsOK'
  BY <1>1, <1>3 DEF IInv, CommentsOK, Stored
<1>7. Grow
  BY <1>1, <1>3, <1>4 DEF Stored, Grow
<1>8. Links'
  BY <1>1, <1>3 DEF IInv, Links, Linking
<1>9. ASSUME NEW o \in Page PROVE PageOK(page[o])'
  <2>1. PICK q : q = page[o]
    OBVIOUS
  <2>2. q \in Pg /\ PageOK(q)
    BY <2>1 DEF IInv
  <2>3. PageOK(q)'
    BY <1>5, <1>6, <1>7, <2>2, Others
  <2> QED BY <1>1, <2>1, <2>3
<1> QED BY <1>1, <1>5, <1>6, <1>8, <1>9 DEF IInv

\* A link that is committed stands behind the committed ones of the one folder, or
\* is the first.
LEMMA LinkOK ==
  ASSUME IInv, NEW p \in Page, CommitPut(p)
  PROVE  /\ FoldersOK' /\ CommentsOK' /\ Grow
         /\ \A u : u # page[p].thread => (Unlinked(u) => Unlinked(u)') /\ (Behind(u) => Behind(u)')
<1>q. PICK q : q = page[p]
  OBVIOUS
<1>1. q \in Pg /\ PageOK(q) /\ q.load = "put"
  BY <1>q DEF IInv, CommitPut
<1>2. /\ topics \in Nat /\ Len(folders) \in Nat /\ Len(comments) \in Nat
      /\ folders \in Seq(Seq(1 .. topics)) /\ first \in 0 .. Len(folders) /\ (first = 0 <=> folders = <<>>)
  BY DiscussionAssumption, LenProperties DEF IInv, FoldersOK, CommentsOK
<1>3. PICK t \in 1 .. topics : t = q.thread
  BY <1>1, <1>2 DEF PageOK, LoadOK, NoTopic, Pg
<1>4. PICK sees : sees = q.sees
  OBVIOUS
<1>5. sees \in 0 .. Len(folders)
  BY <1>1, <1>2, <1>4 DEF PageOK, LoadOK, Pg
<1>6. /\ IF sees = 0 THEN NewFolder(<<t>>) ELSE UNCHANGED <<folders, first>>
      /\ linked' = linked \cup {t} /\ raced' = (raced \/ (p \in early /\ Listed # {}))
      /\ UNCHANGED <<topics, early, comments>>
  BY <1>q, <1>3, <1>4 DEF CommitPut, pushDiscussionsForWorkflow
<1>7. /\ folders' \in Seq(Seq(1 .. topics)) /\ Len(folders') >= Len(folders) /\ folders' # <<>>
      /\ Len(folders') \in Nat /\ first' \in 1 .. Len(folders')
      /\ \A u : Found(u) => Found(u)'
      /\ \A u : u # t => (Unlinked(u) => Unlinked(u)') /\ (Behind(u) => Behind(u)')
  <2>1. CASE sees # 0
    <3>1. UNCHANGED <<folders, first>>
      BY <1>6, <2>1
    <3>2. folders # <<>> /\ first \in 1 .. Len(folders)
      BY <1>2, <1>5, <2>1, EmptySeq
    <3>3. Calm' => Calm /\ ~(p \in early /\ Listed # {})
      BY <1>6, <3>1 DEF Calm
    <3>4. ASSUME NEW u, Found(u) PROVE Found(u)'
      <4> SUFFICES ASSUME Calm' PROVE AtFront(u)'
        BY <3>1, <3>2 DEF Found
      <4>1. Calm /\ AtFront(u)
        BY <3>3, <3>4 DEF Found
      <4>2. PICK i \in 1 .. Len(folders[1]) :
              /\ folders[1][i] = u /\ u \in linked
              /\ \A j \in 1 .. Len(folders[1]) : j < i => folders[1][j] \notin linked
        BY <4>1 DEF AtFront
      <4>3. first = 1 /\ Len(folders[1]) \in Nat /\ DOMAIN folders[1] = 1 .. Len(folders[1])
        <5>1. first = 1
          BY <3>2, <4>1 DEF Calm
        <5>2. folders[1] \in Seq(1 .. topics)
          BY <1>2, <3>2, <5>1, ElementOfSeq
        <5> QED BY <5>1, <5>2, LenProperties
      <4>4. i \in Listed
        BY <4>2, <4>3 DEF Listed
      <4>5. p \notin early
        BY <3>3, <4>4
      <4>6. Behind(t)
        BY <1>1, <1>3, <1>q, <4>5 DEF IInv, Links
      <4>7. ASSUME NEW j \in 1 .. Len(folders[1]), j < i PROVE folders[1][j] \notin linked'
        <5>1. folders[1][j] # t
          <6> SUFFICES ASSUME folders[1][j] = t PROVE FALSE
            OBVIOUS
          <6>1. PICK k \in 1 .. Len(folders[1]) : k < j /\ folders[1][k] \in linked
            BY <4>1, <4>6 DEF Behind
          <6>2. k < i
            BY <4>3, <4>7, <6>1
          <6> QED BY <4>2, <6>1, <6>2
        <5> QED BY <1>6, <4>2, <4>7, <5>1
      <4> QED BY <1>6, <3>1, <4>2, <4>7 DEF AtFront
    <3>5. \A u : Unlinked(u) => Unlinked(u)'
      BY <3>1 DEF Unlinked
    <3>6. \A u : Behind(u) => Behind(u)'
      BY <1>6, <3>1, <3>3 DEF Behind
    <3> QED BY <1>2, <3>1, <3>2, <3>4, <3>5, <3>6
  <2>2. CASE sees = 0
    <3>1. PICK new \in Seq(1 .. topics) : new = <<t>>
      <4>1. <<t>> \in Seq(1 .. topics)
        OBVIOUS
      <4> QED BY <4>1
    <3>2. \A u : u # t => \A i \in 1 .. Len(new) : new[i] # u
      BY <3>1
    <3>3. NewFolder(new)
      BY <1>6, <2>2, <3>1
    <3>4. Added(new)
      BY <3>3, NewFolderOK
    <3>5. \A u : u # t => (Unlinked(u) => Unlinked(u)') /\ (Behind(u) => Behind(u)')
      BY <3>2, <3>4 DEF Added
    <3> QED BY <1>2, <3>4, <3>5 DEF Added
  <2> QED BY <2>1, <2>2
<1>8. FoldersOK'
  <2>1. first' # 0
    BY <1>7
  <2>2. linked' \subseteq 1 .. topics
    BY <1>6 DEF IInv, FoldersOK
  <2>3. raced' \in BOOLEAN
    BY <1>6
  <2> QED BY <1>6, <1>7, <2>1, <2>2, <2>3 DEF IInv, FoldersOK
<1>9. CommentsOK'
  BY <1>6, <1>7 DEF IInv, CommentsOK, Stored
<1>10. Grow
  BY <1>2, <1>6, <1>7 DEF Grow, Stored
<1> QED BY <1>3, <1>7, <1>8, <1>9, <1>10, <1>q

LEMMA LinkStep ==
  ASSUME IInv, NEW p \in Page, CommitPut(p)
  PROVE  IInv'
<1>q. PICK q : q = page[p]
  OBVIOUS
<1>a. PICK a : a = WithLoad(q, "done")
  OBVIOUS
<1>b. PICK b : b = WithSees(q, "done", 0)
  OBVIOUS
<1>r. PICK r : r = updateDiscussion(b)
  OBVIOUS
<1>1. /\ q \in Pg /\ PageOK(q)
      /\ q.load = "put" /\ (page' = [page EXCEPT ![p] = a] \/ page' = [page EXCEPT ![p] = r])
  BY <1>q, <1>a, <1>b, <1>r DEF IInv, CommitPut, WithLoad, WithSees
<1>2. /\ FoldersOK' /\ CommentsOK' /\ Grow
      /\ \A u : u # page[p].thread => (Unlinked(u) => Unlinked(u)') /\ (Behind(u) => Behind(u)')
  BY LinkOK
<1>3. PageOK(q)'
  BY <1>1, <1>2, Others
<1>4. "done" \in Loads /\ 0 \in Nat /\ Len(folders') \in Nat
  BY <1>2, LenProperties DEF Loads, FoldersOK
<1>5. /\ a \in Pg /\ SameForm(a, q) /\ SameUpdate(a, q) /\ a.load = "done"
      /\ a.thread = q.thread /\ a.listed = q.listed /\ a.sees = q.sees
  BY <1>1, <1>4, <1>a, LoadSet
<1>6. /\ b \in Pg /\ SameForm(b, q) /\ SameUpdate(b, q) /\ b.load = "done"
      /\ b.thread = q.thread /\ b.listed = q.listed /\ b.sees = 0
  BY <1>1, <1>4, <1>b, SeesSet
<1>7. LoadOK(a)' /\ LoadOK(b)'
  BY <1>3, <1>4, <1>5, <1>6 DEF PageOK, LoadOK
<1>8. PageOK(a)' /\ PageOK(b)'
  BY <1>1, <1>2, <1>3, <1>5, <1>6, <1>7, LoadsOK
<1>9. r \in Pg /\ PageOK(r)' /\ SameLoad(r, b)
  BY <1>2, <1>6, <1>8, <1>r, UpdateOpens
<1>10. ASSUME NEW w \in Pg, w.load = "done", page' = [page EXCEPT ![p] = w] PROVE Links'
  <2>1. \A o \in Page : page'[o] = IF o = p THEN w ELSE page[o]
    BY <1>10 DEF IInv
  <2>2. \A o \in Page : Linking(page[o])' <=> Linking(page'[o])
    BY DEF Linking
  <2>3. \A o \in Page : Linking(page'[o]) => o # p /\ page'[o] = page[o] /\ page[o].thread # page[p].thread
    BY <1>1, <1>q, <1>10, <2>1 DEF Linking, IInv, Links
  <2>4. \A o, n \in Page : o # n /\ Linking(page'[o]) /\ Linking(page'[n]) => page'[o].thread # page'[n].thread
    BY <2>3 DEF IInv, Links
  <2>5. \A o \in Page : page'[o].load = "relation" => Unlinked(page[o].thread)'
    BY <1>2, <2>3 DEF IInv, Links, Linking
  <2>6. \A o \in Page : page'[o].load = "put" /\ o \notin early' => Behind(page[o].thread)'
    <3>1. early' = early
      BY DEF CommitPut
    <3> QED BY <1>2, <2>3, <3>1 DEF IInv, Links, Linking
  <2> QED BY <2>2, <2>4, <2>5, <2>6 DEF Links
<1>11. Links'
  BY <1>1, <1>5, <1>6, <1>9, <1>10 DEF SameLoad
<1> QED BY <1>1, <1>2, <1>5, <1>8, <1>9, <1>11, PageStep

LEMMA FailLoadStep ==
  ASSUME IInv, NEW p \in Page, FailLoad(p)
  PROVE  IInv'
<1>q. PICK q : q = page[p]
  OBVIOUS
<1>a. PICK a : a = WithLoad(q, "done")
  OBVIOUS
<1>r. PICK r : r = updateDiscussion(a)
  OBVIOUS
<1>1. /\ q \in Pg /\ PageOK(q)
      /\ UNCHANGED server /\ (page' = [page EXCEPT ![p] = a] \/ page' = [page EXCEPT ![p] = r])
  BY <1>q, <1>a, <1>r DEF IInv, FailLoad, WithLoad
<1>2. FoldersOK' /\ CommentsOK' /\ Grow /\ UNCHANGED links
  BY <1>1, Quiet
<1>3. PageOK(q)'
  BY <1>1, <1>2, Others
<1>4. "done" \in Loads
  BY DEF Loads
<1>5. /\ a \in Pg /\ SameForm(a, q) /\ SameUpdate(a, q) /\ a.load = "done"
      /\ a.thread = q.thread /\ a.listed = q.listed /\ a.sees = q.sees
  BY <1>1, <1>4, <1>a, LoadSet
<1>6. LoadOK(a)'
  BY <1>3, <1>5 DEF PageOK, LoadOK
<1>7. PageOK(a)'
  BY <1>1, <1>2, <1>3, <1>5, <1>6, LoadsOK
<1>8. r \in Pg /\ PageOK(r)' /\ SameLoad(r, a)
  BY <1>2, <1>5, <1>7, <1>r, UpdateOpens
<1>9. Links'
  BY <1>1, <1>2, <1>5, <1>8, LinksKept DEF KeepsLink, Linking, SameLoad
<1> QED BY <1>1, <1>2, <1>5, <1>7, <1>8, <1>9, PageStep

\* The answer has all replies that the update has to show.
LEMMA AnswerStep ==
  ASSUME IInv, NEW p \in Page, AnswerReplies(p)
  PROVE  IInv'
<1>q. PICK q : q = page[p]
  OBVIOUS
<1>u. PICK u : u = Head(q.queue)
  OBVIOUS
<1>i. PICK items : items = Replies(q.thread, u)
  OBVIOUS
<1>o. PICK open : open = {c \in items : Replies(q.thread, c) # {}}
  OBVIOUS
<1>y. PICK reply : reply = [come |-> TRUE, items |-> items, open |-> open]
  OBVIOUS
<1>r. PICK r : r = Updated(q, q.isUpdating, q.queue, reply, q.shown, q.had)
  OBVIOUS
<1>1. /\ q \in Pg /\ PageOK(q) /\ q.queue # <<>>
      /\ page' = [page EXCEPT ![p] = [q EXCEPT !.reply = reply]] /\ UNCHANGED server
  BY <1>q, <1>u, <1>i, <1>o, <1>y DEF IInv, AnswerReplies
<1>2. page' = [page EXCEPT ![p] = r]
  <2>1. PICK L, T, N, F, O, Q, R, S : q \in PageOf(L, T, N, F, O, Q, R, S)
    BY <1>1, PageShape
  <2>2. r = [q EXCEPT !.reply = reply]
    BY <1>r, <2>1 DEF PageOf, Updated
  <2> QED BY <1>1, <2>2
<1>3. FoldersOK' /\ CommentsOK' /\ Grow /\ UNCHANGED links
  BY <1>1, Quiet
<1>4. PageOK(q)'
  BY <1>1, <1>3, Others
<1>5. /\ /\ Len(comments') \in Nat /\ Len(comments') <= MaxComments
      /\ Stored' = 1 .. Len(comments') /\ comments' = comments
      /\ DOMAIN comments = Stored'
  BY <1>1, LenProperties DEF IInv, CommentsOK, Stored, server, links
<1>6. \A x : Replies(q.thread, x) = {c \in Stored' : comments'[c].on = q.thread /\ comments'[c].under = x}
  BY <1>5 DEF Replies
<1>7. items \in SUBSET Comment /\ open \subseteq items
  BY <1>i, <1>o, <1>5, <1>6, DiscussionAssumption DEF Comment
<1>8. reply \in Reply /\ reply.come /\ reply.items = items /\ reply.open = open
  BY <1>7, <1>y DEF Reply
<1>9. /\ r \in Pg /\ SameLoad(r, q) /\ SameForm(r, q)
      /\ r.isUpdating = q.isUpdating /\ r.queue = q.queue /\ r.reply = reply /\ r.shown = q.shown /\ r.had = q.had
  <2>1. /\ q.isUpdating \in BOOLEAN /\ q.queue \in Seq(Nat)
        /\ q.shown \in SUBSET Comment /\ q.had \in SUBSET Comment
    BY <1>1 DEF Pg
  <2> QED BY <1>1, <1>8, <1>r, <2>1, UpdateSet
<1>10. r.thread = q.thread /\ \A c : OnThread(r, c)' <=> OnThread(q, c)'
  BY <1>9 DEF SameLoad, OnThread
<1>11. \A c : ToShow(r, c)' = ToShow(q, c)'
  BY <1>9 DEF ToShow
<1>12. \A V : Visited(r, V)' <=> Visited(q, V)'
  BY <1>9, <1>11 DEF Visited
<1>13. \A c \in q.had : OnThread(q, c)'
  BY <1>4 DEF PageOK, UpdateOK
<1>14. \A x : \A c \in ToShow(q, x)' : c \in Replies(q.thread, x)
  BY <1>6, <1>13 DEF ToShow, OnThread
<1>15. \A c \in ToShow(q, u)' : c \in items /\ (ToShow(q, c)' # {} => c \in open)
  BY <1>i, <1>o, <1>14
<1>16. \A c \in items : OnThread(q, c)'
  BY <1>i, <1>6 DEF OnThread
<1>17. UpdateOK(r)'
  <2>1. /\ \A c \in r.shown \cup r.had \cup r.reply.items : OnThread(r, c)'
        /\ r.reply.open \subseteq r.reply.items
        /\ \A c \in Items(r.queue) : c <= Len(comments')
    BY <1>4, <1>7, <1>8, <1>9, <1>10, <1>16 DEF PageOK, UpdateOK
  <2>2. /\ r.thread = NoTopic => ~r.isUpdating
        /\ ~r.isUpdating => r.queue = <<>>
        /\ r.queue # <<>>
        /\ \A c \in r.had : comments'[c].under # Root => comments'[c].under \in r.had
    BY <1>1, <1>4, <1>9, <1>10 DEF PageOK, UpdateOK
  <2>3. \A c \in ToShow(r, Head(r.queue))' : c \in r.reply.items /\ (ToShow(r, c)' # {} => c \in r.reply.open)
    BY <1>u, <1>8, <1>9, <1>11, <1>15
  <2>4. \E V \in SUBSET (0 .. MaxComments) : Visited(r, V)'
    BY <1>1, <1>4, <1>12 DEF PageOK, UpdateOK
  <2> QED BY <2>1, <2>2, <2>3, <2>4 DEF UpdateOK
<1>18. PageOK(r)'
  BY <1>1, <1>4, <1>9, <1>17, UpdatesOK
<1>19. Links'
  BY <1>2, <1>3, <1>9, <1>q, LinksKept DEF KeepsLink, SameLoad
<1> QED BY <1>2, <1>3, <1>9, <1>18, <1>19, PageStep

\* An update that ended, or is given up.
LEMMA EndedOK ==
  ASSUME FoldersOK', CommentsOK', NEW q \in Pg, PageOK(q)', NEW r \in Pg, SameLoad(r, q), SameForm(r, q),
         r.queue = <<>>, r.reply = NoReply, \A c \in r.shown : OnThread(q, c)', r.had = q.had \/ r.had = {},
         r.isUpdating => q.isUpdating
  PROVE  PageOK(r)'
<1>1. r.reply.come = FALSE /\ r.reply.items = {} /\ r.reply.open = {}
  BY DEF NoReply
<1>2. Items(r.queue) = {}
  BY EmptySeq DEF Items
<1>3. r.thread = q.thread /\ \A c : OnThread(r, c)' <=> OnThread(q, c)'
  BY DEF SameLoad, OnThread
<1>4. \A c \in r.had : OnThread(q, c)' /\ (comments'[c].under # Root => comments'[c].under \in r.had)
  BY DEF PageOK, UpdateOK
<1>5. r.thread = NoTopic => ~r.isUpdating
  BY <1>3 DEF PageOK, UpdateOK
<1>6. UpdateOK(r)'
  BY <1>1, <1>2, <1>3, <1>4, <1>5 DEF UpdateOK
<1> QED BY <1>6, UpdatesOK

\* The page after an answer is drawn, whether or not that ends the update.
LEMMA DrawnOK ==
  ASSUME IInv, NEW q \in Pg, PageOK(q), q.reply.come, NEW d, d = Answered(q)
  PROVE  /\ d \in Pg /\ SameLoad(d, q) /\ SameForm(d, q) /\ d.isUpdating = q.isUpdating /\ d.reply = NoReply
         /\ d.shown = q.shown \cup q.reply.items /\ d.had = q.had
         /\ q.isUpdating
         /\ \A c \in d.shown : OnThread(q, c)
         /\ \A c \in Items(d.queue) : c <= Len(comments)
         /\ \E V \in SUBSET (0 .. MaxComments) : Visited(d, V)
<1>1. /\ q.queue # <<>> /\ q.isUpdating /\ q.queue \in Seq(Nat)
      /\ q.reply \in Reply /\ q.shown \in SUBSET Comment /\ q.had \in SUBSET Comment
  BY DEF PageOK, UpdateOK, Pg
<1>i. PICK items \in SUBSET Comment : items = q.reply.items
  BY <1>1 DEF Reply
<1>o. PICK open \in SUBSET Comment : open = q.reply.open
  BY <1>1 DEF Reply
<1>u. PICK u : u = Head(q.queue)
  OBVIOUS
<1>s. PICK shown \in SUBSET Comment : shown = q.shown \cup items
  BY <1>1
<1>k. PICK queue : queue = Tail(q.queue) \o InOrder(open)
  OBVIOUS
<1>2. /\ /\ u \in Nat /\ u \in Items(q.queue)
      /\ Tail(q.queue) \in Seq(Nat) /\ Items(q.queue) = {u} \cup Items(Tail(q.queue))
  BY <1>1, <1>u, TailOK
<1>3. InOrder(open) \in Seq(Nat) /\ Items(InOrder(open)) = open
  BY InOrderOK
<1>4. queue \in Seq(Nat) /\ Items(queue) = Items(Tail(q.queue)) \cup open
  BY <1>2, <1>3, <1>k, ConcatOK
<1>5. NoReply \in Reply /\ q.isUpdating \in BOOLEAN
  BY DEF NoReply, Reply, Pg
<1>6. d = Updated(q, q.isUpdating, queue, NoReply, shown, q.had)
  <2>1. PICK L, T, N, F, O, Q, R, S : q \in PageOf(L, T, N, F, O, Q, R, S)
    BY PageShape
  <2>2. d = [[q EXCEPT !.shown = shown, !.queue = queue] EXCEPT !.reply = NoReply]
    BY <1>i, <1>o, <1>s, <1>k DEF Answered, Drawn
  <2> QED BY <2>1, <2>2 DEF PageOf, Updated
<1>7. /\ d \in Pg /\ SameLoad(d, q) /\ SameForm(d, q)
      /\ d.isUpdating = q.isUpdating /\ d.queue = queue /\ d.reply = NoReply /\ d.shown = shown /\ d.had = q.had
  <2>1. PICK up \in BOOLEAN, reply \in Reply : up = q.isUpdating /\ reply = NoReply
    BY <1>5
  <2>2. PICK had \in SUBSET Comment : had = q.had
    BY <1>1
  <2>3. d = Updated(q, up, queue, reply, shown, had)
    BY <1>6, <2>1, <2>2
  <2>4. /\ d \in Pg /\ SameLoad(d, q) /\ SameForm(d, q)
        /\ d.isUpdating = up /\ d.queue = queue /\ d.reply = reply /\ d.shown = shown /\ d.had = had
    BY <1>4, <2>3, UpdateSet
  <2> QED BY <2>1, <2>2, <2>4
<1>8. \A c \in d.shown : OnThread(q, c)
  BY <1>7, <1>i, <1>s DEF PageOK, UpdateOK
<1>9. Len(comments) \in Nat /\ Len(comments) <= MaxComments /\ MaxComments \in Nat
  BY DiscussionAssumption, LenProperties DEF IInv, CommentsOK
<1>10. \A c \in Items(d.queue) : c <= Len(comments)
  <2>1. \A c \in open : c <= Len(comments)
    BY <1>9, <1>o DEF PageOK, UpdateOK, OnThread, Stored
  <2> QED BY <1>2, <1>4, <1>7, <2>1 DEF PageOK, UpdateOK
<1>11. u \in 0 .. MaxComments
  <2>1. u <= Len(comments)
    BY <1>2 DEF PageOK, UpdateOK
  <2> QED BY <1>2, <1>9, <2>1
<1>12. PICK V \in SUBSET (0 .. MaxComments) : Visited(q, V)
  BY <1>1 DEF PageOK, UpdateOK
<1>13. Visited(d, V \cup {u})
  <2>1. Root \in (V \cup {u}) \cup Items(d.queue)
    BY <1>2, <1>4, <1>7, <1>12 DEF Visited
  <2>2. ASSUME NEW c \in q.had, comments[c].under \in V \cup {u}
        PROVE  c \in shown /\ (ToShow(q, c) # {} => c \in (V \cup {u}) \cup Items(queue))
    <3>1. CASE comments[c].under \in V
      BY <1>2, <1>4, <1>12, <1>s, <3>1 DEF Visited
    <3>2. CASE comments[c].under = u
      <4>1. c \in ToShow(q, Head(q.queue))
        BY <1>u, <3>2 DEF ToShow
      <4>2. c \in items /\ (ToShow(q, c) # {} => c \in open)
        BY <1>i, <1>o, <4>1 DEF PageOK, UpdateOK
      <4> QED BY <1>4, <1>s, <4>2
    <3> QED BY <2>2, <3>1, <3>2
  <2>3. \A c : ToShow(d, c) = ToShow(q, c)
    BY <1>7 DEF ToShow
  <2> QED BY <1>7, <2>1, <2>2, <2>3 DEF Visited
<1>14. V \cup {u} \in SUBSET (0 .. MaxComments)
  BY <1>11
<1> QED BY <1>1, <1>7, <1>8, <1>10, <1>13, <1>14, <1>i, <1>s

\* Where nothing is left to ask for, everything is shown: the oldest comment that
\* is not would be a reply to one that has been visited.
LEMMA AllShown ==
  ASSUME IInv, NEW q \in Pg, PageOK(q), NEW d, d.had = q.had, d.queue = <<>>, NEW V, Visited(d, V)
  PROVE  q.had \subseteq d.shown
<1>1. Items(d.queue) = {}
  BY EmptySeq DEF Items
<1>2. Root \in V /\ \A c \in q.had : comments[c].under \in V => c \in d.shown /\ (ToShow(d, c) # {} => c \in V)
  BY <1>1 DEF Visited
<1>3. \A c \in q.had : /\ c \in Nat /\ comments[c].under # Root => comments[c].under \in q.had /\ comments[c].under < c
  <2>1. \A c \in q.had : c \in Stored /\ (comments[c].under # Root => comments[c].under \in q.had)
    BY DEF PageOK, UpdateOK, OnThread
  <2>2. \A c \in Stored : c \in Nat /\ (comments[c].under # Root => comments[c].under < c)
    BY DEF IInv, CommentsOK, Stored
  <2> QED BY <2>1, <2>2
<1> DEFINE Late == {c \in q.had : comments[c].under \notin V}
<1>4. Late = {}
  <2> SUFFICES ASSUME Late # {} PROVE FALSE
    OBVIOUS
  <2>0. q.had \subseteq Nat
    <3>1. \A c \in q.had : c \in Stored
      BY DEF PageOK, UpdateOK, OnThread
    <3> QED BY <3>1 DEF Stored
  <2>1. Late \in SUBSET Nat
    BY <2>0
  <2>2. PICK c \in Late : \A b \in Late : c <= b
    BY <2>1, Least
  <2>3. PICK b : b = comments[c].under
    OBVIOUS
  <2>4. c \in q.had /\ b \notin V /\ b # Root
    BY <1>2, <2>2, <2>3
  <2>5. b \in q.had /\ b < c /\ b \in Nat /\ c \in Nat
    BY <1>3, <2>0, <2>3, <2>4
  <2>6. b \notin Late
    BY <2>2, <2>5
  <2>7. c \in ToShow(d, b)
    BY <2>3, <2>4 DEF ToShow
  <2>8. b \in V
    BY <1>2, <2>5, <2>6, <2>7
  <2> QED BY <2>4, <2>8
<1> QED BY <1>2, <1>4

LEMMA DrawStep ==
  ASSUME IInv, NEW p \in Page, processReplyResponse(p)
  PROVE  IInv' /\ (~page'[p].isUpdating => page[p].had \subseteq page'[p].shown)
<1>q. PICK q : q = page[p]
  OBVIOUS
<1>d. PICK d : d = Answered(q)
  OBVIOUS
<1>r. PICK r : r = IF d.queue = <<>> THEN onDiscussionUpdated(d) ELSE d
  OBVIOUS
<1>1. q \in Pg /\ PageOK(q) /\ q.reply.come /\ page' = [page EXCEPT ![p] = r] /\ UNCHANGED server
  BY <1>q, <1>d, <1>r DEF IInv, processReplyResponse, Answered
<1>2. FoldersOK' /\ CommentsOK' /\ Grow /\ UNCHANGED links
  BY <1>1, Quiet
<1>3. PageOK(q)'
  BY <1>1, <1>2, Others
<1>4. /\ d \in Pg /\ SameLoad(d, q) /\ SameForm(d, q) /\ d.isUpdating = q.isUpdating /\ d.reply = NoReply
      /\ d.had = q.had /\ q.isUpdating
      /\ \A c \in d.shown : OnThread(q, c)
      /\ \A c \in Items(d.queue) : c <= Len(comments)
      /\ \E V \in SUBSET (0 .. MaxComments) : Visited(d, V)
  BY <1>1, <1>d, DrawnOK
<1>5. \A c \in d.shown : OnThread(q, c)'
  BY <1>1, <1>4 DEF OnThread, Stored, server, links
<1>6. page'[p] = r
  BY <1>1 DEF IInv
<1>7. CASE d.queue = <<>>
  <2>1. PICK no \in BOOLEAN : no = FALSE
    OBVIOUS
  <2>2. r = Updated(d, no, d.queue, d.reply, d.shown, {})
    <3>1. PICK L, T, N, F, O, Q, R, S : d \in PageOf(L, T, N, F, O, Q, R, S)
      BY <1>4, PageShape
    <3>2. r = [d EXCEPT !.isUpdating = no, !.had = {}]
      BY <1>r, <1>7, <2>1 DEF onDiscussionUpdated
    <3> QED BY <3>1, <3>2 DEF PageOf, Updated
  <2>3. d.queue \in Seq(Nat) /\ d.reply \in Reply /\ d.shown \in SUBSET Comment /\ {} \in SUBSET Comment
    BY <1>4 DEF Pg
  <2>4. /\ r \in Pg /\ SameLoad(r, d) /\ SameForm(r, d)
        /\ r.isUpdating = no /\ r.queue = d.queue /\ r.reply = d.reply /\ r.shown = d.shown /\ r.had = {}
    BY <1>4, <2>2, <2>3, UpdateSet
  <2>5. SameLoad(r, q) /\ SameForm(r, q)
    BY <1>4, <2>4 DEF SameLoad, SameForm
  <2>6. PageOK(r)'
    BY <1>1, <1>2, <1>3, <1>4, <1>5, <1>7, <2>1, <2>4, <2>5, EndedOK
  <2>10. Links'
    BY <1>1, <1>2, <1>q, <2>4, <2>5, LinksKept DEF KeepsLink, SameLoad
  <2>7. IInv'
    BY <1>1, <1>2, <2>4, <2>6, <2>10, PageStep
  <2>8. q.had \subseteq d.shown
    BY <1>1, <1>4, <1>7, AllShown
  <2> QED BY <1>q, <1>6, <2>4, <2>7, <2>8
<1>8. CASE d.queue # <<>>
  <2>1. r = d
    BY <1>r, <1>8
  <2>2. r.isUpdating
    BY <1>4, <2>1
  <2>3. comments' = comments
    BY <1>1 DEF server, links
  <2>4. r.reply.come = FALSE /\ r.reply.items = {} /\ r.reply.open = {}
    BY <1>4, <2>1 DEF NoReply
  <2>5. r.thread = q.thread /\ r.had = q.had /\ \A c : OnThread(r, c)' <=> OnThread(q, c)'
    BY <1>4, <2>1 DEF SameLoad, OnThread
  <2>6. \E V \in SUBSET (0 .. MaxComments) : Visited(r, V)'
    BY <1>4, <2>1, <2>3 DEF Visited, ToShow
  <2>7. UpdateOK(r)'
    <3>1. /\ \A c \in r.shown \cup r.had \cup r.reply.items : OnThread(r, c)'
          /\ r.thread # NoTopic
          /\ \A c \in r.had : comments'[c].under # Root => comments'[c].under \in r.had
      BY <1>3, <1>4, <1>5, <2>1, <2>4, <2>5 DEF PageOK, UpdateOK
    <3> QED BY <1>4, <1>8, <2>1, <2>2, <2>3, <2>4, <2>6, <3>1 DEF UpdateOK
  <2>8. PageOK(r)'
    BY <1>1, <1>3, <1>4, <2>1, <2>7, UpdatesOK
  <2>10. Links'
    BY <1>1, <1>2, <1>4, <1>q, <2>1, LinksKept DEF KeepsLink, SameLoad
  <2>9. IInv'
    BY <1>1, <1>2, <1>4, <2>1, <2>8, <2>10, PageStep
  <2> QED BY <1>6, <2>2, <2>9
<1> QED BY <1>7, <1>8

LEMMA FailUpdateStep ==
  ASSUME IInv, NEW p \in Page, FailUpdate(p)
  PROVE  IInv'
<1>q. PICK q : q = page[p]
  OBVIOUS
<1>e. PICK e : e = [q EXCEPT !.queue = <<>>, !.reply = NoReply]
  OBVIOUS
<1>1. /\ q \in Pg /\ PageOK(q) /\ UNCHANGED server
      /\ page' = [page EXCEPT ![p] = e] \/ page' = [page EXCEPT ![p] = onDiscussionUpdated(e)]
  BY <1>q, <1>e DEF IInv, FailUpdate
<1>2. FoldersOK' /\ CommentsOK' /\ Grow /\ UNCHANGED links
  BY <1>1, Quiet
<1>3. PageOK(q)'
  BY <1>1, <1>2, Others
<1>4. PICK queue \in Seq(Nat), reply \in Reply, no \in BOOLEAN, up \in BOOLEAN :
        queue = <<>> /\ reply = NoReply /\ no = FALSE /\ up = q.isUpdating
  BY <1>1, EmptySeq DEF NoReply, Reply, Pg
<1>5. PICK a : a = Updated(q, up, queue, reply, q.shown, q.had)
  OBVIOUS
<1>6. PICK b : b = Updated(q, no, queue, reply, q.shown, {})
  OBVIOUS
<1>7. page' = [page EXCEPT ![p] = a] \/ page' = [page EXCEPT ![p] = b]
  <2>1. PICK L, T, N, F, O, Q, R, S : q \in PageOf(L, T, N, F, O, Q, R, S)
    BY <1>1, PageShape
  <2>2. a = e
    BY <1>e, <1>4, <1>5, <2>1 DEF PageOf, Updated
  <2>3. b = [e EXCEPT !.isUpdating = FALSE, !.had = {}]
    BY <1>e, <1>4, <1>6, <2>1 DEF PageOf, Updated
  <2> QED BY <1>1, <2>2, <2>3 DEF onDiscussionUpdated
<1>8. q.shown \in SUBSET Comment /\ q.had \in SUBSET Comment /\ {} \in SUBSET Comment
  BY <1>1 DEF Pg
<1>9. /\ a \in Pg /\ SameLoad(a, q) /\ SameForm(a, q)
      /\ a.isUpdating = up /\ a.queue = queue /\ a.reply = reply /\ a.shown = q.shown /\ a.had = q.had
  BY <1>1, <1>5, <1>8, UpdateSet
<1>10. /\ b \in Pg /\ SameLoad(b, q) /\ SameForm(b, q)
       /\ b.isUpdating = no /\ b.queue = queue /\ b.reply = reply /\ b.shown = q.shown /\ b.had = {}
  BY <1>1, <1>6, <1>8, UpdateSet
<1>11. \A c \in q.shown : OnThread(q, c)'
  BY <1>3 DEF PageOK, UpdateOK
<1>12. PageOK(a)'
  BY <1>1, <1>2, <1>3, <1>4, <1>9, <1>11, EndedOK
<1>13. PageOK(b)'
  BY <1>1, <1>2, <1>3, <1>4, <1>10, <1>11, EndedOK
<1>14. Links'
  BY <1>2, <1>7, <1>9, <1>10, <1>q, LinksKept DEF KeepsLink, SameLoad
<1> QED BY <1>1, <1>2, <1>7, <1>9, <1>10, <1>12, <1>13, <1>14, PageStep

\* A reply is addressed to the thread of the comment, and that is the thread of the page.
LEMMA ClickStep ==
  ASSUME IInv, NEW p \in Page, onAddCommentClicked(p)
  PROVE  IInv'
<1>q. PICK q : q = page[p]
  OBVIOUS
<1>1. q \in Pg /\ PageOK(q) /\ UNCHANGED server
  BY <1>q DEF IInv, onAddCommentClicked
<1>s. PICK selected \in q.shown \cup {Root} :
        page' = [page EXCEPT ![p].form = IF Below(q, selected).on = NoTopic THEN "blocked" ELSE "sent",
                             ![p].to = Below(q, selected)]
  BY <1>q DEF onAddCommentClicked
<1>t. PICK to : to = Below(q, selected)
  OBVIOUS
<1>f. PICK form : form = IF to.on = NoTopic THEN "blocked" ELSE "sent"
  OBVIOUS
<1>2. page' = [page EXCEPT ![p] = WithTarget(q, form, to)]
  <2>1. page' = [page EXCEPT ![p].form = form, ![p].to = to]
    BY <1>s, <1>t, <1>f
  <2> QED BY <1>q, <2>1 DEF IInv, WithTarget
<1>3. FoldersOK' /\ CommentsOK' /\ Grow /\ UNCHANGED links
  BY <1>1, Quiet
<1>4. PageOK(q)'
  BY <1>1, <1>3, Others
<1>5. /\ Len(comments) \in Nat /\ topics \in Nat /\ q.thread \in Nat /\ q.thread <= topics
      /\ \A c \in Stored : comments[c].on \in 1 .. topics
  BY <1>1, LenProperties, DiscussionAssumption DEF IInv, CommentsOK, FoldersOK, Pg, PageOK, LoadOK
<1>6. /\ to.on \in Nat /\ to.under \in Nat /\ to \in Target /\ to.on = q.thread /\ to.under <= Len(comments)
      /\ to.under # Root => comments[to.under].on = q.thread
  <2>1. CASE selected = Root
    <3>1. to = [on |-> q.thread, under |-> Root]
      BY <1>t, <2>1 DEF Below
    <3> QED BY <1>5, <3>1 DEF Target, Root
  <2>2. CASE selected # Root
    <3>1. selected \in Stored /\ comments[selected].on = q.thread
      BY <1>1, <1>s, <2>2 DEF PageOK, UpdateOK, OnThread
    <3>2. to = [on |-> q.thread, under |-> selected]
      BY <1>t, <2>2, <3>1 DEF Below
    <3> QED BY <1>5, <3>1, <3>2 DEF Target, Stored
  <2> QED BY <2>1, <2>2
<1>7. form \in Forms /\ (form = "sent" => to.on # NoTopic)
  BY <1>f DEF Forms
<1>r. PICK r : r = WithTarget(q, form, to)
  OBVIOUS
<1>8. r \in Pg /\ SameLoad(r, q) /\ SameUpdate(r, q) /\ r.form = form /\ r.to = to
  BY <1>1, <1>6, <1>7, <1>r, TargetSet
<1>9. FormOK(r)'
  <2>1. r.thread = q.thread
    BY <1>8 DEF SameLoad
  <2> QED BY <1>1, <1>5, <1>6, <1>7, <1>8, <2>1 DEF FormOK, server, links
<1>10. PageOK(r)'
  BY <1>1, <1>4, <1>8, <1>9, FormsOK
<1>11. Links'
  BY <1>2, <1>3, <1>8, <1>q, <1>r, LinksKept DEF KeepsLink, SameLoad
<1> QED BY <1>2, <1>3, <1>8, <1>10, <1>11, <1>r, PageStep

\* The comment is behind all others, and on the thread of its page.
LEMMA StoreStep ==
  ASSUME IInv, NEW p \in Page, StorePost(p)
  PROVE  IInv'
<1>q. PICK q : q = page[p]
  OBVIOUS
<1>n. PICK n : n = [on |-> q.to.on, under |-> q.to.under, listed |-> q.listed]
  OBVIOUS
<1>r. PICK r : r = WithForm(q, "stored")
  OBVIOUS
<1>1. /\ q \in Pg /\ PageOK(q) /\ q.form = "sent" /\ Len(comments) < MaxComments
      /\ comments' = Append(comments, n) /\ page' = [page EXCEPT ![p] = r]
      /\ UNCHANGED <<topics, folders, first, linked, early, raced>>
  BY <1>q, <1>n, <1>r DEF IInv, StorePost, WithForm, links
<1>2. q.to.on \in Nat /\ q.to.under \in Nat /\ q.listed \in BOOLEAN /\ q.thread \in Nat
  BY <1>1 DEF Pg, Target
<1>3. /\ q.thread # NoTopic /\ q.to.on = q.thread /\ q.to.under <= Len(comments) /\ q.thread <= topics
      /\ q.to.under # Root => comments[q.to.under].on = q.thread
      /\ q.listed => Found(q.thread)
  BY <1>1 DEF PageOK, FormOK, LoadOK
<1>4. n \in [on : Nat, under : Nat, listed : BOOLEAN] /\ n.on = q.thread /\ n.under = q.to.under /\ n.listed = q.listed
  BY <1>2, <1>3, <1>n
<1>5. /\ comments' \in Seq([on : Nat, under : Nat, listed : BOOLEAN]) /\ Len(comments) \in Nat
      /\ Len(comments') = Len(comments) + 1 /\ comments'[Len(comments) + 1] = n
      /\ \A c \in Stored : comments'[c] = comments[c]
  BY <1>1, <1>4, AppendProperties, LenProperties DEF IInv, CommentsOK, Stored
<1>f. \A t : Found(t)' <=> Found(t)
  BY <1>1 DEF Found, Calm, AtFront
<1>6. FoldersOK'
  BY <1>1 DEF IInv, FoldersOK
<1>7. topics \in Nat /\ MaxComments \in Nat /\ Len(folders) \in Nat
  BY <1>5, DiscussionAssumption, LenProperties DEF IInv, FoldersOK
<1>8. CommentsOK'
  <2>2. ASSUME NEW c \in Stored
        PROVE  /\ comments'[c].on \in 1 .. topics
               /\ LET under == comments'[c].under IN under # Root => under < c /\ comments'[under].on = comments'[c].on
               /\ comments'[c].listed => Found(comments'[c].on)
    <3>0. PICK b : b = comments[c].under
      OBVIOUS
    <3>1. comments[c] \in [on : Nat, under : Nat, listed : BOOLEAN]
      BY ElementOfSeq DEF IInv, CommentsOK, Stored
    <3>2. comments'[c] = comments[c] /\ b \in Nat /\ c \in 1 .. Len(comments)
      BY <1>5, <3>0, <3>1 DEF Stored
    <3>3. b # Root => b < c /\ comments[b].on = comments[c].on
      BY <3>0 DEF IInv, CommentsOK
    <3>4. b # Root => b \in Stored
      BY <1>5, <3>2, <3>3 DEF Stored, Root
    <3>5. b # Root => comments'[b] = comments[b]
      BY <1>5, <3>4
    <3>6. comments[c].on \in 1 .. topics /\ (comments[c].listed => Found(comments[c].on))
      BY DEF IInv, CommentsOK
    <3> QED BY <3>0, <3>2, <3>3, <3>5, <3>6
  <2>3. PICK k : k = Len(comments) + 1
    OBVIOUS
  <2>4. /\ comments'[k] = n /\ n.on \in 1 .. topics
        /\ n.under # Root => n.under < k /\ comments'[n.under].on = n.on
        /\ n.listed => Found(n.on)
    <3>1. n.under # Root => n.under \in Stored
      BY <1>2, <1>3, <1>4, <1>5 DEF Stored, Root
    <3>2. n.under # Root => n.under < k /\ comments'[n.under].on = n.on
      BY <1>2, <1>3, <1>4, <1>5, <2>3, <3>1
    <3> QED BY <1>2, <1>3, <1>4, <1>5, <1>7, <2>3, <3>2 DEF NoTopic
  <2>5. Stored' = Stored \cup {k}
    BY <1>5, <2>3 DEF Stored
  <2>6. Len(comments') <= MaxComments
    BY <1>1, <1>5, <1>7
  <2>8. \A c \in Stored \cup {k} :
          /\ comments'[c].on \in 1 .. topics
          /\ LET under == comments'[c].under IN under # Root => under < c /\ comments'[under].on = comments'[c].on
          /\ comments'[c].listed => Found(comments'[c].on)
    BY <2>2, <2>4
  <2>9. topics' = topics /\ folders' = folders
    BY <1>1
  <2> QED BY <1>5, <1>f, <2>5, <2>6, <2>8, <2>9 DEF CommentsOK
<1>9. Grow
  <2>1. topics' = topics /\ folders' = folders
    BY <1>1
  <2>2. topics <= topics' /\ Len(folders) <= Len(folders') /\ Len(comments) <= Len(comments')
    BY <1>5, <1>7, <2>1
  <2>3. \A t \in 1 .. topics : Found(t) => Found(t)'
    BY <1>f
  <2> QED BY <1>5, <2>2, <2>3 DEF Grow
<1>10. PageOK(q)'
  BY <1>1, <1>6, <1>8, <1>9, Others
<1>11. r \in Pg /\ SameLoad(r, q) /\ SameUpdate(r, q) /\ r.form = "stored" /\ r.to = q.to
  <2>1. "stored" \in Forms
    BY DEF Forms
  <2> QED BY <1>1, <1>r, <2>1, FormSet
<1>12. FormOK(r)'
  BY <1>10, <1>11 DEF PageOK, FormOK
<1>13. PageOK(r)'
  BY <1>1, <1>10, <1>11, <1>12, FormsOK
<1>14. Links'
  BY <1>1, <1>11, <1>q, LinksKept DEF KeepsLink, SameLoad, links
<1> QED BY <1>1, <1>6, <1>8, <1>9, <1>11, <1>13, <1>14, PageStep

\* The form is empty, whatever happens to the page then.
LEMMA EmptyForm ==
  ASSUME FoldersOK', CommentsOK', NEW q \in Pg, PageOK(q)', NEW form \in {"idle", "blocked"}, NEW r,
         r = WithTarget(q, form, Nowhere)
  PROVE  r \in Pg /\ PageOK(r)' /\ SameLoad(r, q)
<1>1. form \in Forms /\ Nowhere \in Target /\ Nowhere.on = 0 /\ Nowhere.under = 0 /\ form # "sent"
  BY DEF Forms, Nowhere, Target, NoTopic, Root
<1>2. r \in Pg /\ SameLoad(r, q) /\ SameUpdate(r, q) /\ r.form = form /\ r.to = Nowhere
  BY <1>1, TargetSet
<1>3. topics' \in Nat /\ Len(comments') \in Nat
  BY LenProperties, DiscussionAssumption DEF FoldersOK, CommentsOK
<1>4. FormOK(r)'
  BY <1>1, <1>2, <1>3 DEF FormOK
<1> QED BY <1>2, <1>4, FormsOK

LEMMA PostedStep ==
  ASSUME IInv, NEW p \in Page, addComment(p) \/ FailPost(p)
  PROVE  IInv'
<1>q. PICK q : q = page[p]
  OBVIOUS
<1>a. PICK a : a = WithTarget(q, "idle", Nowhere)
  OBVIOUS
<1>b. PICK b : b = WithTarget(q, "blocked", Nowhere)
  OBVIOUS
<1>r. PICK r : r = updateDiscussion(a)
  OBVIOUS
<1>1. q \in Pg /\ PageOK(q) /\ UNCHANGED server /\ (page' = [page EXCEPT ![p] = r] \/ page' = [page EXCEPT ![p] = b])
  BY <1>q, <1>a, <1>b, <1>r DEF IInv, addComment, FailPost, WithTarget
<1>2. FoldersOK' /\ CommentsOK' /\ Grow /\ UNCHANGED links
  BY <1>1, Quiet
<1>3. PageOK(q)'
  BY <1>1, <1>2, Others
<1>4. a \in Pg /\ PageOK(a)' /\ SameLoad(a, q)
  BY <1>1, <1>2, <1>3, <1>a, EmptyForm
<1>5. b \in Pg /\ PageOK(b)' /\ SameLoad(b, q)
  BY <1>1, <1>2, <1>3, <1>b, EmptyForm
<1>6. r \in Pg /\ PageOK(r)' /\ SameLoad(r, a)
  BY <1>2, <1>4, <1>r, UpdateOpens
<1>7. Links'
  BY <1>1, <1>2, <1>4, <1>5, <1>6, <1>q, LinksKept DEF KeepsLink, SameLoad
<1> QED BY <1>1, <1>2, <1>5, <1>6, <1>7, PageStep

Acts(p) ==
  \/ initUI(p) \/ getDiscussionThread(p) \/ createDiscussionThread(p)
  \/ BeginPut(p) \/ CommitPut(p) \/ FailLoad(p)
  \/ AnswerReplies(p) \/ processReplyResponse(p) \/ FailUpdate(p)
  \/ onAddCommentClicked(p) \/ StorePost(p) \/ addComment(p) \/ FailPost(p)

LEMMA NextIInv == IInv /\ [Next]_vars => IInv'
<1> SUFFICES ASSUME IInv, [Next]_vars PROVE IInv'
  OBVIOUS
<1>1. CASE UNCHANGED vars
  <2>1. FoldersOK' /\ CommentsOK' /\ Grow /\ UNCHANGED links
    BY <1>1, Quiet DEF vars, server, links
  <2>4. \A t : (Unlinked(t)' <=> Unlinked(t)) /\ (Behind(t)' <=> Behind(t))
    BY <2>1 DEF links, Unlinked, Behind, Calm
  <2>5. Links'
    BY <1>1, <2>1, <2>4 DEF IInv, Links, Linking, vars, links
  <2>2. ASSUME NEW p \in Page PROVE PageOK(page[p])'
    <3>1. PICK q : q = page[p]
      OBVIOUS
    <3>2. q \in Pg /\ PageOK(q)
      BY <3>1 DEF IInv
    <3>3. PageOK(q)'
      BY <2>1, <3>2, Others
    <3> QED BY <1>1, <3>1, <3>3 DEF vars
  <2> QED BY <1>1, <2>1, <2>2, <2>5 DEF IInv, vars
<1>2. CASE getFolder
  BY <1>2, FolderStep
<1>3. CASE \E p \in Page : Acts(p)
  <2>1. PICK p \in Page : Acts(p)
    BY <1>3
  <2> QED BY <2>1, OpenStep, ListStep, TopicStep, BeginStep, LinkStep, FailLoadStep, AnswerStep, DrawStep,
             FailUpdateStep, ClickStep, StoreStep, PostedStep DEF Acts
<1> QED BY <1>1, <1>2, <1>3 DEF Next, Acts

-----------------------------------------------------------------------------
(* Theorems.                                                               *)

LEMMA FoundIsFirst ==
  ASSUME IInv, Calm, NEW t, Found(t)
  PROVE  \E i \in Listed : (\A j \in Listed : i <= j) /\ t = folders[first][i]
<1>1. Len(folders) = 1 /\ folders \in Seq(Seq(1 .. topics)) /\ first \in 0 .. Len(folders) /\ first # 0
  BY DEF Calm, Found, IInv, FoldersOK
<1>2. first = 1
  BY <1>1
<1>3. PICK i \in 1 .. Len(folders[1]) :
        /\ folders[1][i] = t /\ t \in linked
        /\ \A j \in 1 .. Len(folders[1]) : j < i => folders[1][j] \notin linked
  BY DEF Found, AtFront
<1>4. Len(folders[1]) \in Nat /\ DOMAIN folders[1] = 1 .. Len(folders[1])
  <2>1. folders[1] \in Seq(1 .. topics)
    BY <1>1, ElementOfSeq
  <2> QED BY <2>1, LenProperties
<1>5. Listed = {j \in 1 .. Len(folders[1]) : folders[1][j] \in linked}
  BY <1>2, <1>4 DEF Listed
<1>6. i \in Listed /\ \A j \in Listed : i <= j
  BY <1>3, <1>4, <1>5
<1> QED BY <1>2, <1>3, <1>6

\* getDiscussionThread takes the first of the list: a comment from a page that has
\* found its thread there stays where every other page looks, as long as the
\* workflow's folder was not made twice and no two PUTs were committed that had
\* both found nothing listed.
THEOREM FoundDiscussionsStay == Spec => []ListedCommentsStay
<1>1. IInv => ListedCommentsStay
  <2> SUFFICES ASSUME IInv, NEW c \in DOMAIN comments, comments[c].listed
               PROVE  Len(folders) < 2 /\ ~raced =>
                        \E i \in Listed : (\A j \in Listed : i <= j) /\ comments[c].on = folders[first][i]
    BY DEF ListedCommentsStay
  <2>1. c \in Stored
    BY LenProperties DEF IInv, CommentsOK, Stored
  <2>2. Found(comments[c].on)
    BY <2>1 DEF IInv, CommentsOK
  <2>3. Len(folders) \in Nat /\ Len(folders) # 0
    BY <2>2, LenProperties, EmptySeq DEF IInv, FoldersOK, Found
  <2>4. Len(folders) < 2 => Len(folders) = 1
    BY <2>3
  <2>5. Len(folders) < 2 /\ ~raced => Calm
    BY <2>4, Zenon DEF Calm
  <2> QED BY <2>2, <2>5, FoundIsFirst
<1> QED BY <1>1, InitIInv, NextIInv, PTL DEF Spec

\* processReplyResponse ends an update only when all comments are drawn that were
\* stored when it began.
THEOREM UpdatesAreComplete == Spec => UpdateShowsAll
<1> DEFINE Complete ==
             \A p \in Page : processReplyResponse(p) /\ ~page'[p].isUpdating => page[p].had \subseteq page'[p].shown
<1>1. IInv /\ [Next]_vars => [Complete]_vars
  BY DrawStep
<1>2. UpdateShowsAll <=> [][Complete]_vars
  BY DEF UpdateShowsAll
<1> HIDE DEF Complete
<1> QED BY <1>1, <1>2, InitIInv, NextIInv, PTL DEF Spec

\* The constants bound what the state holds, and what a page refers to exists.
THEOREM Typing == Spec => []TypeOK
<1>1. IInv => TypeOK
  <2> SUFFICES ASSUME IInv PROVE TypeOK
    OBVIOUS
  <2>1. /\ Len(comments) \in Nat /\ Len(comments) <= MaxComments /\ topics \in Nat /\ Len(folders) \in Nat
        /\ DOMAIN comments = Stored /\ Stored \subseteq Comment
    BY LenProperties, DiscussionAssumption DEF IInv, CommentsOK, FoldersOK, Stored, Comment
  <2>2. \A c \in Stored :
          comments[c] \in [on : 1 .. topics, under : 0 .. MaxComments, listed : BOOLEAN]
    <3> SUFFICES ASSUME NEW c \in Stored
                 PROVE  comments[c] \in [on : 1 .. topics, under : 0 .. MaxComments, listed : BOOLEAN]
      OBVIOUS
    <3>1. comments[c] \in [on : Nat, under : Nat, listed : BOOLEAN]
      BY ElementOfSeq DEF IInv, CommentsOK, Stored
    <3>2. comments[c].on \in 1 .. topics /\ (comments[c].under # Root => comments[c].under < c)
      BY DEF IInv, CommentsOK
    <3>3. comments[c].under \in 0 .. MaxComments
      <4>1. c \in Nat /\ c <= MaxComments /\ MaxComments \in Nat
        BY <2>1, DiscussionAssumption DEF Stored
      <4>2. comments[c].under \in Nat
        BY <3>1
      <4> QED BY <3>2, <4>1, <4>2 DEF Root
    <3> QED BY <3>1, <3>2, <3>3
  <2>3. comments \in Seq([on : 1 .. topics, under : 0 .. MaxComments, listed : BOOLEAN])
    BY <2>2, SeqNarrow DEF IInv, CommentsOK, Stored
  <2>4. ASSUME NEW p \in Page
        PROVE  /\ page[p] \in PageOf(Loads, 0 .. topics, 0 .. Len(folders), Forms,
                                     [on : 0 .. topics, under : 0 .. Len(comments)], Seq(0 .. Len(comments)), Reply, SUBSET Stored)
               /\ \A c \in page[p].shown : comments[c].on = page[p].thread
    <3>1. PICK q : q = page[p]
      OBVIOUS
    <3>2. q \in Pg /\ PageOK(q)
      BY <3>1 DEF IInv
    <3>3. q \in PageOf(Loads, Nat, Nat, Forms, Target, Seq(Nat), Reply, SUBSET Comment)
      BY <3>2, Zenon DEF Pg, PageOf
    <3>4. q.thread \in Nat /\ q.sees \in Nat /\ q.to \in Target /\ q.queue \in Seq(Nat)
      BY <3>2 DEF Pg
    <3>5. q.thread \in 0 .. topics /\ q.sees \in 0 .. Len(folders)
      BY <2>1, <3>2, <3>4 DEF PageOK, LoadOK
    <3>6. q.to \in [on : 0 .. topics, under : 0 .. Len(comments)]
      BY <2>1, <3>2, <3>4 DEF PageOK, FormOK, Target
    <3>7. q.queue \in Seq(0 .. Len(comments))
      <4>1. Len(q.queue) \in Nat /\ \A i \in 1 .. Len(q.queue) : q.queue[i] \in Nat
        BY <3>4, LenProperties, ElementOfSeq
      <4>2. \A i \in 1 .. Len(q.queue) : q.queue[i] <= Len(comments)
        BY <3>2 DEF PageOK, UpdateOK, Items
      <4>3. \A i \in 1 .. Len(q.queue) : q.queue[i] \in 0 .. Len(comments)
        BY <2>1, <4>1, <4>2
      <4> QED BY <3>4, <4>3, SeqNarrow
    <3>8. \A c \in q.shown \cup q.had : c \in Stored /\ comments[c].on = q.thread
      BY <3>2 DEF PageOK, UpdateOK, OnThread
    <3>9. q.shown \in SUBSET Stored /\ q.had \in SUBSET Stored
      BY <3>8
    <3>10. PICK L, T, N, F, O, Q, R, S :
             /\ q \in PageOf(L, T, N, F, O, Q, R, S) /\ L = Loads /\ F = Forms /\ R = Reply
      BY <3>3
    <3>11. PICK T2, N2, O2, Q2, S2 :
             /\ T2 = 0 .. topics /\ N2 = 0 .. Len(folders) /\ O2 = [on : 0 .. topics, under : 0 .. Len(comments)]
             /\ Q2 = Seq(0 .. Len(comments)) /\ S2 = SUBSET Stored
      BY Zenon
    <3>12. q \in PageOf(L, T2, N2, F, O2, Q2, R, S2)
      <4>1. q.thread \in T2 /\ q.sees \in N2 /\ q.to \in O2 /\ q.queue \in Q2 /\ q.shown \in S2 /\ q.had \in S2
        BY <3>5, <3>6, <3>7, <3>9, <3>11
      <4> QED BY <3>10, <4>1 DEF PageOf
    <3>13. page[p] \in PageOf(Loads, 0 .. topics, 0 .. Len(folders), Forms, [on : 0 .. topics, under : 0 .. Len(comments)],
                              Seq(0 .. Len(comments)), Reply, SUBSET Stored)
      BY <3>1, <3>10, <3>11, <3>12, Zenon
    <3> QED BY <3>1, <3>8, <3>13
  <2>5. page \in [Page -> PageOf(Loads, 0 .. topics, 0 .. Len(folders), Forms, [on : 0 .. topics, under : 0 .. Len(comments)],
                                 Seq(0 .. Len(comments)), Reply, SUBSET Stored)]
    BY <2>4, Zenon DEF IInv
  <2>6. page \in [Page -> [load : {"none", "list", "topic", "relation", "put", "done"},
                           thread : 0 .. topics, listed : BOOLEAN, sees : 0 .. Len(folders),
                           form : {"idle", "sent", "stored", "blocked"},
                           to : [on : 0 .. topics, under : 0 .. Len(comments)],
                           isUpdating : BOOLEAN, queue : Seq(0 .. Len(comments)),
                           reply : [come : BOOLEAN, items : SUBSET Comment, open : SUBSET Comment],
                           shown : SUBSET DOMAIN comments, had : SUBSET DOMAIN comments]]
    BY <2>1, <2>5, Zenon DEF PageOf, Loads, Forms, Reply
  <2>7. \A c \in DOMAIN comments :
          LET under == comments[c].under IN
          under # Root => under < c /\ comments[under].on = comments[c].on
    BY <2>1 DEF IInv, CommentsOK
  <2> QED BY <2>3, <2>4, <2>6, <2>7 DEF TypeOK, IInv, FoldersOK
<1> QED BY <1>1, InitIInv, NextIInv, PTL DEF Spec
=============================================================================
