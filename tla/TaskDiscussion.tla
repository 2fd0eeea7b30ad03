--------------------------- MODULE TaskDiscussion ---------------------------
(***************************************************************************)
(* The discussion of one workflow on its task pages: every page looks for  *)
(* the topic, creates and links one if there is none, posts comments and   *)
(* draws the tree of comments, by requests whose answers arrive while the  *)
(* user goes on.  Topics and comments are kept by Alfresco's forum         *)
(* service, links by the web scripts that Relations models in full; here   *)
(* a folder of the workflow is the sequence of the topics for which a link *)
(* was created there, in the order of creation, which is the order of the  *)
(* list - also for a link whose request is not committed yet, or never is. *)
(* The folder is shared with the workflow's other relations: their scripts *)
(* may have made it, empty, before the first topic is linked.              *)
(*                                                                         *)
(* A page that is closed forgets its requests; a request that the server   *)
(* still executes then is the request of another page that does nothing    *)
(* else.  What goes on when a queue of requests ends with an error is      *)
(* decided outside of this repository: both outcomes are modelled.         *)
(***************************************************************************)
EXTENDS Naturals, Sequences, FiniteSets

CONSTANTS
  Page,         \* browser pages that show a task of the workflow
  MaxTopics,    \* bound: topics ever created
  MaxFolders,   \* bound: folders that the scripts of other relations make
  MaxComments   \* bound: comments ever posted

ASSUME DiscussionAssumption == MaxTopics \in Nat /\ MaxFolders \in Nat /\ MaxComments \in Nat

VARIABLES
  topics,     \* number of topics created
  folders,    \* the workflow's folders, each the sequence of topics with a link created there
  first,      \* the folder that is found by name, 0 if there is none
  linked,     \* topics whose link is committed
  early,      \* history: pages whose latest PUT found no topic listed
  raced,      \* history: two such PUTs have been committed
  comments,   \* the comments, in the order they were stored
  page        \* page -> its state

vars == <<topics, folders, first, linked, early, raced, comments, page>>
links == <<folders, first, linked, early, raced>>
server == <<topics, links, comments>>

Topic   == 1 .. MaxTopics
Comment == 1 .. MaxComments
NoTopic == 0
Root    == 0
Nowhere == [on |-> NoTopic, under |-> Root]
NoReply == [come |-> FALSE, items |-> {}, open |-> {}]

\* load is what the page waits for to know its thread, sees the folder its PUT
\* has found, form the input controls, to where a post goes, queue the replies
\* to ask for, reply an answer not yet drawn.  History: listed, the thread was
\* found in the list; had, the comments stored when the update began.
NewPage == [load |-> "none", thread |-> NoTopic, listed |-> FALSE, sees |-> 0,
            form |-> "idle", to |-> Nowhere,
            isUpdating |-> FALSE, queue |-> <<>>, reply |-> NoReply, shown |-> {}, had |-> {}]

TypeOK ==
  /\ topics \in 0 .. MaxTopics
  /\ folders \in Seq(Seq(1 .. topics))
  /\ first \in 0 .. Len(folders) /\ (first = 0 <=> folders = <<>>)
  /\ linked \subseteq 1 .. topics /\ early \subseteq Page /\ raced \in BOOLEAN
  /\ comments \in Seq([on : 1 .. topics, under : 0 .. MaxComments, listed : BOOLEAN])
  /\ \A c \in DOMAIN comments :
       LET under == comments[c].under IN
       under # Root => under < c /\ comments[under].on = comments[c].on
  /\ page \in [Page -> [load : {"none", "list", "topic", "relation", "put", "done"},
                        thread : 0 .. topics, listed : BOOLEAN, sees : 0 .. Len(folders),
                        form : {"idle", "sent", "stored", "blocked"},
                        to : [on : 0 .. topics, under : 0 .. Len(comments)],
                        isUpdating : BOOLEAN, queue : Seq(0 .. Len(comments)),
                        reply : [come : BOOLEAN, items : SUBSET Comment, open : SUBSET Comment],
                        shown : SUBSET DOMAIN comments, had : SUBSET DOMAIN comments]]
  /\ \A p \in Page : \A c \in page[p].shown : comments[c].on = page[p].thread

Init ==
  /\ topics = 0
  /\ folders = <<>>
  /\ first = 0
  /\ linked = {}
  /\ early = {}
  /\ raced = FALSE
  /\ comments = <<>>
  /\ page = [p \in Page |-> NewPage]

-----------------------------------------------------------------------------
(* Drawing the comments.                                                   *)

Replies(topic, node) ==
  {c \in DOMAIN comments : comments[c].on = topic /\ comments[c].under = node}

updateDiscussion(pg) ==
  IF pg.isUpdating \/ pg.thread = NoTopic THEN pg
  ELSE [pg EXCEPT !.isUpdating = TRUE, !.queue = <<Root>>,
                  !.had = {c \in DOMAIN comments' : comments'[c].on = pg.thread}]

\* The server answers with the replies to one comment or to the topic, and says
\* which of them have replies.
AnswerReplies(p) ==
  /\ page[p].queue # <<>>
  /\ ~page[p].reply.come
  /\ LET items == Replies(page[p].thread, Head(page[p].queue))
         open  == {c \in items : Replies(page[p].thread, c) # {}}
     IN page' = [page EXCEPT ![p].reply = [come |-> TRUE, items |-> items, open |-> open]]
  /\ UNCHANGED server

InOrder(set) == CHOOSE s \in [1 .. Cardinality(set) -> set] :
                  \A i, j \in DOMAIN s : i < j => s[i] < s[j]

\* A form that does not go down to the replies of replies.
DrawnFlat(pg) == [pg EXCEPT !.shown = @ \cup pg.reply.items, !.queue = Tail(@)]

Drawn(pg) == [pg EXCEPT !.shown = @ \cup pg.reply.items,
                        !.queue = Tail(@) \o InOrder(pg.reply.open)]

onDiscussionUpdated(pg) == [pg EXCEPT !.isUpdating = FALSE, !.had = {}]

processReplyResponse(p) ==
  /\ page[p].reply.come
  /\ LET pg == [Drawn(page[p]) EXCEPT !.reply = NoReply] IN
     page' = [page EXCEPT ![p] = IF pg.queue = <<>> THEN onDiscussionUpdated(pg) ELSE pg]
  /\ UNCHANGED server

FailUpdate(p) ==
  /\ page[p].queue # <<>>
  /\ LET pg == [page[p] EXCEPT !.queue = <<>>, !.reply = NoReply] IN
     \E after \in {pg, onDiscussionUpdated(pg)} : page' = [page EXCEPT ![p] = after]
  /\ UNCHANGED server

-----------------------------------------------------------------------------
(* Finding or creating the thread.                                         *)

\* A form that keeps what is drawn.
initUIAgain(p) ==
  /\ page' = [page EXCEPT ![p].load = "list", ![p].thread = NoTopic, ![p].listed = FALSE]
  /\ UNCHANGED server

\* The task page is opened or loaded again.
initUI(p) ==
  /\ page' = [page EXCEPT ![p] = [NewPage EXCEPT !.load = "list"]]
  /\ UNCHANGED server

\* The places of the list in their order.
Listed == IF first = 0 THEN {} ELSE {i \in DOMAIN folders[first] : folders[first][i] \in linked}

\* A form that takes the last of the list.
ThreadOfLast(list) == folders[first][CHOOSE i \in list : \A j \in list : j <= i]

ThreadOf(list) == folders[first][CHOOSE i \in list : \A j \in list : i <= j]

getDiscussionThread(p) ==
  /\ page[p].load = "list"
  /\ UNCHANGED server
  /\ page' = [page EXCEPT ![p] =
       IF Listed # {}
       THEN updateDiscussion([@ EXCEPT !.load = "done", !.thread = ThreadOf(Listed), !.listed = TRUE])
       ELSE [@ EXCEPT !.load = "topic"]]

\* The page may not learn of the topic that it has created.
createDiscussionThread(p) ==
  /\ page[p].load = "topic"
  /\ topics < MaxTopics
  /\ topics' = topics + 1
  /\ \E answered \in BOOLEAN :
       page' = [page EXCEPT ![p] =
         IF answered THEN [@ EXCEPT !.load = "relation", !.thread = topics + 1]
                     ELSE [@ EXCEPT !.load = "done"]]
  /\ UNCHANGED <<links, comments>>

\* A request that has not found the folder creates one; of several which one is
\* found by name from then on is not determined.
NewFolder(folder) ==
  /\ folders' = Append(folders, folder)
  /\ first' \in {Len(folders) + 1} \cup ({first} \ {0})

\* A script of the workflow's other relations makes the folder, and leaves it
\* without a topic.
getFolder ==
  /\ Len(folders) < MaxFolders
  /\ NewFolder(<<>>)
  /\ UNCHANGED <<topics, linked, early, raced, comments, page>>

\* The request looks for the folder and creates the link there, which nobody sees
\* before the commit; its place in the list is taken now.
BeginPut(p) ==
  /\ page[p].load = "relation"
  /\ folders' = IF first = 0 THEN folders ELSE [folders EXCEPT ![first] = Append(@, page[p].thread)]
  /\ early' = IF Listed = {} THEN early \cup {p} ELSE early \ {p}
  /\ page' = [page EXCEPT ![p].load = "put", ![p].sees = first]
  /\ UNCHANGED <<topics, first, linked, raced, comments>>

pushDiscussionsForWorkflow(p) ==
  /\ IF page[p].sees = 0 THEN NewFolder(<<page[p].thread>>) ELSE UNCHANGED <<folders, first>>
  /\ linked' = linked \cup {page[p].thread}

CommitPut(p) ==
  /\ page[p].load = "put"
  /\ pushDiscussionsForWorkflow(p)
  /\ raced' = (raced \/ (p \in early /\ Listed # {}))
  /\ UNCHANGED <<topics, early, comments>>
  /\ \E answered \in BOOLEAN :
       page' = [page EXCEPT ![p] =
         IF answered THEN updateDiscussion([@ EXCEPT !.load = "done", !.sees = 0])
                     ELSE [@ EXCEPT !.load = "done"]]

\* A request fails and what it did is rolled back: the list, or one of the queue.
FailLoad(p) ==
  /\ page[p].load \in {"list", "topic", "relation", "put"}
  /\ UNCHANGED server
  /\ LET pg == [page[p] EXCEPT !.load = "done"] IN
     \E after \in {pg} \cup IF page[p].load = "list" THEN {} ELSE {updateDiscussion(pg)} :
       page' = [page EXCEPT ![p] = after]

-----------------------------------------------------------------------------
(* Comments.                                                               *)

Below(pg, selected) ==
  IF selected # Root THEN [on |-> comments[selected].on, under |-> selected]
                     ELSE [on |-> pg.thread, under |-> Root]

\* The user has typed a comment and selected a comment to reply to, or none.
\* A click before the thread is known disables the controls and sends nothing.
onAddCommentClicked(p) ==
  /\ page[p].load # "none"
  /\ page[p].form = "idle"
  /\ \E selected \in page[p].shown \cup {Root} :
       LET to == Below(page[p], selected) IN
       page' = [page EXCEPT ![p].form = IF to.on = NoTopic THEN "blocked" ELSE "sent",
                            ![p].to = to]
  /\ UNCHANGED server

StorePost(p) ==
  /\ page[p].form = "sent"
  /\ Len(comments) < MaxComments
  /\ comments' = Append(comments, [on |-> page[p].to.on, under |-> page[p].to.under,
                                   listed |-> page[p].listed])
  /\ page' = [page EXCEPT ![p].form = "stored"]
  /\ UNCHANGED <<topics, links>>

addComment(p) ==
  /\ page[p].form = "stored"
  /\ UNCHANGED server
  /\ page' = [page EXCEPT ![p] = updateDiscussion([@ EXCEPT !.form = "idle", !.to = Nowhere])]

\* The controls stay disabled.
FailPost(p) ==
  /\ page[p].form \in {"sent", "stored"}
  /\ page' = [page EXCEPT ![p].form = "blocked", ![p].to = Nowhere]
  /\ UNCHANGED server

Next ==
  \/ getFolder
  \/ \E p \in Page :
       \/ initUI(p) \/ getDiscussionThread(p) \/ createDiscussionThread(p)
       \/ BeginPut(p) \/ CommitPut(p) \/ FailLoad(p)
       \/ AnswerReplies(p) \/ processReplyResponse(p) \/ FailUpdate(p)
       \/ onAddCommentClicked(p) \/ StorePost(p) \/ addComment(p) \/ FailPost(p)

Spec == Init /\ [][Next]_vars

-----------------------------------------------------------------------------
(* Properties.                                                             *)

\* A comment from a page that had found the discussion is in the discussion
\* that every page opened later shows, although other pages may create and link
\* topics of their own meanwhile - unless requests at the same time have doubled
\* the workflow's folder, or two PUTs that found no topic listed were both
\* committed: the one committed later may stand before the one that is in use.
ListedCommentsStay ==
  Len(folders) < 2 /\ ~raced =>
    \A c \in DOMAIN comments : comments[c].listed =>
      \E i \in Listed : (\A j \in Listed : i <= j) /\ comments[c].on = folders[first][i]

\* When an update ends without an error, the page shows every comment of its
\* thread, at any depth, that was stored when the update began - whatever is
\* posted while the levels are fetched one by one.
UpdateShowsAll ==
  [][\A p \in Page : processReplyResponse(p) /\ ~page'[p].isUpdating => page[p].had \subseteq page'[p].shown]_vars
=============================================================================
