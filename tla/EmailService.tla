----------------------------- MODULE EmailService -----------------------------
(***************************************************************************)
(* The email service of one user: providers, configuration and the         *)
(* incremental fetch from the IMAP server into the repository.             *)
(*                                                                         *)
(* A fetch is one repository transaction of many steps: it opens the       *)
(* folders one after the other, asks for the messages behind the last one  *)
(* it finds stored, and creates a node for each.  Nodes of an open         *)
(* transaction take their place among the others when they are created,    *)
(* but nobody else sees them before it commits.  Several fetches of the    *)
(* same user may run at a time (two tabs, two servers).                    *)
(*                                                                         *)
(* The list of providers is memory of the server and takes part in no      *)
(* transaction.                                                            *)
(*                                                                         *)
(* UIDs of a folder only grow here; a mailbox whose UIDs start again (IMAP *)
(* UIDVALIDITY) is not modelled, nor are two configure calls at a time.    *)
(***************************************************************************)
EXTENDS Naturals, FiniteSets

CONSTANTS
  Client,      \* threads that serve requests of the user
  Provider,    \* provider ids
  Folder,      \* folders of the mailbox, on the server and in the repository
  parent,      \* folder -> the folder it is in, or Top
  Top,         \* the default folder, the configuration node in the repository
  Inactive,    \* folders whose fetchActive flag an extension has cleared
  Poison,      \* messages <<folder, uid>> that cannot be stored
  contacts,    \* message -> number of project contacts it was sent to or by
  MaxUID,      \* bound: folder -> messages that ever arrive there
  MaxStored,   \* bound: nodes of a folder
  MaxNodes,    \* bound: provider nodes, and configurations, ever created
  MaxRequests  \* bound: requests ever sent

Mail == UNION {{f} \X (1 .. MaxUID[f]) : f \in Folder}

Nobody == "nobody"

ASSUME EmailAssumption ==
  /\ Top \notin Folder
  /\ Nobody \notin Client
  /\ parent \in [Folder -> Folder \cup {Top}]
  /\ \A fs \in SUBSET Folder : (\A f \in fs : parent[f] \in fs) => fs = {}   \* each is below Top
  /\ Inactive \subseteq Folder
  /\ Poison \subseteq Mail
  /\ contacts \in [Mail -> Nat]
  /\ MaxUID \in [Folder -> Nat]
  /\ {MaxStored, MaxNodes, MaxRequests} \subseteq Nat

VARIABLES
  server,     \* folder -> the messages the IMAP server has
  remote,     \* folders the IMAP server has
  uidNext,    \* folder -> the UID of the message that arrives next
  provNodes,  \* provider nodes of the repository
  providers,  \* the list in memory, or NotLoaded
  container,  \* the configuration node of the user
  folders,    \* folder nodes below it
  store,      \* message nodes; at is their place in the order of creation
  project,    \* message -> its items in the project's conversations
  tx,         \* client -> the fetch under way
  sent        \* number of requests sent (bound)

vars == <<server, remote, uidNext, provNodes, providers, container, folders, store, project, tx, sent>>
mailbox == <<server, remote, uidNext>>
registry == <<provNodes, providers>>
config == <<container, folders>>

ProvNode  == [id : Provider, no : 1 .. MaxNodes]
NoLink    == [id |-> "none", no |-> 0]
NotLoaded == {NoLink}
Node      == [folder : Folder, uid : Nat, owner : Client \cup {Nobody}, at : 1 .. MaxStored]

\* cur is the folder that is open, first the UID it was asked for, left the
\* messages of the answer still to be read; todo are folders not yet opened.
\* History: seen, what was stored when a folder was opened, and had, what the
\* server had when the fetch began.
NoFetch == [on |-> FALSE, box |-> 0, todo |-> {}, cur |-> Top, first |-> 0, left |-> {},
            seen |-> {}, had |-> {}]

TypeOK ==
  /\ server \in [Folder -> SUBSET Nat]
  /\ \A f \in Folder : server[f] \subseteq 1 .. MaxUID[f]
  /\ remote \subseteq Folder
  /\ uidNext \in [Folder -> Nat]
  /\ \A f \in Folder : uidNext[f] \in 1 .. MaxUID[f] + 1
  /\ provNodes \subseteq ProvNode
  /\ providers = NotLoaded \/ providers \in SUBSET ProvNode
  /\ container \in [there : BOOLEAN, no : 0 .. MaxNodes, link : ProvNode \cup {NoLink}]
  /\ container.link \in IF container.there THEN provNodes \cup {NoLink} ELSE {NoLink}
  /\ folders \subseteq Folder
  /\ store \subseteq Node
  /\ \A n \in store : n.folder \in folders /\ n.uid \in 1 .. MaxUID[n.folder]
  /\ project \in [Mail -> Nat]
  /\ tx \in [Client -> [on : BOOLEAN, box : 0 .. MaxNodes, todo : SUBSET Folder,
                        cur : Folder \cup {Top}, first : Nat, left : SUBSET Nat,
                        seen : SUBSET Mail, had : SUBSET Mail]]
  /\ sent \in 0 .. MaxRequests

Init ==
  /\ server = [f \in Folder |-> {}]
  /\ remote = Folder
  /\ uidNext = [f \in Folder |-> 1]
  /\ provNodes = {}
  /\ providers = NotLoaded
  /\ container = [there |-> FALSE, no |-> 0, link |-> NoLink]
  /\ folders = {}
  /\ store = {}
  /\ project = [m \in Mail |-> 0]
  /\ tx = [c \in Client |-> NoFetch]
  /\ sent = 0

Request == sent < MaxRequests /\ sent' = sent + 1

-----------------------------------------------------------------------------
(* Providers.                                                              *)

\* The children are asked for by the type of the node where the type of the
\* association belongs, and none has that.
loadProviders == {}
getProviders  == IF providers = NotLoaded THEN loadProviders ELSE providers
getEmailProvider(id) == {p \in getProviders : p.id = id}

\* A call that asks for the list, or that fails after it did.
AskProviders ==
  /\ Request
  /\ providers' = getProviders
  /\ UNCHANGED <<mailbox, provNodes, config, store, project, tx>>

\* The script that calls the service may fail afterwards: that takes back the
\* node, but not the entry of the list.
addProvider(id, commits) ==
  /\ Request
  /\ getEmailProvider(id) = {}
  /\ \E no \in 1 .. MaxNodes :
       LET node == [id |-> id, no |-> no] IN
       /\ \A p \in provNodes \cup getProviders : p.no < no
       /\ providers' = getProviders \cup {node}
       /\ provNodes' = IF commits THEN provNodes \cup {node} ELSE provNodes
  /\ UNCHANGED <<mailbox, config, store, project, tx>>

removeProvider(id, commits) ==
  /\ Request
  /\ \E p \in getEmailProvider(id) \cap provNodes :
       /\ providers' = getProviders \ {p}
       /\ IF commits
          THEN /\ provNodes' = provNodes \ {p}
               /\ container' = IF container.link = p THEN [container EXCEPT !.link = NoLink]
                                                     ELSE container
          ELSE UNCHANGED <<provNodes, container>>
  /\ UNCHANGED <<mailbox, folders, store, project, tx>>

\* There is nothing to clear as long as nobody has asked for the list.
clearProviders ==
  /\ Request
  /\ providers # NotLoaded
  /\ providers' = {}
  /\ UNCHANGED <<mailbox, provNodes, config, store, project, tx>>

-----------------------------------------------------------------------------
(* Configuration.                                                          *)

\* The configuration names its provider by id; its node need not be the one
\* in the list.
Connects(conf) == conf.link # NoLink /\ getEmailProvider(conf.link.id) # {}

\* The folders of the server get a node each; two of one name cannot be in
\* one folder, so this fails if the first of them is there already.
TopLevel(fs) == {f \in fs : parent[f] = Top}
ListsFolders(known) == TopLevel(remote) \cap known = {}

configure(id) ==
  /\ Request
  /\ \E p \in getEmailProvider(id) \cap provNodes :
       LET no   == IF container.there THEN container.no ELSE container.no + 1
           conf == [there |-> TRUE, no |-> no, link |-> p]
       IN /\ container.link = NoLink
          /\ no <= MaxNodes
          /\ ListsFolders(folders)
          /\ container' = conf
  /\ folders' = folders \cup remote
  /\ providers' = getProviders
  /\ UNCHANGED <<mailbox, provNodes, store, project, tx>>

fetchFolderList ==
  /\ Request
  /\ Connects(container)
  /\ ListsFolders(folders)
  /\ folders' = folders \cup remote
  /\ providers' = getProviders
  /\ UNCHANGED <<mailbox, provNodes, container, store, project, tx>>

\* A form that leaves the messages.
dropConfigurationOnly ==
  /\ Request
  /\ container.there
  /\ container' = [there |-> FALSE, no |-> container.no, link |-> NoLink]
  /\ folders' = {}
  /\ UNCHANGED <<mailbox, registry, store, project, tx>>

\* Everything below the node goes with it; a fetch that still writes there
\* cannot commit.
dropConfiguration ==
  /\ Request
  /\ container.there
  /\ container' = [there |-> FALSE, no |-> container.no, link |-> NoLink]
  /\ folders' = {}
  /\ store' = {}
  /\ UNCHANGED <<mailbox, registry, project, tx>>

-----------------------------------------------------------------------------
(* The fetch.                                                              *)

Nodes(f) == {n \in store : n.folder = f}

\* A form that reads what others have not committed.
VisibleDirty(f, c) == Nodes(f)

Visible(f, c) == {n \in Nodes(f) : n.owner \in {Nobody, c}}
UIDs(ns)      == {n.uid : n \in ns}
Stored(f)     == UIDs(Visible(f, Nobody))

\* The last of some nodes, in the order of their creation.
Last(ns) == CHOOSE n \in ns : \A m \in ns : m.at <= n.at

firstUID(f, c) ==
  LET fetched == Visible(f, c) IN
  IF fetched = {} THEN 1 ELSE Last(fetched).uid + 1

\* The server answers a range that is open at its end with the last message
\* at least, even if that has a lower UID.
getMessagesByUID(f, first) ==
  {u \in server[f] : u >= first \/ \A v \in server[f] : v <= u}

\* A form that goes on with the children of the default folder only.
getSubfoldersTop(f) == {g \in folders : f = Top /\ parent[g] = f /\ g \notin Inactive}

getSubfolders(f) == {g \in folders : parent[g] = f /\ g \notin Inactive}

\* The folders a fetch gets to.
above[f \in Folder] == {f} \cup IF parent[f] = Top THEN {} ELSE above[parent[f]]
Reachable == {f \in folders : above[f] \cap Inactive = {}}

BeginFetch(c) ==
  /\ Request
  /\ ~tx[c].on
  /\ Connects(container)
  /\ tx' = [tx EXCEPT ![c] = [NoFetch EXCEPT !.on = TRUE, !.box = container.no,
                                            !.todo = getSubfolders(Top),
                                            !.had = {m \in Mail : /\ m[1] \in Reachable
                                                                  /\ m[2] \in server[m[1]]}]]
  /\ providers' = getProviders
  /\ UNCHANGED <<mailbox, provNodes, config, store, project>>

SameBox(c) == container.there /\ container.no = tx[c].box

OpenFolder(c) ==
  /\ tx[c].on /\ tx[c].cur = Top /\ SameBox(c)
  /\ \E f \in tx[c].todo \cap remote :
       LET first == firstUID(f, c) IN
       tx' = [tx EXCEPT ![c].cur = f, ![c].todo = @ \ {f}, ![c].first = first,
                        ![c].left = getMessagesByUID(f, first),
                        ![c].seen = @ \cup ({f} \X UIDs(Visible(f, c)))]
  /\ UNCHANGED <<mailbox, registry, config, store, project, sent>>

NextLeft(c) == CHOOSE u \in tx[c].left : \A v \in tx[c].left : u <= v

SkipMessage(c) ==
  /\ tx[c].left # {}
  /\ NextLeft(c) < tx[c].first
  /\ tx' = [tx EXCEPT ![c].left = @ \ {NextLeft(c)}]
  /\ UNCHANGED <<mailbox, registry, config, store, project, sent>>

\* A node takes its place behind all others of its folder.
newMessage(f, u, c) ==
  LET at == IF Nodes(f) = {} THEN 1 ELSE Last(Nodes(f)).at + 1 IN
  /\ at <= MaxStored
  /\ store' = store \cup {[folder |-> f, uid |-> u, owner |-> c, at |-> at]}

\* A form without the test of the UID.
FetchAnyMessage(c) ==
  /\ tx[c].left # {} /\ SameBox(c)
  /\ LET u == NextLeft(c)
         f == tx[c].cur
     IN /\ <<f, u>> \notin Poison
        /\ newMessage(f, u, c)
        /\ tx' = [tx EXCEPT ![c].left = @ \ {u}]
  /\ UNCHANGED <<mailbox, registry, config, project, sent>>

FetchMessage(c) ==
  /\ tx[c].left # {} /\ SameBox(c)
  /\ LET u == NextLeft(c)
         f == tx[c].cur
     IN /\ u >= tx[c].first
        /\ <<f, u>> \notin Poison
        /\ newMessage(f, u, c)
        /\ tx' = [tx EXCEPT ![c].left = @ \ {u}]
  /\ UNCHANGED <<mailbox, registry, config, project, sent>>

CloseFolder(c) ==
  /\ tx[c].cur # Top /\ tx[c].left = {}
  /\ tx' = [tx EXCEPT ![c].cur = Top, ![c].todo = @ \cup getSubfolders(tx[c].cur)]
  /\ UNCHANGED <<mailbox, registry, config, store, project, sent>>

\* Messages this fetch has stored; the listener has put each into the
\* project once for every contact it concerns, in the same transaction.
Made(c, m) == {n \in Nodes(m[1]) : n.uid = m[2] /\ n.owner = c}

\* A form that stops at the first contact.
onNewMessageReceivedOnce(c) ==
  [m \in Mail |-> project[m] + IF contacts[m] = 0 THEN 0 ELSE Cardinality(Made(c, m))]

onNewMessageReceived(c) ==
  [m \in Mail |-> project[m] + Cardinality(Made(c, m)) * contacts[m]]

CommitFetch(c) ==
  /\ tx[c].on /\ tx[c].cur = Top /\ tx[c].todo = {} /\ SameBox(c)
  /\ store' = {IF n.owner = c THEN [n EXCEPT !.owner = Nobody] ELSE n : n \in store}
  /\ project' = onNewMessageReceived(c)
  /\ tx' = [tx EXCEPT ![c] = NoFetch]
  /\ UNCHANGED <<mailbox, registry, config, sent>>

\* Connection lost, folder gone on the server, message that cannot be read or
\* stored, configuration dropped, server stopped: the transaction is rolled back.
AbortFetch(c) ==
  /\ tx[c].on
  /\ store' = {n \in store : n.owner # c}
  /\ tx' = [tx EXCEPT ![c] = NoFetch]
  /\ UNCHANGED <<mailbox, registry, config, project, sent>>

-----------------------------------------------------------------------------
(* The world.                                                              *)

Arrive(f) ==
  /\ f \in remote
  /\ uidNext[f] <= MaxUID[f]
  /\ server' = [server EXCEPT ![f] = @ \cup {uidNext[f]}]
  /\ uidNext' = [uidNext EXCEPT ![f] = @ + 1]
  /\ UNCHANGED <<remote, registry, config, store, project, tx, sent>>

Expunge(f) ==
  /\ \E u \in server[f] : server' = [server EXCEPT ![f] = @ \ {u}]
  /\ UNCHANGED <<remote, uidNext, registry, config, store, project, tx, sent>>

\* A folder without subfolders disappears, or comes back.
ChangeFolders(f) ==
  /\ IF f \in remote
     THEN /\ \A g \in remote : parent[g] # f
          /\ remote' = remote \ {f}
          /\ server' = [server EXCEPT ![f] = {}]
     ELSE /\ parent[f] \in remote \cup {Top}
          /\ remote' = remote \cup {f}
          /\ UNCHANGED server
  /\ UNCHANGED <<uidNext, registry, config, store, project, tx, sent>>

\* The server is restarted: transactions under way are rolled back.
Restart ==
  /\ providers' = NotLoaded
  /\ store' = {n \in store : n.owner = Nobody}
  /\ tx' = [c \in Client |-> NoFetch]
  /\ UNCHANGED <<mailbox, provNodes, config, project, sent>>

Fetch(c) ==
  \/ BeginFetch(c) \/ OpenFolder(c) \/ SkipMessage(c) \/ FetchMessage(c)
  \/ CloseFolder(c) \/ CommitFetch(c) \/ AbortFetch(c)

Next ==
  \/ \E id \in Provider, commits \in BOOLEAN : addProvider(id, commits) \/ removeProvider(id, commits)
  \/ \E id \in Provider : configure(id)
  \/ AskProviders \/ clearProviders \/ fetchFolderList \/ dropConfiguration
  \/ \E c \in Client : Fetch(c)
  \/ \E f \in Folder : Arrive(f) \/ Expunge(f) \/ ChangeFolders(f)
  \/ Restart

Spec == Init /\ [][Next]_vars

-----------------------------------------------------------------------------
(* Properties.                                                             *)

\* What is stored of a folder has no gap: a message the server still has is
\* stored if a later one is.  The next fetch asks for what is behind the last
\* node only, so a gap would never be filled.
NoGap ==
  \A f \in Folder : \A u \in server[f], v \in Stored(f) : u < v => u \in Stored(f)

\* "Incrementally fetches emails": a fetch stores nothing it could see to be
\* stored, also when the server answers an old message.  (Two fetches at a time
\* may leave the nodes of a folder out of order; then it does.)
InOrder(f) ==
  \A m, n \in Visible(f, Nobody) : m.at < n.at => m.uid < n.uid
FetchesOnlyNew ==
  \A c \in Client : \A m \in tx[c].seen : InOrder(m[1]) => Made(c, m) = {}

\* A fetch that is answered with success has stored every message that the
\* server had in the user's active folders when it began, and still has.
FetchIsComplete ==
  [][\A c \in Client :
       CommitFetch(c) => \A m \in tx[c].had : m[2] \in server[m[1]] => m[2] \in Stored(m[1])']_vars

\* Every stored message is in the conversations of the project, once for each
\* contact it concerns, whatever was rolled back and fetched again.
ProjectHasStored ==
  \A m \in Mail :
    contacts[m] * Cardinality({n \in Visible(m[1], Nobody) : n.uid = m[2]}) <= project[m]
=============================================================================
