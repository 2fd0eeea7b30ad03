-------------------------- MODULE EmailServiceProofs --------------------------
(***************************************************************************)
(* Theorems about EmailService: whatever the number of fetches at a time,  *)
(* of folders and of messages, what is stored of a folder has no gap, the  *)
(* project has what is stored, and a fetch stores all that is new and      *)
(* nothing else.                                                           *)
(*                                                                         *)
(* NoGap speaks of committed nodes only, and a commit makes many of them   *)
(* at once.  The invariant says the same of what a fetch has not committed *)
(* yet (NoOwnGap) and of the messages it has still to read (Asked).        *)
(*                                                                         *)
(* A second invariant (Tour) is about the way of a fetch through the tree  *)
(* of folders: of the folders it has still to open none is above another,  *)
(* so that it opens each once, and what it has not stored is below them.   *)
(* The folders above one are defined without recursion, as the least set   *)
(* that has the parents of its members (Up).                               *)
(***************************************************************************)
EXTENDS EmailService, FiniteSetTheorems, FunctionTheorems, WellFoundedInduction, TLAPS

\* A node with this UID that c sees.
Has(f, c, u) == \E n \in store : n.folder = f /\ n.uid = u /\ n.owner \in {Nobody, c}

\* UIDs only grow.
Arrivals ==
  /\ \A f \in Folder : \A u \in server[f] : u < uidNext[f]
  /\ \A n \in store : n.uid < uidNext[n.folder]
  /\ \A c \in Client : \A u \in tx[c].left : u < uidNext[tx[c].cur]

\* A fetch writes into the configuration that it has found, or not at all.
Boxes ==
  \A c \in Client :
    /\ tx[c].cur = Top => tx[c].left = {}
    /\ tx[c].cur # Top => tx[c].left \subseteq 1 .. MaxUID[tx[c].cur]
    /\ ~tx[c].on => tx[c].cur = Top
    /\ tx[c].box <= container.no
    /\ SameBox(c) => tx[c].todo \subseteq folders /\ tx[c].cur \in folders \cup {Top}
    /\ \A n \in store : n.owner = c => tx[c].on /\ SameBox(c)

Gapless == \A n \in store : \A u \in server[n.folder] : n.owner = Nobody /\ u < n.uid => Has(n.folder, Nobody, u)

\* What c has stored has no gap for c.
NoOwnGap ==
  \A c \in Client : SameBox(c) =>
    \A n \in store : \A u \in server[n.folder] : n.owner = c /\ u < n.uid => Has(n.folder, c, u)

\* What c will read has no gap: what is older is stored or will be read, too, and what it
\* will skip is stored.
Asked ==
  \A c \in Client : SameBox(c) /\ tx[c].cur # Top =>
    \A u \in server[tx[c].cur] :
      /\ (\E v \in tx[c].left : u < v) => u \in tx[c].left \/ Has(tx[c].cur, c, u)
      /\ u \in tx[c].left /\ u < tx[c].first => Has(tx[c].cur, c, u)

IInv == TypeOK /\ IsFiniteSet(store) /\ Arrivals /\ Boxes /\ Gapless /\ NoOwnGap /\ Asked /\ ProjectHasStored

-----------------------------------------------------------------------------
(* Numbers and nodes.                                                      *)

LEMMA Least ==
  ASSUME NEW S \in SUBSET Nat, S # {}
  PROVE  \E m \in S : \A n \in S : m <= n
<1> DEFINE R == {p \in Nat \X Nat : p[1] < p[2]}
<1>1. IsWellFoundedOn(R, Nat)
  BY NatLessThanWellFounded DEF OpToRel
<1> HIDE DEF R
<1>2. PICK m \in S : \A n \in S : ~(<<n, m>> \in R)
  BY <1>1, WFMin
<1>3. \A n \in S : ~(n < m)
  BY <1>2 DEF R
<1> QED BY <1>3

LEMMA LastOK ==
  ASSUME NEW ns \in SUBSET Node, ns # {}
  PROVE  Last(ns) \in ns /\ \A m \in ns : m.at <= Last(ns).at
<1>1. \A n \in ns : n.at \in 1 .. MaxStored
  BY DEF Node
<1>2. MaxStored \in Nat
  BY EmailAssumption
<1> DEFINE S == {MaxStored - n.at : n \in ns}
<1>3. S \in SUBSET Nat /\ S # {}
  BY <1>1, <1>2
<1>4. PICK s \in S : \A t \in S : s <= t
  BY <1>3, Least
<1>5. PICK n \in ns : \A m \in ns : MaxStored - n.at <= MaxStored - m.at
  BY <1>4
<1>6. \A m \in ns : m.at <= n.at
  BY <1>1, <1>2, <1>5
<1> QED BY <1>6 DEF Last

LEMMA NextLeftOK ==
  ASSUME NEW c \in Client, tx[c].left \subseteq Nat, tx[c].left # {}
  PROVE  NextLeft(c) \in tx[c].left /\ \A v \in tx[c].left : NextLeft(c) <= v
<1>1. \E u \in tx[c].left : \A v \in tx[c].left : u <= v
  BY Least
<1> QED BY <1>1 DEF NextLeft

LEMMA HasIs ==
  ASSUME NEW f, NEW c, NEW u
  PROVE  u \in UIDs(Visible(f, c)) <=> Has(f, c, u)
BY DEF UIDs, Visible, Nodes, Has

LEMMA NoGapIs == TypeOK => (Gapless <=> NoGap)
<1> SUFFICES ASSUME TypeOK PROVE Gapless <=> NoGap
  OBVIOUS
<1>1. \A f, u : u \in Stored(f) <=> Has(f, Nobody, u)
  BY HasIs DEF Stored
<1>2. \A n \in store : n.folder \in Folder
  BY DEF TypeOK, Node
<1>3. ASSUME Gapless PROVE NoGap
  BY <1>1, <1>3 DEF Gapless, NoGap, Has
<1>4. ASSUME NoGap PROVE Gapless
  <2> SUFFICES ASSUME NEW n \in store, NEW u \in server[n.folder], n.owner = Nobody, u < n.uid
               PROVE  Has(n.folder, Nobody, u)
    BY DEF Gapless
  <2>1. n.uid \in Stored(n.folder)
    BY <1>1 DEF Has
  <2> QED BY <1>1, <1>2, <1>4, <2>1 DEF NoGap
<1> QED BY <1>3, <1>4

\* A fetch, as a record whose fields range over any sets.
TxOf(B, T, C, N, L, S) ==
  [on : BOOLEAN, box : B, todo : T, cur : C, first : N, left : L, seen : S, had : S]
Fetching(q, todo, cur, first, left, seen) ==
  [q EXCEPT !.todo = todo, !.cur = cur, !.first = first, !.left = left, !.seen = seen]
Begun(box, todo, had) ==
  [on |-> TRUE, box |-> box, todo |-> todo, cur |-> Top, first |-> 0, left |-> {}, seen |-> {}, had |-> had]
Tx == [on : BOOLEAN, box : 0 .. MaxNodes, todo : SUBSET Folder,
       cur : Folder \cup {Top}, first : Nat, left : SUBSET Nat,
       seen : SUBSET Mail, had : SUBSET Mail]

LEMMA TxShape ==
  \E B, T, C, N, L, S :
    /\ Tx = TxOf(B, T, C, N, L, S)
    /\ B = 0 .. MaxNodes /\ T = SUBSET Folder /\ C = Folder \cup {Top} /\ N = Nat /\ L = SUBSET Nat /\ S = SUBSET Mail
BY Zenon DEF Tx, TxOf

LEMMA FetchingOK ==
  ASSUME NEW q \in Tx, NEW todo \in SUBSET Folder, NEW cur \in Folder \cup {Top}, NEW first \in Nat,
         NEW left \in SUBSET Nat, NEW seen \in SUBSET Mail
  PROVE  LET r == Fetching(q, todo, cur, first, left, seen) IN
         /\ r \in Tx /\ r.todo = todo /\ r.cur = cur /\ r.first = first /\ r.left = left /\ r.on = q.on /\ r.box = q.box
         /\ r.seen = seen /\ r.had = q.had
<1> DEFINE r == Fetching(q, todo, cur, first, left, seen)
<1>1. PICK B, T, C, N, L, S :
        Tx = TxOf(B, T, C, N, L, S) /\ todo \in T /\ cur \in C /\ first \in N /\ left \in L /\ seen \in S
  <2>1. PICK B, T, C, N, L, S :
          /\ Tx = TxOf(B, T, C, N, L, S)
          /\ T = SUBSET Folder /\ C = Folder \cup {Top} /\ N = Nat /\ L = SUBSET Nat /\ S = SUBSET Mail
    BY TxShape
  <2> QED BY <2>1
<1>2. r = [q EXCEPT !.todo = todo, !.cur = cur, !.first = first, !.left = left, !.seen = seen]
      /\ q \in TxOf(B, T, C, N, L, S)
  BY <1>1 DEF Fetching
<1> HIDE DEF r
<1>3. r \in TxOf(B, T, C, N, L, S)
  BY <1>1, <1>2 DEF TxOf
<1>4. /\ r.todo = todo /\ r.cur = cur /\ r.first = first /\ r.left = left /\ r.on = q.on /\ r.box = q.box
      /\ r.seen = seen /\ r.had = q.had
  BY <1>2 DEF TxOf
<1> QED BY <1>1, <1>3, <1>4 DEF r

LEMMA NoFetchOK ==
  /\ NoFetch \in Tx /\ NoFetch.on = FALSE /\ NoFetch.cur = Top /\ NoFetch.left = {} /\ NoFetch.todo = {} /\ NoFetch.box = 0
  /\ NoFetch.seen = {} /\ NoFetch.had = {}
<1>1. 0 \in 0 .. MaxNodes
  BY EmailAssumption
<1> QED BY <1>1 DEF NoFetch, Tx

LEMMA BegunIs ==
  ASSUME NEW box, NEW todo, NEW had, NEW r,
         r = [NoFetch EXCEPT !.on = TRUE, !.box = box, !.todo = todo, !.had = had]
  PROVE  r = Begun(box, todo, had)
BY DEF NoFetch, Begun

-----------------------------------------------------------------------------
(* Steps that leave the fetches alone.                                     *)

LEMMA InitIInv == Init => IInv
<1> SUFFICES ASSUME Init PROVE IInv
  OBVIOUS
<1>1. TypeOK
  <2>1. tx \in [Client -> Tx]
    BY NoFetchOK DEF Init
  <2>2. 1 \in Nat /\ 0 \in 0 .. MaxRequests /\ 0 \in 0 .. MaxNodes /\ \A f \in Folder : 1 \in 1 .. MaxUID[f] + 1
    BY EmailAssumption
  <2> QED BY <2>1, <2>2 DEF Init, TypeOK, Tx
<1>2. \A c \in Client : tx[c].on = FALSE /\ tx[c].cur = Top /\ tx[c].left = {} /\ tx[c].todo = {} /\ tx[c].box = 0
  BY NoFetchOK DEF Init
<1>3. Arrivals /\ Boxes
  BY <1>2 DEF Init, Arrivals, Boxes, SameBox
<1>4. IsFiniteSet(store) /\ Gapless /\ NoOwnGap /\ Asked
  BY <1>2, FS_EmptySet DEF Init, Gapless, NoOwnGap, Asked
<1>5. ProjectHasStored
  <2> SUFFICES ASSUME NEW m \in Mail
               PROVE  contacts[m] * Cardinality({n \in Visible(m[1], Nobody) : n.uid = m[2]}) <= project[m]
    BY DEF ProjectHasStored
  <2>1. {n \in Visible(m[1], Nobody) : n.uid = m[2]} = {}
    BY DEF Init, Visible, Nodes
  <2>2. contacts[m] \in Nat /\ project[m] = 0
    BY EmailAssumption DEF Init
  <2> QED BY <2>1, <2>2, FS_EmptySet
<1> QED BY <1>1, <1>3, <1>4, <1>5 DEF IInv

LEMMA QuietStep ==
  ASSUME IInv, TypeOK', UNCHANGED <<server, uidNext, store, project, tx>>,
         folders \subseteq folders', container.no <= container'.no, \A c \in Client : SameBox(c)' <=> SameBox(c)
  PROVE  IInv'
<1>1. \A f, c, u : Has(f, c, u)' <=> Has(f, c, u)
  BY DEF Has
<1>2. Arrivals'
  BY DEF IInv, Arrivals
<1>3. Boxes'
  <2>1. \A c \in Client : tx[c].box \in Nat /\ container.no \in Nat /\ container'.no \in Nat
    BY EmailAssumption DEF IInv, TypeOK
  <2> QED BY <2>1 DEF IInv, Boxes
<1>4. Gapless' /\ NoOwnGap' /\ Asked'
  BY <1>1 DEF IInv, Gapless, NoOwnGap, Asked
<1>5. ProjectHasStored'
  BY DEF IInv, ProjectHasStored, Visible, Nodes
<1> QED BY <1>2, <1>3, <1>4, <1>5 DEF IInv

LEMMA ProvidersOK == TypeOK => getProviders \in SUBSET ProvNode
BY DEF TypeOK, getProviders, loadProviders

\* The list of providers and their nodes.
LEMMA ProviderStep ==
  ASSUME IInv,
         \/ AskProviders \/ clearProviders
         \/ \E id \in Provider, commits \in BOOLEAN : addProvider(id, commits) \/ removeProvider(id, commits)
  PROVE  IInv'
<1>1. UNCHANGED <<server, remote, uidNext, folders, store, project, tx>> /\ sent' \in 0 .. MaxRequests
  BY EmailAssumption DEF AskProviders, clearProviders, addProvider, removeProvider, mailbox, config, Request, IInv, TypeOK
<1>2. /\ provNodes' \subseteq ProvNode /\ (providers' = NotLoaded \/ providers' \in SUBSET ProvNode)
      /\ container' \in [there : BOOLEAN, no : 0 .. MaxNodes, link : ProvNode \cup {NoLink}]
      /\ container'.there = container.there /\ container'.no = container.no
      /\ container'.link \in IF container'.there THEN provNodes' \cup {NoLink} ELSE {NoLink}
  <2>1. CASE AskProviders
    BY <2>1, ProvidersOK DEF AskProviders, config, IInv, TypeOK
  <2>2. CASE clearProviders
    BY <2>2 DEF clearProviders, config, IInv, TypeOK
  <2>3. CASE \E id \in Provider, commits \in BOOLEAN : addProvider(id, commits)
    <3>1. PICK id \in Provider, commits \in BOOLEAN : addProvider(id, commits)
      BY <2>3
    <3>2. PICK no \in 1 .. MaxNodes :
            LET node == [id |-> id, no |-> no] IN
            /\ providers' = getProviders \cup {node}
            /\ provNodes' = IF commits THEN provNodes \cup {node} ELSE provNodes
      BY <3>1 DEF addProvider
    <3>3. [id |-> id, no |-> no] \in ProvNode
      BY DEF ProvNode
    <3>4. container' = container
      BY <3>1 DEF addProvider, config
    <3>5. provNodes' \subseteq ProvNode /\ providers' \in SUBSET ProvNode /\ provNodes \subseteq provNodes'
      BY <3>2, <3>3, ProvidersOK DEF IInv, TypeOK
    <3> QED BY <3>4, <3>5 DEF IInv, TypeOK
  <2>4. CASE \E id \in Provider, commits \in BOOLEAN : removeProvider(id, commits)
    <3>1. PICK id \in Provider : removeProvider(id, TRUE) \/ removeProvider(id, FALSE)
      BY <2>4
    <3> DEFINE cleared == [container EXCEPT !.link = NoLink]
    <3>2. PICK p \in getEmailProvider(id) \cap provNodes :
            /\ providers' = getProviders \ {p}
            /\ \/ /\ provNodes' = provNodes \ {p}
                  /\ container' = IF container.link = p THEN cleared ELSE container
               \/ provNodes' = provNodes /\ container' = container
      BY <3>1 DEF removeProvider
    <3> HIDE DEF cleared
    <3>3. provNodes' \subseteq ProvNode /\ providers' \in SUBSET ProvNode
      BY <3>2, ProvidersOK DEF IInv, TypeOK
    <3>4. (container' = cleared /\ provNodes' \subseteq provNodes)
          \/ (container' = container /\ (provNodes' = provNodes \/ (provNodes' = provNodes \ {p} /\ container.link # p)))
      BY <3>2
    <3> QED BY <3>3, <3>4 DEF IInv, TypeOK, cleared
  <2> QED BY <2>1, <2>2, <2>3, <2>4
<1>3. TypeOK'
  BY <1>1, <1>2 DEF IInv, TypeOK
<1>4. container'.no \in Nat
  BY <1>2, EmailAssumption
<1> QED BY <1>1, <1>2, <1>3, <1>4, QuietStep DEF SameBox

\* A configuration that is made is not that of an older fetch.
LEMMA ConfigureStep ==
  ASSUME IInv, (\E id \in Provider : configure(id)) \/ fetchFolderList
  PROVE  IInv'
<1>1. UNCHANGED <<server, remote, uidNext, provNodes, store, project, tx>> /\ sent' \in 0 .. MaxRequests
      /\ folders' = folders \cup remote /\ providers' = getProviders
  BY EmailAssumption DEF configure, fetchFolderList, mailbox, Request, IInv, TypeOK
<1>2. /\ container' \in [there : BOOLEAN, no : 0 .. MaxNodes, link : ProvNode \cup {NoLink}]
      /\ container'.link \in IF container'.there THEN provNodes \cup {NoLink} ELSE {NoLink}
      /\ \/ container'.there = container.there /\ container'.no = container.no
         \/ ~container.there /\ container'.no = container.no + 1
  <2>1. CASE fetchFolderList
    BY <2>1 DEF fetchFolderList, IInv, TypeOK
  <2>2. CASE \E id \in Provider : configure(id)
    <3>1. PICK id \in Provider : configure(id)
      BY <2>2
    <3>2. PICK p \in getEmailProvider(id) \cap provNodes :
            LET no == IF container.there THEN container.no ELSE container.no + 1 IN
            no <= MaxNodes /\ container' = [there |-> TRUE, no |-> no, link |-> p]
      BY <3>1 DEF configure
    <3> DEFINE no == IF container.there THEN container.no ELSE container.no + 1
    <3>3. no \in 0 .. MaxNodes
      BY <3>2, EmailAssumption DEF IInv, TypeOK
    <3> HIDE DEF no
    <3>4. p \in ProvNode /\ container' = [there |-> TRUE, no |-> no, link |-> p]
      BY <3>2 DEF IInv, TypeOK, no
    <3>5. container' \in [there : BOOLEAN, no : 0 .. MaxNodes, link : ProvNode \cup {NoLink}]
          /\ container'.there = TRUE /\ container'.no = no /\ container'.link = p
      BY <3>3, <3>4
    <3>6. p \in provNodes
      BY <3>2
    <3>7. container.there \in BOOLEAN /\ no = IF container.there THEN container.no ELSE container.no + 1
      BY DEF no, IInv, TypeOK
    <3> QED BY <3>5, <3>6, <3>7
  <2> QED BY <2>1, <2>2
<1>3. TypeOK'
  <2>1. providers' \in SUBSET ProvNode /\ folders' \subseteq Folder /\ folders \subseteq folders'
    BY <1>1, ProvidersOK DEF IInv, TypeOK
  <2> QED BY <1>1, <1>2, <2>1 DEF IInv, TypeOK
<1>4. ASSUME NEW c \in Client
      PROVE  SameBox(c)' <=> SameBox(c)
  <2>1. tx[c].box <= container.no /\ tx[c].box \in Nat /\ container.no \in Nat
    BY EmailAssumption DEF IInv, Boxes, TypeOK
  <2> QED BY <1>1, <1>2, <2>1 DEF SameBox
<1>5. container.no <= container'.no
  BY <1>2, EmailAssumption DEF IInv, TypeOK
<1> QED BY <1>1, <1>3, <1>4, <1>5, QuietStep

\* What is dropped leaves nobody anything to write into.
LEMMA DropStep ==
  ASSUME IInv, dropConfiguration
  PROVE  IInv'
<1>1. /\ container' = [there |-> FALSE, no |-> container.no, link |-> NoLink] /\ folders' = {} /\ store' = {}
      /\ UNCHANGED <<server, remote, uidNext, provNodes, providers, project, tx>> /\ sent' \in 0 .. MaxRequests
  BY EmailAssumption DEF dropConfiguration, mailbox, registry, Request, IInv, TypeOK
<1>2. TypeOK'
  BY <1>1 DEF IInv, TypeOK
<1>3. \A c \in Client : ~SameBox(c)'
  BY <1>1 DEF SameBox
<1>4. Arrivals' /\ Boxes'
  BY <1>1, <1>3 DEF IInv, Arrivals, Boxes
<1>5. IsFiniteSet(store') /\ Gapless' /\ NoOwnGap' /\ Asked'
  BY <1>1, <1>3, FS_EmptySet DEF Gapless, NoOwnGap, Asked
<1>6. ProjectHasStored'
  <2> SUFFICES ASSUME NEW m \in Mail
               PROVE  contacts[m] * Cardinality({n \in Visible(m[1], Nobody)' : n.uid = m[2]}) <= project'[m]
    BY DEF ProjectHasStored
  <2>1. {n \in Visible(m[1], Nobody)' : n.uid = m[2]} = {}
    BY <1>1 DEF Visible, Nodes
  <2>2. contacts[m] \in Nat /\ project'[m] \in Nat
    BY <1>1, EmailAssumption DEF IInv, TypeOK
  <2>3. Cardinality({n \in Visible(m[1], Nobody)' : n.uid = m[2]}) = 0
    BY <2>1, FS_EmptySet
  <2>4. contacts[m] * 0 <= project'[m]
    BY <2>2
  <2> QED BY <2>3, <2>4
<1> QED BY <1>2, <1>4, <1>5, <1>6 DEF IInv

\* A message that arrives is newer than all; others only disappear.
LEMMA MailboxStep ==
  ASSUME IInv, NEW f \in Folder, Arrive(f) \/ Expunge(f) \/ ChangeFolders(f)
  PROVE  IInv'
<1>1. UNCHANGED <<provNodes, providers, container, folders, store, project, tx, sent>>
  BY DEF Arrive, Expunge, ChangeFolders, registry, config
<1>2. /\ server' \in [Folder -> SUBSET Nat] /\ \A g \in Folder : server'[g] \subseteq 1 .. MaxUID[g]
      /\ remote' \subseteq Folder
      /\ uidNext' \in [Folder -> Nat] /\ \A g \in Folder : uidNext'[g] \in 1 .. MaxUID[g] + 1 /\ uidNext[g] <= uidNext'[g]
      /\ \A g \in Folder : \A u \in server'[g] : u < uidNext'[g] /\ (u \in server[g] \/ u = uidNext[g])
  <2>1. MaxUID \in [Folder -> Nat]
    BY EmailAssumption
  <2>2. /\ server \in [Folder -> SUBSET Nat] /\ uidNext \in [Folder -> Nat] /\ remote \subseteq Folder
        /\ \A g \in Folder : uidNext[g] \in 1 .. MaxUID[g] + 1 /\ server[g] \subseteq 1 .. MaxUID[g]
        /\ \A g \in Folder : \A u \in server[g] : u < uidNext[g]
    BY DEF IInv, TypeOK, Arrivals
  <2>3. CASE Arrive(f)
    <3>1. /\ server' = [server EXCEPT ![f] = @ \cup {uidNext[f]}] /\ uidNext' = [uidNext EXCEPT ![f] = @ + 1]
          /\ remote' = remote /\ uidNext[f] <= MaxUID[f]
      BY <2>3 DEF Arrive
    <3> QED BY <2>1, <2>2, <3>1
  <2>4. CASE Expunge(f)
    <3>1. PICK u \in server[f] : server' = [server EXCEPT ![f] = @ \ {u}] /\ uidNext' = uidNext /\ remote' = remote
      BY <2>4 DEF Expunge
    <3> QED BY <2>1, <2>2, <3>1
  <2>5. CASE ChangeFolders(f)
    <3>1. /\ server' = server \/ server' = [server EXCEPT ![f] = {}]
          /\ uidNext' = uidNext /\ remote' \subseteq Folder
      BY <2>2, <2>5 DEF ChangeFolders
    <3> QED BY <2>1, <2>2, <3>1
  <2> QED BY <2>3, <2>4, <2>5
<1>3. TypeOK'
  BY <1>1, <1>2 DEF IInv, TypeOK
<1>4. \A g, c, u : Has(g, c, u)' <=> Has(g, c, u)
  BY <1>1 DEF Has
<1>5. \A c \in Client : (SameBox(c)' <=> SameBox(c)) /\ (tx[c].left # {} => tx[c].cur \in Folder)
  BY <1>1 DEF SameBox, IInv, Boxes, TypeOK
<1>6. \A n \in store : n.folder \in Folder /\ n.uid \in Nat
  BY DEF IInv, TypeOK, Node
<1>7. \A c \in Client : tx[c].left \subseteq Nat
  BY DEF IInv, TypeOK
<1>8. Arrivals'
  <2>1. \A n \in store : n.uid < uidNext'[n.folder]
    BY <1>2, <1>6 DEF IInv, Arrivals, TypeOK
  <2>2. \A c \in Client : \A u \in tx[c].left : u < uidNext'[tx[c].cur]
    BY <1>2, <1>5, <1>7 DEF IInv, Arrivals, TypeOK
  <2> QED BY <1>1, <1>2, <2>1, <2>2 DEF Arrivals
<1>9. Boxes'
  BY <1>1, <1>5 DEF IInv, Boxes
<1>10. Gapless' /\ NoOwnGap'
  <2>1. ASSUME NEW n \in store, NEW u \in server'[n.folder], u < n.uid
        PROVE  u \in server[n.folder]
    BY <1>2, <1>6, <2>1 DEF IInv, Arrivals
  <2> QED BY <1>1, <1>4, <1>5, <2>1 DEF IInv, Gapless, NoOwnGap
<1>11. Asked'
  <2>1. ASSUME NEW c \in Client, tx[c].cur # Top, NEW u \in server'[tx[c].cur], (\E v \in tx[c].left : u < v) \/ u \in tx[c].left
        PROVE  u \in server[tx[c].cur]
    BY <1>2, <1>5, <1>7, <2>1 DEF IInv, Arrivals
  <2> QED BY <1>1, <1>4, <1>5, <2>1 DEF IInv, Asked
<1>12. ProjectHasStored'
  BY <1>1 DEF IInv, ProjectHasStored, Visible, Nodes
<1> QED BY <1>1, <1>3, <1>8, <1>9, <1>10, <1>11, <1>12 DEF IInv

-----------------------------------------------------------------------------
(* Steps of one fetch.                                                     *)

\* The fetch q writes into the configuration that there is.
Valid(q) == container.there /\ container.no = q.box

\* What the invariant says of c, if its fetch is q.
OneOK(c, q) ==
  /\ q.cur = Top => q.left = {}
  /\ q.cur # Top => q.left \subseteq 1 .. MaxUID[q.cur]
  /\ \A u \in q.left : u < uidNext[q.cur]
  /\ ~q.on => q.cur = Top
  /\ q.box <= container.no
  /\ Valid(q) => q.todo \subseteq folders /\ q.cur \in folders \cup {Top}
  /\ \A n \in store : n.owner = c => q.on /\ Valid(q)
  /\ Valid(q) => \A n \in store : \A u \in server[n.folder] : n.owner = c /\ u < n.uid => Has(n.folder, c, u)
  /\ Valid(q) /\ q.cur # Top =>
       \A u \in server[q.cur] :
         /\ (\E v \in q.left : u < v) => u \in q.left \/ Has(q.cur, c, u)
         /\ u \in q.left /\ u < q.first => Has(q.cur, c, u)

LEMMA OneIs == IInv => \A c \in Client : OneOK(c, tx[c])
BY DEF IInv, Arrivals, Boxes, NoOwnGap, Asked, OneOK, Valid, SameBox

\* A step of c leaves what others have stored.
LEMMA ClientStep ==
  ASSUME IInv, NEW c \in Client, NEW q \in Tx, tx' = [tx EXCEPT ![c] = q], OneOK(c, q)',
         UNCHANGED <<server, remote, uidNext, provNodes, container, folders>>,
         providers' = NotLoaded \/ providers' \in SUBSET ProvNode, sent' \in 0 .. MaxRequests,
         project' \in [Mail -> Nat],
         store' \subseteq Node, IsFiniteSet(store'),
         \A n \in store' : n.folder \in folders /\ n.uid \in 1 .. MaxUID[n.folder] /\ n.uid < uidNext[n.folder],
         \A n \in store' : n.owner \notin {c, Nobody} => n \in store,
         \A n \in store : n.owner # c => n \in store',
         Gapless', ProjectHasStored'
  PROVE  IInv'
<1>1. tx' \in [Client -> Tx] /\ tx'[c] = q /\ \A d \in Client \ {c} : tx'[d] = tx[d]
  BY DEF IInv, TypeOK, Tx
<1>2. TypeOK'
  BY <1>1 DEF IInv, TypeOK, Tx
<1>3. \A d \in Client \ {c} : \A f, u : Has(f, d, u) => Has(f, d, u)'
  BY EmailAssumption DEF Has
<1>4. ASSUME NEW d \in Client
      PROVE  OneOK(d, tx[d])'
  <2>1. CASE d = c
    BY <1>1, <2>1
  <2>2. CASE d # c
    <3>0. PICK r : r = tx[d]
      OBVIOUS
    <3>1. OneOK(d, r)
      BY <3>0, OneIs
    <3>2. \A n \in store' : n.owner = d => n \in store
      BY <2>2, EmailAssumption
    <3>3. tx'[d] = r /\ \A f, u : Has(f, d, u) => Has(f, d, u)'
      BY <1>1, <1>3, <2>2, <3>0
    <3>4. OneOK(d, r)'
      BY <3>1, <3>2, <3>3 DEF OneOK, Valid
    <3> QED BY <3>3, <3>4
  <2> QED BY <2>1, <2>2
<1>5. Arrivals' /\ Boxes' /\ NoOwnGap' /\ Asked'
  <2>1. Arrivals'
    BY <1>4 DEF IInv, Arrivals, OneOK
  <2>2. Boxes'
    BY <1>4 DEF Boxes, OneOK, Valid, SameBox
  <2>3. NoOwnGap'
    BY <1>4 DEF NoOwnGap, OneOK, Valid, SameBox
  <2>4. Asked'
    BY <1>4 DEF Asked, OneOK, Valid, SameBox
  <2> QED BY <2>1, <2>2, <2>3, <2>4
<1> QED BY <1>2, <1>5 DEF IInv

\* The project has what is stored, as long as nothing is committed.
LEMMA SameProject ==
  ASSUME ProjectHasStored, project' = project,
         \A n \in store' : n.owner = Nobody => n \in store, \A n \in store : n.owner = Nobody => n \in store'
  PROVE  ProjectHasStored'
<1>1. \A f : Visible(f, Nobody)' = Visible(f, Nobody)
  BY DEF Visible, Nodes
<1> QED BY <1>1 DEF ProjectHasStored

\* The same where no node is stored.
LEMMA ReadStep ==
  ASSUME IInv, NEW c \in Client, NEW q \in Tx, tx' = [tx EXCEPT ![c] = q],
         UNCHANGED <<server, remote, uidNext, provNodes, container, folders, store, project>>,
         providers' = NotLoaded \/ providers' \in SUBSET ProvNode, sent' \in 0 .. MaxRequests,
         OneOK(c, q)
  PROVE  IInv'
<1>1. OneOK(c, q)'
  BY DEF OneOK, Valid, Has
<1>2. Gapless'
  BY DEF IInv, Gapless, Has
<1>3. ProjectHasStored'
  BY SameProject DEF IInv
<1>4. store' \subseteq Node /\ IsFiniteSet(store') /\ project' \in [Mail -> Nat]
      /\ \A n \in store' : n.folder \in folders /\ n.uid \in 1 .. MaxUID[n.folder] /\ n.uid < uidNext[n.folder]
  BY DEF IInv, TypeOK, Arrivals
<1> QED BY <1>1, <1>2, <1>3, <1>4, ClientStep

\* A fetch that begins has stored nothing yet.
LEMMA BeganAs ==
  ASSUME IInv, NEW c \in Client, BeginFetch(c)
  PROVE  \E q \in Tx :
           /\ ~tx[c].on /\ tx' = [tx EXCEPT ![c] = q]
           /\ q.on /\ q.box = container.no /\ q.todo = getSubfolders(Top) /\ q.cur = Top /\ q.left = {} /\ q.seen = {}
           /\ q.had = {m \in Mail : m[1] \in Reachable /\ m[2] \in server[m[1]]}
<1>b. PICK box : box = container.no
  OBVIOUS
<1>t. PICK todo : todo = getSubfolders(Top)
  OBVIOUS
<1>h. PICK had : had = {m \in Mail : m[1] \in Reachable /\ m[2] \in server[m[1]]}
  OBVIOUS
<1>q. PICK q : q = [NoFetch EXCEPT !.on = TRUE, !.box = box, !.todo = todo, !.had = had]
  OBVIOUS
<1>1. ~tx[c].on /\ tx' = [tx EXCEPT ![c] = q]
  BY <1>b, <1>t, <1>h, <1>q DEF BeginFetch
<1>2. box \in 0 .. MaxNodes /\ todo \in SUBSET Folder /\ had \in SUBSET Mail
  <2>1. box \in 0 .. MaxNodes
    BY <1>b DEF IInv, TypeOK
  <2>2. todo \in SUBSET Folder
    BY <1>t DEF getSubfolders, IInv, TypeOK
  <2> QED BY <1>h, <2>1, <2>2
<1>3. q \in Tx /\ q.on /\ q.box = box /\ q.todo = todo /\ q.cur = Top /\ q.left = {} /\ q.seen = {} /\ q.had = had
  <2>1. q = Begun(box, todo, had)
    BY <1>q, BegunIs
  <2> QED BY <1>2, <2>1 DEF Begun, Tx
<1> QED BY <1>b, <1>t, <1>h, <1>1, <1>3

LEMMA BeginStep ==
  ASSUME IInv, NEW c \in Client, BeginFetch(c)
  PROVE  IInv'
<1>1. PICK q \in Tx : /\ ~tx[c].on /\ tx' = [tx EXCEPT ![c] = q]
                     /\ q.on /\ q.box = container.no /\ q.todo = getSubfolders(Top) /\ q.cur = Top /\ q.left = {}
  BY BeganAs
<1>2. /\ providers' = getProviders /\ sent' \in 0 .. MaxRequests
      /\ UNCHANGED <<server, remote, uidNext, provNodes, container, folders, store, project>>
  BY EmailAssumption DEF BeginFetch, Request, mailbox, config, IInv, TypeOK
<1>3. q.todo \subseteq folders /\ q.box <= container.no
  BY <1>1, EmailAssumption DEF getSubfolders, IInv, TypeOK
<1>4. \A n \in store : n.owner # c
  BY <1>1 DEF IInv, Boxes
<1>5. OneOK(c, q)
  BY <1>1, <1>3, <1>4 DEF OneOK
<1> QED BY <1>1, <1>2, <1>5, ProvidersOK, ReadStep DEF IInv

LEMMA OpenedAs ==
  ASSUME IInv, NEW c \in Client, OpenFolder(c)
  PROVE  \E f \in Folder : \E q \in Tx :
           /\ tx[c].on /\ tx[c].cur = Top /\ SameBox(c) /\ f \in tx[c].todo /\ tx' = [tx EXCEPT ![c] = q]
           /\ q.todo = tx[c].todo \ {f} /\ q.cur = f /\ q.first = firstUID(f, c)
           /\ q.left = getMessagesByUID(f, firstUID(f, c)) /\ q.on = tx[c].on /\ q.box = tx[c].box
           /\ q.seen = tx[c].seen \cup ({f} \X UIDs(Visible(f, c))) /\ q.had = tx[c].had
           /\ firstUID(f, c) \in Nat
<1>1. PICK f \in tx[c].todo \cap remote :
        tx' = [tx EXCEPT ![c].cur = f, ![c].todo = @ \ {f}, ![c].first = firstUID(f, c),
                         ![c].left = getMessagesByUID(f, firstUID(f, c)),
                         ![c].seen = @ \cup ({f} \X UIDs(Visible(f, c)))]
  BY DEF OpenFolder
<1> DEFINE p == tx[c]
           todo == tx[c].todo \ {f}
           first == firstUID(f, c)
           left == getMessagesByUID(f, first)
           seen == tx[c].seen \cup ({f} \X UIDs(Visible(f, c)))
           q == Fetching(p, todo, f, first, left, seen)
<1>2. p \in Tx /\ p.on /\ p.cur = Top /\ SameBox(c) /\ f \in Folder /\ todo \in SUBSET Folder
  BY DEF OpenFolder, IInv, TypeOK, Tx
<1>3. tx' = [tx EXCEPT ![c] = q]
  BY <1>1 DEF IInv, TypeOK, Fetching
<1>4. left \in SUBSET Nat
  BY <1>2 DEF getMessagesByUID, IInv, TypeOK
<1>5. Visible(f, c) \in SUBSET Node /\ \A n \in Visible(f, c) : n.folder = f /\ n.uid \in 1 .. MaxUID[f]
  BY DEF Visible, Nodes, IInv, TypeOK
<1>6. seen \in SUBSET Mail
  <2>1. \A u \in UIDs(Visible(f, c)) : u \in 1 .. MaxUID[f]
    BY <1>5 DEF UIDs
  <2>2. {f} \X UIDs(Visible(f, c)) \subseteq Mail
    BY <1>2, <2>1 DEF Mail
  <2> QED BY <1>2, <2>2 DEF Tx
<1>7. first \in Nat
  <2>1. CASE Visible(f, c) = {}
    BY <2>1 DEF firstUID
  <2>2. CASE Visible(f, c) # {}
    <3>1. Last(Visible(f, c)).uid \in Nat
      BY <1>5, <2>2, LastOK DEF Node
    <3> QED BY <2>2, <3>1 DEF firstUID
  <2> QED BY <2>1, <2>2
<1> HIDE DEF p, todo, first, left, seen
<1>8. /\ q \in Tx /\ q.todo = todo /\ q.cur = f /\ q.first = first /\ q.left = left /\ q.on = p.on /\ q.box = p.box
      /\ q.seen = seen /\ q.had = p.had
  <2>1. PICK pp, tt, ii, ll, ss : pp = p /\ tt = todo /\ ii = first /\ ll = left /\ ss = seen
    OBVIOUS
  <2>2. pp \in Tx /\ tt \in SUBSET Folder /\ f \in Folder \cup {Top} /\ ii \in Nat /\ ll \in SUBSET Nat /\ ss \in SUBSET Mail
    BY <1>2, <1>4, <1>6, <1>7, <2>1
  <2>3. PICK r : r = Fetching(pp, tt, f, ii, ll, ss)
    OBVIOUS
  <2>4. /\ r \in Tx /\ r.todo = tt /\ r.cur = f /\ r.first = ii /\ r.left = ll /\ r.on = pp.on /\ r.box = pp.box
        /\ r.seen = ss /\ r.had = pp.had
    BY <2>2, <2>3, FetchingOK
  <2> QED BY <2>1, <2>3, <2>4
<1> HIDE DEF q
<1> QED BY <1>1, <1>2, <1>3, <1>7, <1>8 DEF p, todo, first, left, seen

\* What the server answers, and what is stored already, have no gap.
LEMMA Answered ==
  ASSUME IInv, NEW c \in Client, NEW f \in Folder, SameBox(c), NEW u \in server[f], u < firstUID(f, c)
  PROVE  Has(f, c, u)
<1>1. Visible(f, c) \in SUBSET Node /\ \A n \in Visible(f, c) : n \in store /\ n.folder = f /\ n.uid \in 1 .. MaxUID[f]
  BY DEF Visible, Nodes, IInv, TypeOK
<1>2. u \in Nat /\ u >= 1
  BY DEF IInv, TypeOK
<1>3. Visible(f, c) # {}
  BY <1>2 DEF firstUID
<1>4. PICK n \in Visible(f, c) : n = Last(Visible(f, c))
  BY <1>1, <1>3, LastOK
<1>5. n \in store /\ n.folder = f /\ n.uid \in Nat /\ n.owner \in {Nobody, c}
  BY <1>1 DEF Visible
<1>6. u < n.uid \/ u = n.uid
  BY <1>2, <1>3, <1>4, <1>5 DEF firstUID
<1>7. CASE u = n.uid
  BY <1>5, <1>7 DEF Has
<1>8. CASE u < n.uid /\ n.owner = Nobody
  BY <1>5, <1>8 DEF IInv, Gapless, Has
<1>9. CASE u < n.uid /\ n.owner = c
  BY <1>5, <1>9 DEF IInv, NoOwnGap
<1> QED BY <1>5, <1>6, <1>7, <1>8, <1>9

LEMMA OpenStep ==
  ASSUME IInv, NEW c \in Client, OpenFolder(c)
  PROVE  IInv'
<1>1. PICK f \in Folder : \E q \in Tx :
        /\ tx[c].on /\ SameBox(c) /\ f \in tx[c].todo /\ tx' = [tx EXCEPT ![c] = q]
        /\ q.todo = tx[c].todo \ {f} /\ q.cur = f /\ q.first = firstUID(f, c)
        /\ q.left = getMessagesByUID(f, firstUID(f, c)) /\ q.on = tx[c].on /\ q.box = tx[c].box
        /\ firstUID(f, c) \in Nat
  BY OpenedAs
<1>2. PICK q \in Tx :
        /\ tx[c].on /\ SameBox(c) /\ f \in tx[c].todo /\ tx' = [tx EXCEPT ![c] = q]
        /\ q.todo = tx[c].todo \ {f} /\ q.cur = f /\ q.first = firstUID(f, c)
        /\ q.left = getMessagesByUID(f, firstUID(f, c)) /\ q.on = tx[c].on /\ q.box = tx[c].box
        /\ firstUID(f, c) \in Nat
  BY <1>1
<1>3. /\ UNCHANGED <<server, remote, uidNext, provNodes, providers, container, folders, store, project, sent>>
      /\ (providers' = NotLoaded \/ providers' \in SUBSET ProvNode) /\ sent' \in 0 .. MaxRequests
  BY DEF OpenFolder, mailbox, registry, config, IInv, TypeOK
<1>4. f \in folders /\ q.todo \subseteq folders /\ f # Top
  BY <1>2, EmailAssumption DEF IInv, Boxes
<1>5. q.left \subseteq server[f] /\ server[f] \subseteq 1 .. MaxUID[f]
  BY <1>2 DEF getMessagesByUID, IInv, TypeOK
<1>6. \A u \in server[f] : u < q.first => Has(f, c, u)
  BY <1>2, Answered
<1>7. \A u \in server[f] : u \in q.left \/ u < q.first
  BY <1>2, <1>5 DEF getMessagesByUID
<1>8. \A u \in q.left : u < uidNext[f]
  BY <1>5 DEF IInv, Arrivals
<1>9. OneOK(c, tx[c])
  BY OneIs
<1>10. OneOK(c, q)
  BY <1>2, <1>4, <1>5, <1>6, <1>7, <1>8, <1>9 DEF OneOK, Valid
<1> QED BY <1>2, <1>3, <1>10, ReadStep

LEMMA SkippedAs ==
  ASSUME IInv, NEW c \in Client, SkipMessage(c)
  PROVE  \E q \in Tx :
           /\ tx' = [tx EXCEPT ![c] = q] /\ NextLeft(c) \in tx[c].left /\ NextLeft(c) < tx[c].first
           /\ q.todo = tx[c].todo /\ q.cur = tx[c].cur /\ q.first = tx[c].first /\ q.left = tx[c].left \ {NextLeft(c)}
           /\ q.on = tx[c].on /\ q.box = tx[c].box /\ q.seen = tx[c].seen /\ q.had = tx[c].had
<1>p. PICK p : p = tx[c]
  OBVIOUS
<1>l. PICK left : left = p.left \ {NextLeft(c)}
  OBVIOUS
<1>q. PICK q : q = Fetching(p, p.todo, p.cur, p.first, left, p.seen)
  OBVIOUS
<1>1. p \in Tx
  BY <1>p DEF IInv, TypeOK, Tx
<1>2. p.left # {} /\ NextLeft(c) < p.first /\ tx' = [tx EXCEPT ![c].left = left]
  BY <1>p, <1>l DEF SkipMessage
<1>3. NextLeft(c) \in p.left /\ left \in SUBSET Nat
  BY <1>p, <1>l, <1>1, <1>2, NextLeftOK DEF Tx
<1>4. tx' = [tx EXCEPT ![c] = q]
  <2>1. q = [p EXCEPT !.left = left]
    BY <1>1, <1>q DEF Fetching, Tx
  <2> QED BY <1>p, <1>2, <2>1 DEF IInv, TypeOK
<1>5. /\ q \in Tx /\ q.todo = p.todo /\ q.cur = p.cur /\ q.first = p.first /\ q.left = left /\ q.on = p.on /\ q.box = p.box
      /\ q.seen = p.seen /\ q.had = p.had
  <2>1. p.todo \in SUBSET Folder /\ p.cur \in Folder \cup {Top} /\ p.first \in Nat /\ p.seen \in SUBSET Mail
    BY <1>1 DEF Tx
  <2> QED BY <1>1, <1>3, <1>q, <2>1, FetchingOK
<1> QED BY <1>p, <1>l, <1>2, <1>3, <1>4, <1>5

\* What is skipped is stored.
LEMMA SkipStep ==
  ASSUME IInv, NEW c \in Client, SkipMessage(c)
  PROVE  IInv'
<1>1. PICK q \in Tx :
        /\ tx' = [tx EXCEPT ![c] = q] /\ NextLeft(c) \in tx[c].left /\ NextLeft(c) < tx[c].first
        /\ q.todo = tx[c].todo /\ q.cur = tx[c].cur /\ q.first = tx[c].first /\ q.left = tx[c].left \ {NextLeft(c)}
        /\ q.on = tx[c].on /\ q.box = tx[c].box
  BY SkippedAs
<1>2. UNCHANGED <<server, remote, uidNext, provNodes, providers, container, folders, store, project, sent>>
      /\ (providers' = NotLoaded \/ providers' \in SUBSET ProvNode) /\ sent' \in 0 .. MaxRequests
  BY DEF SkipMessage, mailbox, registry, config, IInv, TypeOK
<1>3. OneOK(c, tx[c])
  BY OneIs
<1>4. OneOK(c, q)
  BY <1>1, <1>3 DEF OneOK, Valid
<1> QED BY <1>1, <1>2, <1>4, ReadStep

LEMMA ClosedAs ==
  ASSUME IInv, NEW c \in Client, CloseFolder(c)
  PROVE  \E q \in Tx :
           /\ tx' = [tx EXCEPT ![c] = q] /\ tx[c].cur \in Folder /\ tx[c].left = {}
           /\ q.todo = tx[c].todo \cup getSubfolders(tx[c].cur) /\ q.cur = Top /\ q.first = tx[c].first
           /\ q.left = tx[c].left /\ q.on = tx[c].on /\ q.box = tx[c].box /\ q.seen = tx[c].seen /\ q.had = tx[c].had
<1>p. PICK p : p = tx[c]
  OBVIOUS
<1>t. PICK todo : todo = p.todo \cup getSubfolders(p.cur)
  OBVIOUS
<1>q. PICK q : q = Fetching(p, todo, Top, p.first, p.left, p.seen)
  OBVIOUS
<1>1. p \in Tx
  BY <1>p DEF IInv, TypeOK, Tx
<1>2. p.cur # Top /\ p.left = {} /\ tx' = [tx EXCEPT ![c].cur = Top, ![c].todo = todo]
  BY <1>p, <1>t DEF CloseFolder
<1>3. todo \in SUBSET Folder /\ p.cur \in Folder
  BY <1>t, <1>1, <1>2 DEF Tx, getSubfolders, IInv, TypeOK
<1>4. tx' = [tx EXCEPT ![c] = q]
  <2>1. q = [p EXCEPT !.cur = Top, !.todo = todo]
    BY <1>1, <1>q DEF Fetching, Tx
  <2> QED BY <1>p, <1>2, <2>1 DEF IInv, TypeOK
<1>5. /\ q \in Tx /\ q.todo = todo /\ q.cur = Top /\ q.first = p.first /\ q.left = p.left /\ q.on = p.on /\ q.box = p.box
      /\ q.seen = p.seen /\ q.had = p.had
  <2>1. Top \in Folder \cup {Top} /\ p.first \in Nat /\ p.left \in SUBSET Nat /\ p.seen \in SUBSET Mail
    BY <1>1 DEF Tx
  <2> QED BY <1>1, <1>3, <1>q, <2>1, FetchingOK
<1> QED BY <1>p, <1>t, <1>2, <1>3, <1>4, <1>5

LEMMA CloseStep ==
  ASSUME IInv, NEW c \in Client, CloseFolder(c)
  PROVE  IInv'
<1>1. PICK q \in Tx :
        /\ tx' = [tx EXCEPT ![c] = q] /\ tx[c].cur \in Folder /\ tx[c].left = {}
        /\ q.todo = tx[c].todo \cup getSubfolders(tx[c].cur) /\ q.cur = Top /\ q.first = tx[c].first
        /\ q.left = tx[c].left /\ q.on = tx[c].on /\ q.box = tx[c].box
  BY ClosedAs
<1>2. UNCHANGED <<server, remote, uidNext, provNodes, providers, container, folders, store, project, sent>>
      /\ (providers' = NotLoaded \/ providers' \in SUBSET ProvNode) /\ sent' \in 0 .. MaxRequests
  BY DEF CloseFolder, mailbox, registry, config, IInv, TypeOK
<1>3. OneOK(c, tx[c]) /\ tx[c].cur # Top
  BY <1>1, OneIs, EmailAssumption
<1>4. getSubfolders(tx[c].cur) \subseteq folders
  BY DEF getSubfolders
<1>5. OneOK(c, q)
  BY <1>1, <1>3, <1>4 DEF OneOK, Valid
<1> QED BY <1>1, <1>2, <1>5, ReadStep

LEMMA StoredAs ==
  ASSUME IInv, NEW c \in Client, FetchMessage(c)
  PROVE  \E q \in Tx, new \in Node :
           /\ tx' = [tx EXCEPT ![c] = q] /\ tx[c].cur \in Folder /\ SameBox(c)
           /\ NextLeft(c) \in tx[c].left /\ \A v \in tx[c].left : NextLeft(c) <= v
           /\ NextLeft(c) \in Nat /\ NextLeft(c) >= tx[c].first
           /\ q.todo = tx[c].todo /\ q.cur = tx[c].cur /\ q.first = tx[c].first /\ q.left = tx[c].left \ {NextLeft(c)}
           /\ q.on = tx[c].on /\ q.box = tx[c].box /\ q.seen = tx[c].seen /\ q.had = tx[c].had
           /\ new.folder = tx[c].cur /\ new.uid = NextLeft(c) /\ new.owner = c /\ store' = store \cup {new}
           /\ \A n \in Nodes(tx[c].cur) : n.at < new.at
<1>p. PICK p : p = tx[c]
  OBVIOUS
<1>u. PICK u : u = NextLeft(c)
  OBVIOUS
<1>l. PICK left : left = p.left \ {u}
  OBVIOUS
<1>q. PICK q : q = Fetching(p, p.todo, p.cur, p.first, left, p.seen)
  OBVIOUS
<1>a. PICK at : at = IF Nodes(p.cur) = {} THEN 1 ELSE Last(Nodes(p.cur)).at + 1
  OBVIOUS
<1>n. PICK new : new = [folder |-> p.cur, uid |-> u, owner |-> c, at |-> at]
  OBVIOUS
<1>1. p \in Tx
  BY <1>p DEF IInv, TypeOK, Tx
<1>2. /\ p.left # {} /\ SameBox(c) /\ tx' = [tx EXCEPT ![c].left = left] /\ u >= p.first
      /\ at <= MaxStored /\ store' = store \cup {new}
  BY <1>p, <1>u, <1>l, <1>a, <1>n DEF FetchMessage, newMessage
<1>3. u \in p.left /\ (\A v \in p.left : u <= v) /\ u \in Nat /\ left \in SUBSET Nat
  <2>1. p.left \subseteq Nat
    BY <1>1 DEF Tx
  <2> QED BY <1>p, <1>u, <1>l, <1>2, <2>1, NextLeftOK
<1>4. p.cur \in Folder
  BY <1>p, <1>1, <1>2 DEF Tx, IInv, Boxes
<1>5. tx' = [tx EXCEPT ![c] = q]
  <2>1. q = [p EXCEPT !.left = left]
    BY <1>1, <1>q DEF Fetching, Tx
  <2> QED BY <1>p, <1>2, <2>1 DEF IInv, TypeOK
<1>6. at \in 1 .. MaxStored /\ \A n \in Nodes(p.cur) : n.at < at
  <2>1. Nodes(p.cur) \in SUBSET Node
    BY DEF Nodes, IInv, TypeOK
  <2>2. CASE Nodes(p.cur) = {}
    BY <1>a, <1>2, <2>2, EmailAssumption
  <2>3. CASE Nodes(p.cur) # {}
    <3>1. Last(Nodes(p.cur)) \in Node /\ \A n \in Nodes(p.cur) : n.at <= Last(Nodes(p.cur)).at
      BY <2>1, <2>3, LastOK
    <3>2. Last(Nodes(p.cur)).at \in 1 .. MaxStored /\ MaxStored \in Nat /\ \A n \in Nodes(p.cur) : n.at \in Nat
      BY <2>1, <3>1, EmailAssumption DEF Node
    <3>3. at = Last(Nodes(p.cur)).at + 1
      BY <1>a, <2>3
    <3>4. PICK k : k = Last(Nodes(p.cur)).at
      OBVIOUS
    <3> QED BY <1>2, <3>1, <3>2, <3>3, <3>4
  <2> QED BY <2>2, <2>3
<1>7. new \in Node /\ new.folder = p.cur /\ new.uid = u /\ new.owner = c /\ new.at = at
  BY <1>n, <1>3, <1>4, <1>6 DEF Node
<1>8. /\ q \in Tx /\ q.todo = p.todo /\ q.cur = p.cur /\ q.first = p.first /\ q.left = left /\ q.on = p.on /\ q.box = p.box
      /\ q.seen = p.seen /\ q.had = p.had
  <2>1. p.todo \in SUBSET Folder /\ p.cur \in Folder \cup {Top} /\ p.first \in Nat /\ p.seen \in SUBSET Mail
    BY <1>1 DEF Tx
  <2> QED BY <1>1, <1>3, <1>q, <2>1, FetchingOK
<1> QED BY <1>p, <1>u, <1>l, <1>2, <1>3, <1>4, <1>5, <1>6, <1>7, <1>8

\* The oldest message of the answer: what is older is stored.
LEMMA MessageStep ==
  ASSUME IInv, NEW c \in Client, FetchMessage(c)
  PROVE  IInv'
<1>p. PICK p : p = tx[c]
  OBVIOUS
<1>u. PICK u : u = NextLeft(c)
  OBVIOUS
<1>f. PICK f : f = p.cur
  OBVIOUS
<1>s. \E q \in Tx, new \in Node :
        /\ tx' = [tx EXCEPT ![c] = q] /\ f \in Folder /\ SameBox(c)
        /\ u \in p.left /\ (\A v \in p.left : u <= v) /\ u \in Nat
        /\ q.todo = p.todo /\ q.cur = f /\ q.first = p.first /\ q.left = p.left \ {u} /\ q.on = p.on /\ q.box = p.box
        /\ new.folder = f /\ new.uid = u /\ new.owner = c /\ store' = store \cup {new}
  BY <1>p, <1>u, <1>f, StoredAs
<1>q. PICK q \in Tx, new \in Node :
        /\ tx' = [tx EXCEPT ![c] = q] /\ f \in Folder /\ SameBox(c)
        /\ u \in p.left /\ (\A v \in p.left : u <= v) /\ u \in Nat
        /\ q.todo = p.todo /\ q.cur = f /\ q.first = p.first /\ q.left = p.left \ {u} /\ q.on = p.on /\ q.box = p.box
        /\ new.folder = f /\ new.uid = u /\ new.owner = c /\ store' = store \cup {new}
  BY <1>s
<1>l. PICK left : left = p.left \ {u}
  OBVIOUS
<1>1. /\ p = tx[c] /\ OneOK(c, p) /\ Valid(p) /\ p.on /\ p.cur = f /\ p.left = left \cup {u} /\ u \notin left
      /\ f \in Folder /\ f \in folders /\ f # Top
      /\ u \in 1 .. MaxUID[f] /\ u \in Nat /\ u < uidNext[f] /\ \A v \in p.left : u <= v
      /\ q \in Tx /\ q.todo = p.todo /\ q.cur = p.cur /\ q.first = p.first /\ q.left = left /\ q.on = p.on /\ q.box = p.box
      /\ tx' = [tx EXCEPT ![c] = q]
      /\ new \in Node /\ new.folder = f /\ new.uid = u /\ new.owner = c /\ store' = store \cup {new}
  <2>1. OneOK(c, p) /\ Valid(p) /\ f # Top
    BY <1>p, <1>q, OneIs, EmailAssumption DEF SameBox, Valid
  <2>2. f \in folders /\ p.on /\ u \in 1 .. MaxUID[f] /\ u < uidNext[f]
    BY <1>f, <1>q, <2>1, EmailAssumption DEF OneOK
  <2> QED BY <1>p, <1>f, <1>q, <1>l, <2>1, <2>2
<1>2. UNCHANGED <<server, remote, uidNext, provNodes, providers, container, folders, project, sent>>
      /\ (providers' = NotLoaded \/ providers' \in SUBSET ProvNode) /\ sent' \in 0 .. MaxRequests
      /\ project' \in [Mail -> Nat]
  BY DEF FetchMessage, mailbox, registry, config, IInv, TypeOK
<1>3. store \subseteq Node /\ store' \subseteq Node /\ IsFiniteSet(store')
  BY <1>1, FS_AddElement DEF IInv, TypeOK
<1>4. /\ \A n \in store' : n.folder \in folders /\ n.uid \in 1 .. MaxUID[n.folder] /\ n.uid < uidNext[n.folder]
      /\ \A n \in store' : n.owner \notin {c, Nobody} => n \in store
      /\ \A n \in store : n \in store'
      /\ \A n \in store' : n.owner = Nobody => n \in store
  BY <1>1, EmailAssumption DEF IInv, TypeOK, Arrivals
<1>5. \A g, d, v : Has(g, d, v) => Has(g, d, v)'
  BY <1>4 DEF Has
<1>6. Has(f, c, u)'
  BY <1>1 DEF Has
<1>7. Gapless'
  BY <1>2, <1>4, <1>5 DEF IInv, Gapless
<1>8. ProjectHasStored'
  BY <1>2, <1>4, SameProject DEF IInv
<1>9. \A n \in store' : \A v \in server'[n.folder] : n.owner = c /\ v < n.uid => Has(n.folder, c, v)'
  <2> SUFFICES ASSUME NEW n \in store', NEW v \in server[n.folder], n.owner = c, v < n.uid
               PROVE  Has(n.folder, c, v)'
    BY <1>2
  <2>1. CASE n \in store
    BY <1>1, <1>5, <2>1 DEF OneOK
  <2>2. CASE n = new
    <3>1. v \in server[f] /\ v < u
      BY <1>1, <2>2
    <3>2. v \notin p.left
      <4>1. v \in Nat
        BY <1>1, <3>1 DEF IInv, TypeOK
      <4> QED BY <1>1, <3>1, <4>1
    <3>3. Has(f, c, v)
      BY <1>1, <3>1, <3>2 DEF OneOK
    <3> QED BY <1>1, <1>5, <2>2, <3>3
  <2> QED BY <1>1, <2>1, <2>2
<1>10. OneOK(c, q)'
  <2>1. \A v \in server[f] : /\ (\E w \in left : v < w) => v \in left \/ Has(f, c, v)'
                             /\ v \in left /\ v < p.first => Has(f, c, v)'
    BY <1>1, <1>5, <1>6 DEF OneOK
  <2>2. \A n \in store' : n.owner = c => q.on /\ Valid(q)'
    BY <1>1, <1>2 DEF Valid
  <2> QED BY <1>1, <1>2, <1>9, <2>1, <2>2 DEF OneOK, Valid
<1> QED BY <1>1, <1>2, <1>3, <1>4, <1>7, <1>8, <1>10, ClientStep

\* A committed node belongs to nobody.
Freed(n, c) == IF n.owner = c THEN [n EXCEPT !.owner = Nobody] ELSE n

LEMMA FreedOK ==
  ASSUME NEW n \in Node, NEW c \in Client
  PROVE  /\ Freed(n, c) \in Node /\ Freed(n, c).folder = n.folder /\ Freed(n, c).uid = n.uid
         /\ Freed(n, c).owner = IF n.owner = c THEN Nobody ELSE n.owner
         /\ n.owner # c => Freed(n, c) = n
BY DEF Freed, Node

LEMMA FreedFinite ==
  ASSUME NEW S, IsFiniteSet(S), NEW c
  PROVE  LET T == {Freed(n, c) : n \in S} IN IsFiniteSet(T) /\ Cardinality(T) <= Cardinality(S)
<1> DEFINE T == {Freed(n, c) : n \in S}
           g == [n \in S |-> Freed(n, c)]
<1>1. g \in [S -> T] /\ \A t \in T : \E n \in S : g[n] = t
  OBVIOUS
<1>2. g \in Surjection(S, T)
  BY <1>1, Fun_IsSurj
<1> QED BY <1>2, FS_Surjection

LEMMA Sums ==
  ASSUME NEW k \in Nat, NEW a \in Nat, NEW b \in Nat, NEW d \in Nat, NEW p \in Nat, d <= a + b, k * a <= p
  PROVE  k * d <= p + b * k
<1>1. k * d <= k * (a + b)
  <2>1. PICK e \in Nat : a + b = d + e
    <3>1. a + b - d \in Nat /\ a + b = d + (a + b - d)
      OBVIOUS
    <3> QED BY <3>1
  <2>2. k * (d + e) = k * d + k * e
    OBVIOUS
  <2>3. k * e \in Nat /\ k * d \in Nat
    OBVIOUS
  <2> QED BY <2>1, <2>2, <2>3
<1>2. k * (a + b) = k * a + b * k
  OBVIOUS
<1>3. k * d \in Nat /\ k * a \in Nat /\ b * k \in Nat
  OBVIOUS
<1> QED BY <1>1, <1>2, <1>3

\* What the fetch has made becomes visible, and the project gets it.
LEMMA CommitStep ==
  ASSUME IInv, NEW c \in Client, CommitFetch(c)
  PROVE  IInv'
<1>q. PICK q : q = NoFetch
  OBVIOUS
<1>1. /\ SameBox(c) /\ store' = {Freed(n, c) : n \in store} /\ project' = onNewMessageReceived(c)
      /\ tx' = [tx EXCEPT ![c] = q]
      /\ UNCHANGED <<server, remote, uidNext, provNodes, providers, container, folders, sent>>
      /\ (providers' = NotLoaded \/ providers' \in SUBSET ProvNode) /\ sent' \in 0 .. MaxRequests
  BY <1>q DEF CommitFetch, Freed, mailbox, registry, config, IInv, TypeOK
<1>2. q \in Tx /\ q.on = FALSE /\ q.cur = Top /\ q.left = {} /\ q.todo = {} /\ q.box = 0
  BY <1>q, NoFetchOK
<1>3. store \subseteq Node /\ IsFiniteSet(store) /\ c # Nobody
  BY EmailAssumption DEF IInv, TypeOK
<1>4. \A n \in store : /\ Freed(n, c) \in Node /\ Freed(n, c).folder = n.folder /\ Freed(n, c).uid = n.uid
                       /\ Freed(n, c).owner = IF n.owner = c THEN Nobody ELSE n.owner
                       /\ n.owner # c => Freed(n, c) = n
  BY <1>3, FreedOK
<1>5. store' \subseteq Node /\ IsFiniteSet(store')
  BY <1>1, <1>3, <1>4, FreedFinite
<1>6. /\ \A n \in store' : n.owner # c
      /\ \A n \in store' : n.folder \in folders /\ n.uid \in 1 .. MaxUID[n.folder] /\ n.uid < uidNext[n.folder]
      /\ \A n \in store' : n.owner \notin {c, Nobody} => n \in store
      /\ \A n \in store : n.owner # c => n \in store'
  <2> SUFFICES ASSUME NEW n \in store
               PROVE  LET r == Freed(n, c) IN
                      /\ r.owner # c /\ r.folder \in folders /\ r.uid \in 1 .. MaxUID[r.folder] /\ r.uid < uidNext[r.folder]
                      /\ r.owner \notin {c, Nobody} => r \in store
                      /\ n.owner # c => n \in store'
    BY <1>1
  <2>1. n.folder \in folders /\ n.uid \in 1 .. MaxUID[n.folder] /\ n.uid < uidNext[n.folder]
    BY DEF IInv, TypeOK, Arrivals
  <2>2. n.owner # c => n \in store'
    BY <1>1, <1>4
  <2> QED BY <1>3, <1>4, <2>1, <2>2
<1>7. Gapless'
  <2>1. \A f, u : Has(f, c, u) => Has(f, Nobody, u)'
    <3> SUFFICES ASSUME NEW n \in store, n.owner \in {Nobody, c}
                 PROVE  \E r \in store' : r.folder = n.folder /\ r.uid = n.uid /\ r.owner \in {Nobody, Nobody}
      BY DEF Has
    <3>1. Freed(n, c) \in store'
      BY <1>1
    <3> QED BY <1>4, <3>1
  <2>2. \A f, u : Has(f, Nobody, u) => Has(f, c, u)
    BY DEF Has
  <2> SUFFICES ASSUME NEW n \in store, NEW u \in server[n.folder], n.owner \in {Nobody, c}, u < n.uid
               PROVE  Has(n.folder, Nobody, u)'
    BY <1>1, <1>4 DEF Gapless
  <2>3. CASE n.owner = Nobody
    BY <2>1, <2>2, <2>3 DEF IInv, Gapless
  <2>4. CASE n.owner = c
    BY <1>1, <2>1, <2>4 DEF IInv, NoOwnGap
  <2> QED BY <2>3, <2>4
<1>8. OneOK(c, q)'
  <2>1. 0 <= container'.no
    BY <1>1, EmailAssumption DEF IInv, TypeOK
  <2> QED BY <1>2, <1>6, <2>1 DEF OneOK
<1>9. /\ project \in [Mail -> Nat] /\ contacts \in [Mail -> Nat]
      /\ \A m \in Mail : Cardinality(Made(c, m)) \in Nat
      /\ project' = [m \in Mail |-> project[m] + Cardinality(Made(c, m)) * contacts[m]]
  <2>1. ASSUME NEW m \in Mail PROVE Cardinality(Made(c, m)) \in Nat
    <3>1. Made(c, m) \subseteq store
      BY DEF Made, Nodes
    <3> QED BY <1>3, <3>1, FS_Subset, FS_CardinalityType
  <2> QED BY <1>1, <2>1, EmailAssumption DEF onNewMessageReceived, IInv, TypeOK
<1>10. project' \in [Mail -> Nat]
  <2>1. \A m \in Mail : project[m] + Cardinality(Made(c, m)) * contacts[m] \in Nat
    BY <1>9
  <2> QED BY <1>9, <2>1
<1>11. ProjectHasStored'
  <2> SUFFICES ASSUME NEW m \in Mail
               PROVE  contacts[m] * Cardinality({n \in Visible(m[1], Nobody)' : n.uid = m[2]}) <= project'[m]
    BY DEF ProjectHasStored
  <2>v. PICK V : V = {n \in Visible(m[1], Nobody) : n.uid = m[2]}
    OBVIOUS
  <2>x. PICK X : X = {n \in Visible(m[1], Nobody)' : n.uid = m[2]}
    OBVIOUS
  <2>w. PICK W : W = Made(c, m)
    OBVIOUS
  <2> DEFINE F == {Freed(n, c) : n \in W}
  <2>1. IsFiniteSet(V) /\ IsFiniteSet(W)
    BY <1>3, <2>v, <2>w, FS_Subset DEF Visible, Made, Nodes
  <2>2. X \subseteq V \cup F
    <3> SUFFICES ASSUME NEW n \in store, Freed(n, c).folder = m[1], Freed(n, c).uid = m[2], Freed(n, c).owner = Nobody
                 PROVE  Freed(n, c) \in V \cup F
      BY <1>1, <2>x DEF Visible, Nodes
    <3>1. CASE n.owner = c
      BY <1>4, <2>w, <3>1 DEF Made, Nodes
    <3>2. CASE n.owner # c
      BY <1>4, <2>v, <3>2 DEF Visible, Nodes
    <3> QED BY <3>1, <3>2
  <2>3. IsFiniteSet(F) /\ Cardinality(F) <= Cardinality(W)
    BY <2>1, FreedFinite
  <2> HIDE DEF F
  <2>4. IsFiniteSet(V \cup F) /\ Cardinality(V \cup F) = Cardinality(V) + Cardinality(F) - Cardinality(V \cap F)
        /\ IsFiniteSet(V \cap F)
    BY <2>1, <2>3, FS_Union, FS_Intersection
  <2>5. IsFiniteSet(X) /\ Cardinality(X) <= Cardinality(V \cup F)
    BY <2>2, <2>4, FS_Subset
  <2>6. /\ Cardinality(X) \in Nat /\ Cardinality(V) \in Nat /\ Cardinality(F) \in Nat /\ Cardinality(W) \in Nat
        /\ Cardinality(V \cap F) \in Nat /\ Cardinality(V \cup F) \in Nat
    BY <2>1, <2>3, <2>4, <2>5, FS_CardinalityType
  <2>7. Cardinality(X) <= Cardinality(V) + Cardinality(W)
    BY <2>3, <2>4, <2>5, <2>6
  <2>8. contacts[m] * Cardinality(V) <= project[m] /\ contacts[m] \in Nat /\ project[m] \in Nat
    BY <1>9, <2>v DEF IInv, ProjectHasStored
  <2>9. project'[m] = project[m] + Cardinality(W) * contacts[m]
    BY <1>9, <2>w
  <2> QED BY <2>6, <2>7, <2>8, <2>9, <2>x, Sums
<1> QED BY <1>1, <1>2, <1>5, <1>6, <1>7, <1>8, <1>10, <1>11, ClientStep

\* What is rolled back leaves nothing.
LEMMA AbortStep ==
  ASSUME IInv, NEW c \in Client, AbortFetch(c)
  PROVE  IInv'
<1>q. PICK q : q = NoFetch
  OBVIOUS
<1>1. /\ store' = {n \in store : n.owner # c} /\ project' = project /\ tx' = [tx EXCEPT ![c] = q]
      /\ UNCHANGED <<server, remote, uidNext, provNodes, providers, container, folders, sent>>
      /\ (providers' = NotLoaded \/ providers' \in SUBSET ProvNode) /\ sent' \in 0 .. MaxRequests
      /\ project' \in [Mail -> Nat]
  BY <1>q DEF AbortFetch, mailbox, registry, config, IInv, TypeOK
<1>2. q \in Tx /\ q.on = FALSE /\ q.cur = Top /\ q.left = {} /\ q.todo = {} /\ q.box = 0
  BY <1>q, NoFetchOK
<1>3. store' \subseteq Node /\ IsFiniteSet(store') /\ c # Nobody
  BY <1>1, FS_Subset, EmailAssumption DEF IInv, TypeOK
<1>4. \A n \in store' : n.folder \in folders /\ n.uid \in 1 .. MaxUID[n.folder] /\ n.uid < uidNext[n.folder]
  BY <1>1 DEF IInv, TypeOK, Arrivals
<1>5. Gapless'
  <2>1. \A f, u : Has(f, Nobody, u) => Has(f, Nobody, u)'
    BY <1>1, <1>3 DEF Has
  <2> QED BY <1>1, <2>1 DEF IInv, Gapless
<1>6. OneOK(c, q)'
  <2>1. 0 <= container'.no
    BY <1>1, EmailAssumption DEF IInv, TypeOK
  <2> QED BY <1>1, <1>2, <2>1 DEF OneOK
<1>7. ProjectHasStored'
  BY <1>1, <1>3, SameProject DEF IInv
<1> QED BY <1>1, <1>2, <1>3, <1>4, <1>5, <1>6, <1>7, ClientStep

LEMMA RestartStep ==
  ASSUME IInv, Restart
  PROVE  IInv'
<1>1. /\ store' = {n \in store : n.owner = Nobody} /\ tx' = [c \in Client |-> NoFetch] /\ providers' = NotLoaded
      /\ UNCHANGED <<server, remote, uidNext, provNodes, container, folders, project, sent>>
  BY DEF Restart, mailbox, config
<1>2. tx' \in [Client -> Tx]
  BY <1>1, NoFetchOK
<1>3. \A c \in Client : tx'[c].on = FALSE /\ tx'[c].cur = Top /\ tx'[c].left = {} /\ tx'[c].todo = {} /\ tx'[c].box = 0
  BY <1>1, NoFetchOK
<1>4. TypeOK' /\ IsFiniteSet(store')
  BY <1>1, <1>2, FS_Subset DEF IInv, TypeOK, Tx
<1>5. Arrivals'
  BY <1>1, <1>3 DEF IInv, Arrivals
<1>6. Boxes'
  <2>1. container'.no \in Nat
    BY <1>1, EmailAssumption DEF IInv, TypeOK
  <2> QED BY <1>1, <1>3, <2>1, EmailAssumption DEF Boxes
<1>7. Gapless' /\ NoOwnGap' /\ Asked'
  <2>1. \A f, u : Has(f, Nobody, u) => Has(f, Nobody, u)'
    BY <1>1 DEF Has
  <2> QED BY <1>1, <1>3, <2>1, EmailAssumption DEF IInv, Gapless, NoOwnGap, Asked
<1>8. ProjectHasStored'
  BY <1>1, SameProject DEF IInv
<1> QED BY <1>4, <1>5, <1>6, <1>7, <1>8 DEF IInv

LEMMA NextIInv == IInv /\ [Next]_vars => IInv'
<1> SUFFICES ASSUME IInv, [Next]_vars PROVE IInv'
  OBVIOUS
<1>1. CASE UNCHANGED vars
  <2>1. TypeOK'
    BY <1>1 DEF vars, IInv, TypeOK
  <2>2. container.no <= container'.no
    BY <1>1, EmailAssumption DEF vars, IInv, TypeOK
  <2> QED BY <1>1, <2>1, <2>2, QuietStep DEF vars, SameBox
<1>2. CASE Next
  <2>1. CASE \/ AskProviders \/ clearProviders
             \/ \E id \in Provider, commits \in BOOLEAN : addProvider(id, commits) \/ removeProvider(id, commits)
    BY <2>1, ProviderStep
  <2>2. CASE (\E id \in Provider : configure(id)) \/ fetchFolderList
    BY <2>2, ConfigureStep
  <2>3. CASE dropConfiguration
    BY <2>3, DropStep
  <2>4. CASE \E c \in Client : Fetch(c)
    BY <2>4, BeginStep, OpenStep, SkipStep, MessageStep, CloseStep, CommitStep, AbortStep DEF Fetch
  <2>5. CASE \E f \in Folder : Arrive(f) \/ Expunge(f) \/ ChangeFolders(f)
    BY <2>5, MailboxStep
  <2>6. CASE Restart
    BY <2>6, RestartStep
  <2> QED BY <1>2, <2>1, <2>2, <2>3, <2>4, <2>5, <2>6 DEF Next
<1> QED BY <1>1, <1>2

-----------------------------------------------------------------------------
(* The folders above a folder.                                             *)

\* The folders above f, f itself among them, and the default folder.
Up(f) ==
  {g \in Folder \cup {Top} :
     \A S \in SUBSET (Folder \cup {Top}) : f \in S /\ (\A h \in S \cap Folder : parent[h] \in S) => g \in S}

LEMMA UpLeast ==
  ASSUME NEW f, NEW S \in SUBSET (Folder \cup {Top}), f \in S, \A h \in S \cap Folder : parent[h] \in S
  PROVE  Up(f) \subseteq S
BY DEF Up

LEMMA UpClosed ==
  ASSUME NEW f \in Folder \cup {Top}
  PROVE  f \in Up(f) /\ Up(f) \subseteq Folder \cup {Top} /\ \A h \in Up(f) \cap Folder : parent[h] \in Up(f)
BY EmailAssumption DEF Up

LEMMA UpWithin ==
  ASSUME NEW f \in Folder \cup {Top}, NEW g \in Up(f)
  PROVE  Up(g) \subseteq Up(f)
<1>1. Up(f) \in SUBSET (Folder \cup {Top}) /\ \A h \in Up(f) \cap Folder : parent[h] \in Up(f)
  BY UpClosed
<1> QED BY <1>1, UpLeast

LEMMA UpTop == Up(Top) = {Top}
<1>1. PICK S : S = {Top}
  OBVIOUS
<1>2. S \in SUBSET (Folder \cup {Top}) /\ Top \in S /\ \A h \in S \cap Folder : parent[h] \in S
  BY <1>1, EmailAssumption
<1>3. Up(Top) \subseteq S
  BY <1>2, UpLeast
<1> QED BY <1>1, <1>3, UpClosed

LEMMA UpParent ==
  ASSUME NEW f \in Folder
  PROVE  parent[f] \in Up(f) /\ Up(f) = {f} \cup Up(parent[f])
<1>1. f \in Up(f) /\ parent[f] \in Up(f) /\ parent[f] \in Folder \cup {Top}
  BY UpClosed, EmailAssumption
<1>2. Up(parent[f]) \subseteq Up(f)
  BY <1>1, UpWithin
<1>3. Up(f) \subseteq {f} \cup Up(parent[f])
  <2> DEFINE S == {f} \cup Up(parent[f])
  <2>1. S \in SUBSET (Folder \cup {Top}) /\ \A h \in S \cap Folder : parent[h] \in S
    BY <1>1, UpClosed
  <2> QED BY <2>1, UpLeast
<1> QED BY <1>1, <1>2, <1>3

\* A folder is not above its own parent.
LEMMA NotAboveParent ==
  ASSUME NEW f \in Folder
  PROVE  f \notin Up(parent[f])
<1> SUFFICES ASSUME f \in Up(parent[f]) PROVE FALSE
  OBVIOUS
<1> DEFINE S == {h \in Folder : f \in Up(parent[h])}
<1>1. ASSUME NEW h \in S PROVE parent[h] \in S
  <2>1. f \in Up(parent[h]) /\ f # Top /\ parent[h] \in Folder \cup {Top}
    BY EmailAssumption
  <2>2. parent[h] \in Folder
    BY <2>1, UpTop
  <2> QED BY <2>1, <2>2, UpParent
<1>2. f \in S /\ S \in SUBSET Folder
  OBVIOUS
<1> QED BY <1>1, <1>2, EmailAssumption

\* Every folder is below a folder of the first level.
LEMMA FirstLevel ==
  ASSUME NEW f \in Folder
  PROVE  \E x \in Up(f) \cap Folder : parent[x] = Top
<1> SUFFICES ASSUME \A x \in Up(f) \cap Folder : parent[x] # Top PROVE FALSE
  OBVIOUS
<1>1. \A h \in Up(f) \cap Folder : parent[h] \in Up(f) \cap Folder
  BY UpClosed
<1>2. f \in Up(f) \cap Folder
  BY UpClosed
<1> QED BY <1>1, <1>2, EmailAssumption

\* What is above f has a child that is above f, too, if it is not f.
LEMMA ChildAbove ==
  ASSUME NEW f \in Folder, NEW g \in Up(f), g # f
  PROVE  \E k \in Up(f) \cap Folder : parent[k] = g
<1> DEFINE S == {f} \cup {parent[k] : k \in Up(f) \cap Folder}
<1>1. S \subseteq Up(f)
  BY UpClosed
<1>2. S \in SUBSET (Folder \cup {Top}) /\ f \in S /\ \A h \in S \cap Folder : parent[h] \in S
  BY <1>1, UpClosed
<1>3. g \in S
  BY <1>2, UpLeast
<1> QED BY <1>3

\* What the recursion of above adds up is the folders above, at least.
LEMMA AboveHasUp ==
  ASSUME NEW f \in Folder
  PROVE  Up(f) \cap Folder \subseteq above[f]
<1> DEFINE body(a) == [g \in Folder |-> {g} \cup IF parent[g] = Top THEN {} ELSE a[parent[g]]]
<1>1. \E a : a = body(a)
  <2> DEFINE a == [g \in Folder |-> Up(g) \cap Folder]
  <2>1. ASSUME NEW g \in Folder
        PROVE  a[g] = {g} \cup IF parent[g] = Top THEN {} ELSE a[parent[g]]
    <3>1. Up(g) = {g} \cup Up(parent[g]) /\ parent[g] \in Folder \cup {Top}
      BY UpParent, EmailAssumption
    <3>2. CASE parent[g] = Top
      BY <3>1, <3>2, UpTop, EmailAssumption
    <3>3. CASE parent[g] # Top
      BY <3>1, <3>3
    <3> QED BY <3>2, <3>3
  <2>2. a = body(a)
    BY <2>1
  <2> QED BY <2>2
<1>2. above = body(above)
  BY <1>1 DEF above
<1>3. \A g \in Folder : above[g] = {g} \cup IF parent[g] = Top THEN {} ELSE above[parent[g]]
  BY <1>2
<1> DEFINE S == {Top} \cup {h \in Folder : above[h] \subseteq above[f]}
<1>4. S \in SUBSET (Folder \cup {Top}) /\ f \in S
  OBVIOUS
<1>5. ASSUME NEW h \in S \cap Folder PROVE parent[h] \in S
  <2>1. h \in Folder /\ above[h] \subseteq above[f] /\ parent[h] \in Folder \cup {Top}
    BY EmailAssumption
  <2>2. CASE parent[h] = Top
    BY <2>2
  <2>3. CASE parent[h] # Top
    BY <1>3, <2>1, <2>3
  <2> QED BY <2>2, <2>3
<1> HIDE DEF S
<1>6. Up(f) \subseteq S
  BY <1>4, <1>5, UpLeast
<1>7. \A h \in S \cap Folder : above[h] \subseteq above[f]
  BY EmailAssumption DEF S
<1>8. \A h \in Folder : h \in above[h]
  BY <1>3
<1> QED BY <1>6, <1>7, <1>8

-----------------------------------------------------------------------------
(* The tour of a fetch through the folders.                                *)

Working(q) == q.todo \cup ({q.cur} \ {Top})

\* What q will come to: a message it has still to read, or one of a folder below those it will open.
Ahead(q, m) ==
  \/ m[1] = q.cur /\ m[2] \in q.left
  \/ \E x \in q.todo : x \in Up(m[1])
  \/ q.cur \in Up(m[1]) \ {m[1], Top}

\* A node that c has stored of the message m.
Own(c, m) == \E n \in store : n.folder = m[1] /\ n.uid = m[2] /\ n.owner = c

\* The fetch q of c gets to every folder once, and behind what is stored there.
Once(c, q) ==
  /\ ~q.on => q.todo = {} /\ q.seen = {} /\ q.had = {}
  /\ q.cur \notin q.todo
  /\ \A x, y \in Working(q) : x # y => x \notin Up(y)
  /\ \A n \in store : \A x \in Working(q) : n.owner = c /\ x \in Up(n.folder) => x = q.cur /\ n.folder = x
Behind(c, q) ==
  Valid(q) => \A m \in q.seen :
    /\ Has(m[1], Nobody, m[2])
    /\ InOrder(m[1]) => ~Own(c, m)
    /\ InOrder(m[1]) /\ m[1] = q.cur => m[2] < q.first
\* What the server had when q began, and still has, is stored or will be read.
Covers(c, q) ==
  Valid(q) => \A m \in q.had :
    /\ m[1] \in folders /\ Up(m[1]) \cap Inactive = {} /\ m[2] < uidNext[m[1]]
    /\ m[2] \in server[m[1]] => Has(m[1], c, m[2]) \/ Ahead(q, m)

\* Nodes of a folder have places of their own, and every folder is known with those above it.
Places == \A m, n \in store : m.folder = n.folder /\ m.at = n.at => m = n
Trees ==
  /\ \A f \in remote : parent[f] \in remote \cup {Top}
  /\ \A f \in folders : parent[f] \in folders \cup {Top}

Tour(c, q) == Once(c, q) /\ Behind(c, q) /\ Covers(c, q)
JInv == IInv /\ Places /\ Trees /\ \A c \in Client : Tour(c, tx[c])

\* A fetch that has not begun.
LEMMA NoTour ==
  ASSUME NEW c, NEW q, q.todo = {}, q.cur = Top, q.seen = {}, q.had = {}
  PROVE  Tour(c, q)
<1>1. Working(q) = {}
  BY DEF Working
<1> QED BY <1>1 DEF Tour, Once, Behind, Covers

\* More nodes are in order only if fewer are.
LEMMA InOrderBefore ==
  ASSUME NEW f, InOrder(f)', \A n \in store : n.owner = Nobody => n \in store'
  PROVE  InOrder(f)
BY DEF InOrder, Visible, Nodes

\* Steps of others, of the server and of the configuration do not disturb a fetch.
LEMMA Undisturbed ==
  ASSUME NEW c \in Client, NEW q \in Tx, Tour(c, q), TypeOK,
         \A n \in store' : n.owner = c => n \in store,
         Valid(q)' => /\ Valid(q) /\ folders \subseteq folders'
                      /\ \A n \in store : n.owner \in {Nobody, c} => n \in store',
         \A f \in Folder : /\ uidNext[f] <= uidNext'[f] /\ uidNext'[f] \in Nat
                           /\ \A u \in server'[f] : u \in server[f] \/ u = uidNext[f]
  PROVE  Tour(c, q)'
<1>1. Once(c, q)'
  BY DEF Tour, Once, Working
<1>2. Behind(c, q)'
  <2> SUFFICES ASSUME Valid(q)', NEW m \in q.seen
               PROVE  /\ Has(m[1], Nobody, m[2])'
                      /\ InOrder(m[1])' => ~Own(c, m)'
                      /\ InOrder(m[1])' /\ m[1] = q.cur => m[2] < q.first
    BY DEF Behind
  <2>1. /\ Has(m[1], Nobody, m[2])
        /\ InOrder(m[1]) => ~Own(c, m)
        /\ InOrder(m[1]) /\ m[1] = q.cur => m[2] < q.first
    BY DEF Tour, Behind
  <2>2. InOrder(m[1])' => InOrder(m[1])
    BY InOrderBefore
  <2>3. Has(m[1], Nobody, m[2])' /\ (Own(c, m)' => Own(c, m))
    BY <2>1 DEF Has, Own
  <2> QED BY <2>1, <2>2, <2>3
<1>3. Covers(c, q)'
  <2> SUFFICES ASSUME Valid(q)', NEW m \in q.had
               PROVE  /\ m[1] \in folders' /\ Up(m[1]) \cap Inactive = {} /\ m[2] < uidNext'[m[1]]
                      /\ m[2] \in server'[m[1]] => Has(m[1], c, m[2])' \/ Ahead(q, m)
    BY DEF Covers, Up, Ahead
  <2>1. /\ m[1] \in folders /\ Up(m[1]) \cap Inactive = {} /\ m[2] < uidNext[m[1]]
        /\ m[2] \in server[m[1]] => Has(m[1], c, m[2]) \/ Ahead(q, m)
    BY DEF Tour, Covers
  <2>2. m[1] \in Folder /\ uidNext[m[1]] \in Nat /\ m[2] \in Nat
    BY <2>1 DEF TypeOK, Tx, Mail
  <2>3. Has(m[1], c, m[2]) => Has(m[1], c, m[2])'
    BY DEF Has
  <2>4. m[1] \in folders' /\ m[2] < uidNext'[m[1]] /\ (m[2] \in server'[m[1]] => m[2] \in server[m[1]])
    BY <2>1, <2>2
  <2> QED BY <2>1, <2>3, <2>4
<1> QED BY <1>1, <1>2, <1>3 DEF Tour

-----------------------------------------------------------------------------
(* The steps of a fetch on its tour.                                       *)

\* A folder is not above those in the folder it is in.
LEMMA Siblings ==
  ASSUME NEW g \in Folder, NEW k \in Folder, parent[k] = g
  PROVE  k \notin Up(g) /\ k # g /\ Up(k) = {k} \cup Up(g) /\ g \in Up(g)
BY NotAboveParent, UpParent, UpClosed

LEMMA FirstLevelUp ==
  ASSUME NEW x \in Folder, parent[x] = Top
  PROVE  Up(x) = {x, Top}
BY UpParent, UpTop

LEMMA KnownAbove ==
  ASSUME JInv, NEW f \in folders
  PROVE  Up(f) \cap Folder \subseteq folders
<1>1. folders \cup {Top} \in SUBSET (Folder \cup {Top}) /\ \A h \in (folders \cup {Top}) \cap Folder : parent[h] \in folders \cup {Top}
  BY EmailAssumption DEF JInv, IInv, TypeOK, Trees
<1>2. Up(f) \subseteq folders \cup {Top}
  BY <1>1, UpLeast
<1> QED BY <1>2, EmailAssumption

\* A fetch that begins has everything before it.
LEMMA BeginTour ==
  ASSUME JInv, NEW c \in Client, BeginFetch(c)
  PROVE  \E q \in Tx : tx' = [tx EXCEPT ![c] = q] /\ Tour(c, q)
<1>1. PICK q \in Tx :
        /\ ~tx[c].on /\ tx' = [tx EXCEPT ![c] = q]
        /\ q.on /\ q.box = container.no /\ q.todo = getSubfolders(Top) /\ q.cur = Top /\ q.left = {} /\ q.seen = {}
        /\ q.had = {m \in Mail : m[1] \in Reachable /\ m[2] \in server[m[1]]}
  BY BeganAs DEF JInv
<1>2. \A x \in q.todo : x \in Folder /\ parent[x] = Top /\ Up(x) = {x, Top}
  BY <1>1, FirstLevelUp DEF getSubfolders, JInv, IInv, TypeOK
<1>3. Working(q) = q.todo
  BY <1>1 DEF Working
<1>4. \A n \in store : n.owner # c
  BY <1>1 DEF JInv, IInv, Boxes
<1>5. Once(c, q)
  BY <1>1, <1>2, <1>3, <1>4, EmailAssumption DEF Once
<1>6. Behind(c, q)
  BY <1>1 DEF Behind
<1>7. Covers(c, q)
  <2> SUFFICES ASSUME NEW m \in q.had
               PROVE  /\ m[1] \in folders /\ Up(m[1]) \cap Inactive = {} /\ m[2] < uidNext[m[1]]
                      /\ \E x \in q.todo : x \in Up(m[1])
    BY DEF Covers, Ahead
  <2>1. m[1] \in folders /\ m[1] \in Folder /\ above[m[1]] \cap Inactive = {} /\ m[2] \in server[m[1]]
    BY <1>1 DEF Reachable, JInv, IInv, TypeOK
  <2>2. Up(m[1]) \cap Folder \subseteq above[m[1]] /\ Inactive \subseteq Folder
    BY <2>1, AboveHasUp, EmailAssumption
  <2>3. m[2] < uidNext[m[1]]
    BY <2>1 DEF JInv, IInv, Arrivals
  <2>4. PICK x \in Up(m[1]) \cap Folder : parent[x] = Top
    BY <2>1, FirstLevel
  <2>5. x \in folders
    BY <2>1, KnownAbove
  <2>6. x \in q.todo
    BY <1>1, <2>1, <2>2, <2>4, <2>5 DEF getSubfolders
  <2> QED BY <2>1, <2>2, <2>3, <2>4, <2>6
<1> QED BY <1>1, <1>5, <1>6, <1>7 DEF Tour

\* Behind the last node that is stored of a folder is behind all of them, if they are in order.
LEMMA LastIsNewest ==
  ASSUME TypeOK, Places, NEW f \in Folder, NEW c \in Client, InOrder(f),
         \A n \in store : n.folder = f => n.owner # c, NEW n \in Visible(f, c)
  PROVE  n.uid < firstUID(f, c)
<1>1. Visible(f, c) \in SUBSET Node /\ Visible(f, c) = Visible(f, Nobody) /\ Visible(f, c) \subseteq Nodes(f)
  BY DEF Visible, Nodes, TypeOK
<1>2. PICK l \in Visible(f, c) : l = Last(Visible(f, c)) /\ \A m \in Visible(f, c) : m.at <= l.at
  BY <1>1, LastOK
<1>3. firstUID(f, c) = l.uid + 1
  BY <1>2 DEF firstUID
<1>4. n.at \in Nat /\ l.at \in Nat /\ n.uid \in Nat /\ l.uid \in Nat
  BY <1>1 DEF Node
<1>5. CASE n.at = l.at
  <2>1. n = l
    BY <1>1, <1>5 DEF Places, Nodes
  <2> QED BY <1>3, <1>4, <2>1
<1>6. CASE n.at # l.at
  <2>1. n.at < l.at
    BY <1>2, <1>4, <1>6
  <2>2. n.uid < l.uid
    BY <1>1, <2>1 DEF InOrder
  <2> QED BY <1>3, <1>4, <2>2
<1> QED BY <1>5, <1>6

LEMMA OpenTour ==
  ASSUME JInv, NEW c \in Client, OpenFolder(c)
  PROVE  \E q \in Tx : tx' = [tx EXCEPT ![c] = q] /\ Tour(c, q)
<1>p. PICK p : p = tx[c]
  OBVIOUS
<1>f. PICK f \in Folder : \E q \in Tx :
        /\ p.cur = Top /\ SameBox(c) /\ f \in p.todo /\ tx' = [tx EXCEPT ![c] = q]
        /\ q.todo = p.todo \ {f} /\ q.cur = f /\ q.first = firstUID(f, c)
        /\ q.left = getMessagesByUID(f, firstUID(f, c)) /\ q.on = p.on /\ q.box = p.box
        /\ q.seen = p.seen \cup ({f} \X UIDs(Visible(f, c))) /\ q.had = p.had /\ p.on
  BY <1>p, OpenedAs DEF JInv
<1>1. PICK q \in Tx :
        /\ p.cur = Top /\ SameBox(c) /\ f \in p.todo /\ tx' = [tx EXCEPT ![c] = q]
        /\ q.todo = p.todo \ {f} /\ q.cur = f /\ q.first = firstUID(f, c)
        /\ q.left = getMessagesByUID(f, firstUID(f, c)) /\ q.on = p.on /\ q.box = p.box
        /\ q.seen = p.seen \cup ({f} \X UIDs(Visible(f, c))) /\ q.had = p.had /\ p.on
  BY <1>f
<1>2. Tour(c, p) /\ p.todo \subseteq Folder /\ p.seen \subseteq Mail /\ p.had \subseteq Mail /\ p.left = {} /\ f # Top
  BY <1>p, <1>1, EmailAssumption DEF JInv, IInv, TypeOK, Boxes
<1>3. Valid(p)
  BY <1>p, <1>1 DEF SameBox, Valid
<1>4. Working(q) = Working(p) /\ Working(p) = p.todo
  BY <1>1, <1>2, EmailAssumption DEF Working
<1>5. \A n \in store : \A x \in p.todo : n.owner = c => x \notin Up(n.folder)
  BY <1>1, <1>2, <1>4, EmailAssumption DEF Tour, Once
<1>6. \A n \in store : n.folder = f => n.owner # c
  BY <1>1, <1>5, UpClosed
<1>7. Once(c, q)
  BY <1>1, <1>2, <1>4, <1>5 DEF Tour, Once
<1>8. Behind(c, q)
  <2> SUFFICES ASSUME NEW m \in q.seen
               PROVE  /\ Has(m[1], Nobody, m[2])
                      /\ InOrder(m[1]) => ~Own(c, m)
                      /\ InOrder(m[1]) /\ m[1] = f => m[2] < firstUID(f, c)
    BY <1>1 DEF Behind
  <2>1. CASE m \in {f} \X UIDs(Visible(f, c))
    <3>1. m[1] = f /\ m[2] \in UIDs(Visible(f, c))
      BY <2>1
    <3>2. PICK n \in Visible(f, c) : n.uid = m[2]
      BY <3>1 DEF UIDs
    <3>3. n \in store /\ n.folder = f /\ n.owner = Nobody
      BY <1>6, <3>2 DEF Visible, Nodes
    <3>4. Has(f, Nobody, m[2])
      BY <3>2, <3>3 DEF Has
    <3>5. ~Own(c, m)
      BY <1>6, <3>1 DEF Own
    <3>6. InOrder(f) => m[2] < firstUID(f, c)
      BY <1>6, <3>2, LastIsNewest DEF JInv, IInv
    <3> QED BY <3>1, <3>4, <3>5, <3>6
  <2>2. CASE m \in p.seen
    <3>1. /\ Has(m[1], Nobody, m[2])
          /\ InOrder(m[1]) => ~Own(c, m)
      BY <1>2, <1>3, <2>2 DEF Tour, Behind
    <3>2. ASSUME InOrder(m[1]), m[1] = f PROVE m[2] < firstUID(f, c)
      <4>1. PICK n \in store : n.folder = f /\ n.uid = m[2] /\ n.owner = Nobody
        BY <3>1, <3>2 DEF Has
      <4>2. n \in Visible(f, c)
        BY <4>1 DEF Visible, Nodes
      <4>3. n.uid < firstUID(f, c)
        BY <1>6, <3>2, <4>2, LastIsNewest DEF JInv, IInv
      <4> QED BY <4>1, <4>3
    <3> QED BY <3>1, <3>2
  <2> QED BY <1>1, <2>1, <2>2
<1>9. Covers(c, q)
  <2> SUFFICES ASSUME NEW m \in p.had
               PROVE  /\ m[1] \in folders /\ Up(m[1]) \cap Inactive = {} /\ m[2] < uidNext[m[1]]
                      /\ m[2] \in server[m[1]] => Has(m[1], c, m[2]) \/ Ahead(q, m)
    BY <1>1 DEF Covers
  <2>1. /\ m[1] \in folders /\ Up(m[1]) \cap Inactive = {} /\ m[2] < uidNext[m[1]]
        /\ m[2] \in server[m[1]] => Has(m[1], c, m[2]) \/ Ahead(p, m)
    BY <1>2, <1>3 DEF Tour, Covers
  <2>2. ASSUME m[2] \in server[m[1]], Ahead(p, m) PROVE Has(m[1], c, m[2]) \/ Ahead(q, m)
    <3>1. PICK x \in p.todo : x \in Up(m[1])
      BY <1>1, <1>2, <2>2 DEF Ahead
    <3>2. CASE x # f
      BY <1>1, <3>1, <3>2 DEF Ahead
    <3>3. CASE x = f /\ m[1] # f
      BY <1>1, <1>2, <3>1, <3>3 DEF Ahead
    <3>4. CASE m[1] = f
      <4>1. CASE m[2] < firstUID(f, c)
        BY <1>1, <2>2, <3>4, <4>1, Answered DEF JInv
      <4>2. CASE ~(m[2] < firstUID(f, c))
        <5>1. m[2] \in getMessagesByUID(f, firstUID(f, c))
          <6>1. firstUID(f, c) \in Nat /\ m[2] \in Nat
            BY <1>1, <2>2, <3>4 DEF JInv, IInv, TypeOK, Tx
          <6> QED BY <2>2, <3>4, <4>2, <6>1 DEF getMessagesByUID
        <5> QED BY <1>1, <3>4, <5>1 DEF Ahead
      <4> QED BY <4>1, <4>2
    <3> QED BY <3>2, <3>3, <3>4
  <2> QED BY <2>1, <2>2
<1> QED BY <1>1, <1>7, <1>8, <1>9 DEF Tour

LEMMA SkipTour ==
  ASSUME JInv, NEW c \in Client, SkipMessage(c)
  PROVE  \E q \in Tx : tx' = [tx EXCEPT ![c] = q] /\ Tour(c, q)
<1>p. PICK p : p = tx[c]
  OBVIOUS
<1>1. PICK q \in Tx :
        /\ tx' = [tx EXCEPT ![c] = q] /\ NextLeft(c) \in p.left /\ NextLeft(c) < p.first
        /\ q.todo = p.todo /\ q.cur = p.cur /\ q.first = p.first /\ q.left = p.left \ {NextLeft(c)}
        /\ q.on = p.on /\ q.box = p.box /\ q.seen = p.seen /\ q.had = p.had
  BY <1>p, SkippedAs DEF JInv
<1>2. Tour(c, p) /\ OneOK(c, p)
  BY <1>p, OneIs DEF JInv
<1>3. Once(c, q) /\ Behind(c, q)
  BY <1>1, <1>2 DEF Tour, Once, Behind, Working, Valid
<1>4. Covers(c, q)
  <2>1. \A m : Valid(p) /\ m[2] \in server[m[1]] /\ m[1] = p.cur /\ m[2] = NextLeft(c) => Has(m[1], c, m[2])
    BY <1>1, <1>2 DEF OneOK
  <2>2. \A m : Ahead(p, m) => Ahead(q, m) \/ (m[1] = p.cur /\ m[2] = NextLeft(c))
    BY <1>1 DEF Ahead
  <2>3. Valid(q) <=> Valid(p)
    BY <1>1 DEF Valid
  <2> QED BY <1>1, <1>2, <2>1, <2>2, <2>3 DEF Tour, Covers
<1> QED BY <1>1, <1>3, <1>4 DEF Tour

\* The folders in the one that is closed are in none of the others.
LEMMA CloseTour ==
  ASSUME JInv, NEW c \in Client, CloseFolder(c)
  PROVE  \E q \in Tx : tx' = [tx EXCEPT ![c] = q] /\ Tour(c, q)
<1>p. PICK p : p = tx[c]
  OBVIOUS
<1>g. PICK g : g = p.cur
  OBVIOUS
<1>1. PICK q \in Tx :
        /\ tx' = [tx EXCEPT ![c] = q] /\ g \in Folder /\ p.left = {}
        /\ q.todo = p.todo \cup getSubfolders(g) /\ q.cur = Top /\ q.first = p.first
        /\ q.left = p.left /\ q.on = p.on /\ q.box = p.box /\ q.seen = p.seen /\ q.had = p.had
  BY <1>p, <1>g, ClosedAs DEF JInv
<1>2. Tour(c, p) /\ p.todo \subseteq Folder /\ q.todo \subseteq Folder /\ p.seen \subseteq Mail /\ p.had \subseteq Mail
  BY <1>p DEF JInv, IInv, TypeOK, Tx
<1>3. Working(p) = p.todo \cup {g} /\ Working(q) = q.todo /\ g \notin p.todo /\ p.on
  BY <1>p, <1>g, <1>1, <1>2, EmailAssumption DEF Working, Tour, Once, JInv, IInv, Boxes
<1>4. \A k \in getSubfolders(g) : k \in Folder /\ k \notin Up(g) /\ Up(k) = {k} \cup Up(g) /\ g \in Up(g)
  BY <1>1, Siblings DEF getSubfolders, JInv, IInv, TypeOK
<1>5. \A x, y \in q.todo : x # y => x \notin Up(y)
  <2> SUFFICES ASSUME NEW x \in q.todo, NEW y \in q.todo, x # y, x \in Up(y) PROVE FALSE
    OBVIOUS
  <2>0. \A a, b \in p.todo \cup {g} : a # b => a \notin Up(b)
    BY <1>2, <1>3 DEF Tour, Once
  <2>1. CASE x \in p.todo /\ y \in p.todo
    BY <2>0, <2>1
  <2>2. CASE x \in p.todo /\ y \in getSubfolders(g)
    BY <1>3, <1>4, <2>0, <2>2
  <2>3. CASE x \in getSubfolders(g) /\ y \in p.todo
    <3>1. g \in Up(x) /\ Up(x) \subseteq Up(y)
      BY <1>2, <1>4, <2>3, UpWithin
    <3> QED BY <1>3, <2>0, <2>3, <3>1
  <2>4. CASE x \in getSubfolders(g) /\ y \in getSubfolders(g)
    BY <1>4, <2>4
  <2> QED BY <1>1, <2>1, <2>2, <2>3, <2>4
<1>6. \A n \in store : \A x \in q.todo : n.owner = c => x \notin Up(n.folder)
  <2> SUFFICES ASSUME NEW n \in store, NEW x \in q.todo, n.owner = c, x \in Up(n.folder) PROVE FALSE
    OBVIOUS
  <2>0. \A y \in p.todo \cup {g} : y \in Up(n.folder) => y = g /\ n.folder = y
    BY <1>g, <1>2, <1>3 DEF Tour, Once
  <2>1. CASE x \in p.todo
    BY <1>3, <2>0, <2>1
  <2>2. CASE x \in getSubfolders(g)
    <3>1. n.folder \in Folder
      BY DEF JInv, IInv, TypeOK, Node
    <3>2. g \in Up(n.folder)
      BY <1>4, <2>2, <3>1, UpWithin
    <3> QED BY <1>4, <2>0, <2>2, <3>2
  <2> QED BY <1>1, <2>1, <2>2
<1>7. Once(c, q)
  BY <1>1, <1>2, <1>3, <1>5, <1>6, EmailAssumption DEF Once
<1>8. Behind(c, q)
  <2>1. \A m \in p.seen : m[1] # Top
    BY <1>2, EmailAssumption DEF Mail
  <2> QED BY <1>1, <1>2, <2>1 DEF Tour, Behind, Valid
<1>9. Covers(c, q)
  <2> SUFFICES ASSUME Valid(p), NEW m \in p.had
               PROVE  /\ m[1] \in folders /\ Up(m[1]) \cap Inactive = {} /\ m[2] < uidNext[m[1]]
                      /\ m[2] \in server[m[1]] => Has(m[1], c, m[2]) \/ Ahead(q, m)
    BY <1>1 DEF Covers, Valid
  <2>1. /\ m[1] \in folders /\ Up(m[1]) \cap Inactive = {} /\ m[2] < uidNext[m[1]]
        /\ m[2] \in server[m[1]] => Has(m[1], c, m[2]) \/ Ahead(p, m)
    BY <1>2 DEF Tour, Covers
  <2>2. ASSUME Ahead(p, m) PROVE Ahead(q, m)
    <3>1. CASE \E x \in p.todo : x \in Up(m[1])
      BY <1>1, <3>1 DEF Ahead
    <3>2. CASE g \in Up(m[1]) \ {m[1], Top}
      <4>1. m[1] \in Folder
        BY <2>1 DEF JInv, IInv, TypeOK
      <4>2. PICK k \in Up(m[1]) \cap Folder : parent[k] = g
        BY <3>2, <4>1, ChildAbove
      <4>3. k \in folders
        BY <2>1, KnownAbove
      <4>4. k \in getSubfolders(g)
        BY <2>1, <4>2, <4>3 DEF getSubfolders
      <4> QED BY <1>1, <4>2, <4>4 DEF Ahead
    <3> QED BY <1>g, <1>1, <2>2, <3>1, <3>2 DEF Ahead
  <2> QED BY <2>1, <2>2
<1> QED BY <1>1, <1>7, <1>8, <1>9 DEF Tour

\* What is stored is newer than all that was seen, unless the folder is out of order.
LEMMA StoreTour ==
  ASSUME JInv, NEW c \in Client, FetchMessage(c)
  PROVE  /\ \E q \in Tx : tx' = [tx EXCEPT ![c] = q] /\ Tour(c, q)'
         /\ Places'
         /\ \A n \in store' : n.owner # c => n \in store
         /\ \A n \in store : n \in store'
<1>p. PICK p : p = tx[c]
  OBVIOUS
<1>u. PICK u : u = NextLeft(c)
  OBVIOUS
<1>f. PICK f : f = p.cur
  OBVIOUS
<1>1. PICK q \in Tx, new \in Node :
        /\ tx' = [tx EXCEPT ![c] = q] /\ f \in Folder /\ SameBox(c) /\ u \in p.left /\ u \in Nat /\ u >= p.first
        /\ q.todo = p.todo /\ q.cur = f /\ q.first = p.first /\ q.left = p.left \ {u} /\ q.on = p.on /\ q.box = p.box
        /\ q.seen = p.seen /\ q.had = p.had
        /\ new.folder = f /\ new.uid = u /\ new.owner = c /\ store' = store \cup {new}
        /\ \A n \in Nodes(f) : n.at < new.at
  BY <1>p, <1>u, <1>f, StoredAs DEF JInv
<1>2. Tour(c, p) /\ p \in Tx /\ f # Top
  BY <1>p, <1>1, EmailAssumption DEF JInv, IInv, TypeOK, Tx
<1>3. Valid(p) /\ UNCHANGED <<server, uidNext, container, folders>>
  BY <1>p, <1>1 DEF SameBox, Valid, FetchMessage, mailbox, config
<1>4. /\ \A n \in store' : n.owner # c => n \in store
      /\ \A n \in store : n \in store'
      /\ \A n \in store' : n.owner = Nobody => n \in store
  BY <1>1, EmailAssumption
<1>5. Places'
  <2>1. \A n \in store : n.at \in Nat /\ (n.folder = f => n.at < new.at) /\ new.at \in Nat
    BY <1>1 DEF Nodes, Node, JInv, IInv, TypeOK
  <2>2. \A m, n \in store : m.folder = n.folder /\ m.at = n.at => m = n
    BY DEF JInv, Places
  <2> QED BY <1>1, <2>1, <2>2 DEF Places
<1>6. \A g, d, v : Has(g, d, v) => Has(g, d, v)'
  BY <1>4 DEF Has
<1>7. Once(c, q)'
  <2>1. Working(q) = Working(p) /\ f \in Working(p) /\ p.cur = f
    BY <1>f, <1>1, <1>2 DEF Working
  <2>2. \A n \in store' : \A x \in Working(p) : n.owner = c /\ x \in Up(n.folder) => x = f /\ n.folder = x
    BY <1>1, <1>2, <2>1 DEF Tour, Once
  <2>3. /\ ~p.on => p.todo = {} /\ p.seen = {} /\ p.had = {}
        /\ f \notin p.todo
        /\ \A x, y \in Working(p) : x # y => x \notin Up(y)
    BY <1>2, <2>1 DEF Tour, Once
  <2> QED BY <1>1, <2>1, <2>2, <2>3 DEF Once, Working
<1>8. Behind(c, q)'
  <2> SUFFICES ASSUME NEW m \in p.seen
               PROVE  /\ Has(m[1], Nobody, m[2])'
                      /\ InOrder(m[1])' => ~Own(c, m)'
                      /\ InOrder(m[1])' /\ m[1] = f => m[2] < p.first
    BY <1>1 DEF Behind
  <2>1. /\ Has(m[1], Nobody, m[2])
        /\ InOrder(m[1]) => ~Own(c, m)
        /\ InOrder(m[1]) /\ m[1] = f => m[2] < p.first
    BY <1>f, <1>2, <1>3 DEF Tour, Behind
  <2>2. InOrder(m[1])' => InOrder(m[1])
    BY <1>4, InOrderBefore
  <2>3. m[1] = f /\ m[2] < p.first => m[2] # u
    <3>1. p.first \in Nat /\ m[2] \in Nat
      BY <1>2 DEF Tx, Mail
    <3> QED BY <1>1, <3>1
  <2>4. Own(c, m)' => Own(c, m) \/ (m[1] = f /\ m[2] = u)
    BY <1>1 DEF Own
  <2> QED BY <1>6, <2>1, <2>2, <2>3, <2>4
<1>9. Covers(c, q)'
  <2> SUFFICES ASSUME NEW m \in p.had
               PROVE  /\ m[1] \in folders /\ Up(m[1]) \cap Inactive = {} /\ m[2] < uidNext[m[1]]
                      /\ m[2] \in server[m[1]] => Has(m[1], c, m[2])' \/ Ahead(q, m)
    BY <1>1, <1>3 DEF Covers, Up, Ahead
  <2>1. /\ m[1] \in folders /\ Up(m[1]) \cap Inactive = {} /\ m[2] < uidNext[m[1]]
        /\ m[2] \in server[m[1]] => Has(m[1], c, m[2]) \/ Ahead(p, m)
    BY <1>2, <1>3 DEF Tour, Covers
  <2>2. Ahead(p, m) => Ahead(q, m) \/ (m[1] = f /\ m[2] = u)
    BY <1>f, <1>1 DEF Ahead
  <2>3. Has(f, c, u)'
    BY <1>1 DEF Has
  <2> QED BY <1>6, <2>1, <2>2, <2>3
<1> QED BY <1>1, <1>4, <1>5, <1>7, <1>8, <1>9 DEF Tour

\* A step of c, after which its fetch is q, disturbs no other.
LEMMA TourStep ==
  ASSUME JInv, IInv', NEW c \in Client, NEW q \in Tx, tx' = [tx EXCEPT ![c] = q], Tour(c, q)', Places',
         UNCHANGED <<server, remote, uidNext, container, folders>>,
         \A n \in store' : n.owner \notin {c, Nobody} => n \in store,
         \A n \in store : n.owner # c => n \in store'
  PROVE  JInv'
<1>1. ASSUME NEW d \in Client PROVE Tour(d, tx[d])'
  <2>1. CASE d = c
    BY <2>1 DEF JInv, IInv, TypeOK
  <2>2. CASE d # c
    <3>1. PICK r \in Tx : r = tx[d]
      BY DEF JInv, IInv, TypeOK, Tx
    <3>2. tx'[d] = r /\ Tour(d, r)
      BY <2>2, <3>1 DEF JInv, IInv, TypeOK
    <3>3. /\ \A n \in store' : n.owner = d => n \in store
          /\ \A n \in store : n.owner \in {Nobody, d} => n \in store'
          /\ Valid(r)' => Valid(r)
      BY <2>2, EmailAssumption DEF Valid
    <3>4. \A f \in Folder : /\ uidNext[f] <= uidNext'[f] /\ uidNext'[f] \in Nat
                            /\ \A u \in server'[f] : u \in server[f] \/ u = uidNext[f]
      BY DEF JInv, IInv, TypeOK
    <3>5. Tour(d, r)'
      BY <3>2, <3>3, <3>4, Undisturbed DEF JInv, IInv
    <3> QED BY <3>2, <3>5
  <2> QED BY <2>1, <2>2
<1>2. Trees'
  BY DEF JInv, Trees
<1> QED BY <1>1, <1>2 DEF JInv

\* Where nothing is stored.
LEMMA ReadTour ==
  ASSUME JInv, IInv', NEW c \in Client, NEW q \in Tx, tx' = [tx EXCEPT ![c] = q], Tour(c, q),
         UNCHANGED <<server, remote, uidNext, container, folders, store>>
  PROVE  JInv'
<1>1. \A f \in Folder : /\ uidNext[f] <= uidNext'[f] /\ uidNext'[f] \in Nat
                        /\ \A u \in server'[f] : u \in server[f] \/ u = uidNext[f]
  BY DEF JInv, IInv, TypeOK
<1>2. Valid(q)' => Valid(q)
  BY DEF Valid
<1>3. Tour(c, q)'
  BY <1>1, <1>2, Undisturbed DEF JInv, IInv
<1>4. Places'
  BY DEF JInv, Places
<1> QED BY <1>3, <1>4, TourStep

LEMMA EndTour ==
  ASSUME JInv, IInv', NEW c \in Client, CommitFetch(c) \/ AbortFetch(c)
  PROVE  JInv'
<1>q. PICK q : q = NoFetch
  OBVIOUS
<1>1. /\ tx' = [tx EXCEPT ![c] = q] /\ UNCHANGED <<server, remote, uidNext, container, folders>>
      /\ store' = {Freed(n, c) : n \in store} \/ store' = {n \in store : n.owner # c}
  BY <1>q DEF CommitFetch, AbortFetch, Freed, mailbox, config
<1>2. q \in Tx /\ Tour(c, q)'
  <2>1. q \in Tx /\ q.todo = {} /\ q.cur = Top /\ q.seen = {} /\ q.had = {}
    BY <1>q, NoFetchOK
  <2>2. Working(q) = {}
    BY <2>1 DEF Working
  <2> QED BY <2>1, <2>2 DEF Tour, Once, Behind, Covers, Working
<1>3. \A n \in store : /\ Freed(n, c).folder = n.folder /\ Freed(n, c).at = n.at /\ (n.owner # c => Freed(n, c) = n)
                       /\ Freed(n, c).owner = IF n.owner = c THEN Nobody ELSE n.owner
  BY DEF Freed, Node, JInv, IInv, TypeOK
<1>4. Places'
  BY <1>1, <1>3 DEF JInv, Places
<1>5. /\ \A n \in store' : n.owner \notin {c, Nobody} => n \in store
      /\ \A n \in store : n.owner # c => n \in store'
  BY <1>1, <1>3
<1> QED BY <1>1, <1>2, <1>4, <1>5, TourStep

\* Steps of the service, of the server and of the configuration.
LEMMA WorldTour ==
  ASSUME JInv, IInv', tx' = tx, Trees', store' = store \/ store' = {},
         \A c \in Client : Valid(tx[c])' => Valid(tx[c]) /\ folders \subseteq folders' /\ store' = store,
         \A f \in Folder : /\ uidNext[f] <= uidNext'[f] /\ uidNext'[f] \in Nat
                           /\ \A u \in server'[f] : u \in server[f] \/ u = uidNext[f]
  PROVE  JInv'
<1>1. ASSUME NEW c \in Client PROVE Tour(c, tx[c])'
  <2>1. PICK q \in Tx : q = tx[c]
    BY DEF JInv, IInv, TypeOK, Tx
  <2>2. Tour(c, q) /\ tx'[c] = q
    BY <2>1 DEF JInv
  <2>3. Valid(q)' => Valid(q) /\ folders \subseteq folders' /\ store' = store
    BY <2>1 DEF Valid
  <2>4. Tour(c, q)'
    BY <2>2, <2>3, Undisturbed DEF JInv, IInv
  <2> QED BY <2>2, <2>4
<1>2. Places'
  BY DEF JInv, Places
<1> QED BY <1>1, <1>2 DEF JInv

LEMMA InitJInv == Init => JInv
<1> SUFFICES ASSUME Init PROVE JInv
  OBVIOUS
<1>1. \A c \in Client : Tour(c, tx[c])
  BY NoFetchOK, NoTour DEF Init
<1>2. Places /\ Trees
  BY EmailAssumption DEF Init, Places, Trees
<1> QED BY <1>1, <1>2, InitIInv DEF JInv

LEMMA NextJInv == JInv /\ [Next]_vars => JInv'
<1> SUFFICES ASSUME JInv, [Next]_vars PROVE JInv'
  OBVIOUS
<1>1. IInv'
  BY NextIInv DEF JInv
<1>2. uidNext \in [Folder -> Nat] /\ uidNext' \in [Folder -> Nat]
  BY <1>1 DEF JInv, IInv, TypeOK
<1>3. CASE UNCHANGED vars
  <2>1. \A c \in Client : Valid(tx[c])' => Valid(tx[c])
    BY <1>3 DEF Valid, vars
  <2>2. Trees'
    BY <1>3 DEF vars, JInv, Trees
  <2> QED BY <1>1, <1>2, <1>3, <2>1, <2>2, WorldTour DEF vars
<1>4. CASE Next
  <2>1. CASE \/ AskProviders \/ clearProviders
             \/ \E id \in Provider, commits \in BOOLEAN : addProvider(id, commits) \/ removeProvider(id, commits)
    <3>1. UNCHANGED <<server, remote, uidNext, folders, store, tx>> /\ container'.there = container.there /\ container'.no = container.no
      BY <2>1 DEF AskProviders, clearProviders, addProvider, removeProvider, mailbox, config, JInv, IInv, TypeOK
    <3>2. \A c \in Client : Valid(tx[c])' => Valid(tx[c])
      BY <3>1 DEF Valid
    <3>3. Trees'
      BY <3>1 DEF JInv, Trees
    <3> QED BY <1>1, <1>2, <3>1, <3>2, <3>3, WorldTour
  <2>2. CASE (\E id \in Provider : configure(id)) \/ fetchFolderList
    <3>1. UNCHANGED <<server, remote, uidNext, store, tx>> /\ folders' = folders \cup remote
      BY <2>2 DEF configure, fetchFolderList, mailbox
    <3>2. \/ (container'.there => container.there) /\ container'.no = container.no
          \/ container'.no = container.no + 1
      <4>1. CASE fetchFolderList
        BY <4>1 DEF fetchFolderList
      <4>2. CASE \E id \in Provider : configure(id)
        <5>1. PICK id \in Provider : configure(id)
          BY <4>2
        <5>2. PICK p, no : no = (IF container.there THEN container.no ELSE container.no + 1)
                           /\ container' = [there |-> TRUE, no |-> no, link |-> p]
          BY <5>1 DEF configure
        <5> QED BY <5>2
      <4> QED BY <2>2, <4>1, <4>2
    <3>3. ASSUME NEW c \in Client PROVE Valid(tx[c])' => Valid(tx[c])
      <4>1. tx[c].box <= container.no /\ tx[c].box \in Nat /\ container.no \in Nat
        BY EmailAssumption DEF JInv, IInv, Boxes, TypeOK
      <4>2. tx'[c].box = tx[c].box
        BY <3>1
      <4>3. ASSUME Valid(tx[c])' PROVE container'.there /\ container'.no = tx[c].box
        BY <4>2, <4>3 DEF Valid
      <4>4. CASE (container'.there => container.there) /\ container'.no = container.no
        BY <4>3, <4>4 DEF Valid
      <4>5. CASE container'.no = container.no + 1
        BY <4>1, <4>3, <4>5
      <4> QED BY <3>2, <4>4, <4>5
    <3>4. Trees'
      BY <3>1 DEF JInv, Trees
    <3> QED BY <1>1, <1>2, <3>1, <3>3, <3>4, WorldTour
  <2>3. CASE dropConfiguration
    <3>1. UNCHANGED <<server, remote, uidNext, tx>> /\ folders' = {} /\ store' = {} /\ ~container'.there
      BY <2>3 DEF dropConfiguration, mailbox
    <3>2. Trees'
      BY <3>1 DEF JInv, Trees
    <3> QED BY <1>1, <1>2, <3>1, <3>2, WorldTour DEF Valid
  <2>4. ASSUME NEW c \in Client, Fetch(c) PROVE JInv'
    <3>1. CASE BeginFetch(c)
      <4>1. UNCHANGED <<server, remote, uidNext, container, folders, store>>
        BY <3>1 DEF BeginFetch, mailbox, config
      <4> QED BY <1>1, <3>1, <4>1, BeginTour, ReadTour
    <3>2. CASE OpenFolder(c)
      <4>1. UNCHANGED <<server, remote, uidNext, container, folders, store>>
        BY <3>2 DEF OpenFolder, mailbox, config
      <4> QED BY <1>1, <3>2, <4>1, OpenTour, ReadTour
    <3>3. CASE SkipMessage(c)
      <4>1. UNCHANGED <<server, remote, uidNext, container, folders, store>>
        BY <3>3 DEF SkipMessage, mailbox, config
      <4> QED BY <1>1, <3>3, <4>1, SkipTour, ReadTour
    <3>4. CASE CloseFolder(c)
      <4>1. UNCHANGED <<server, remote, uidNext, container, folders, store>>
        BY <3>4 DEF CloseFolder, mailbox, config
      <4> QED BY <1>1, <3>4, <4>1, CloseTour, ReadTour
    <3>5. CASE FetchMessage(c)
      <4>1. UNCHANGED <<server, remote, uidNext, container, folders>>
        BY <3>5 DEF FetchMessage, mailbox, config
      <4>2. /\ Places' /\ (\A n \in store' : n.owner # c => n \in store) /\ \A n \in store : n \in store'
        BY <3>5, StoreTour
      <4>3. PICK q \in Tx : tx' = [tx EXCEPT ![c] = q] /\ Tour(c, q)'
        BY <3>5, StoreTour
      <4> QED BY <1>1, <4>1, <4>2, <4>3, TourStep
    <3>6. CASE CommitFetch(c) \/ AbortFetch(c)
      BY <1>1, <3>6, EndTour
    <3> QED BY <2>4, <3>1, <3>2, <3>3, <3>4, <3>5, <3>6 DEF Fetch
  <2>5. ASSUME NEW f \in Folder, Arrive(f) \/ Expunge(f) \/ ChangeFolders(f) PROVE JInv'
    <3>1. UNCHANGED <<container, folders, store, tx>>
      BY <2>5 DEF Arrive, Expunge, ChangeFolders, config
    <3>2. \A g \in Folder : /\ uidNext[g] <= uidNext'[g]
                            /\ \A u \in server'[g] : u \in server[g] \/ u = uidNext[g]
      <4>1. server \in [Folder -> SUBSET Nat]
        BY DEF JInv, IInv, TypeOK
      <4>2. CASE Arrive(f)
        BY <1>2, <4>1, <4>2 DEF Arrive
      <4>3. CASE Expunge(f)
        BY <1>2, <4>1, <4>3 DEF Expunge
      <4>4. CASE ChangeFolders(f)
        BY <1>2, <4>1, <4>4 DEF ChangeFolders
      <4> QED BY <2>5, <4>2, <4>3, <4>4
    <3>3. Trees'
      BY <2>5, <3>1, EmailAssumption DEF Arrive, Expunge, ChangeFolders, JInv, Trees
    <3>4. \A c \in Client : Valid(tx[c])' => Valid(tx[c])
      BY <3>1 DEF Valid
    <3> QED BY <1>1, <1>2, <3>1, <3>2, <3>3, <3>4, WorldTour
  <2>6. CASE Restart
    <3>1. /\ store' = {n \in store : n.owner = Nobody} /\ tx' = [c \in Client |-> NoFetch]
          /\ UNCHANGED <<server, remote, uidNext, container, folders>>
      BY <2>6 DEF Restart, mailbox, config
    <3>2. ASSUME NEW c \in Client PROVE Tour(c, tx[c])'
      <4>1. PICK q : q = NoFetch
        OBVIOUS
      <4>2. q.todo = {} /\ q.cur = Top /\ q.seen = {} /\ q.had = {} /\ tx'[c] = q
        BY <3>1, <4>1, NoFetchOK
      <4>3. Working(q) = {}
        BY <4>2 DEF Working
      <4>4. Tour(c, q)'
        BY <4>2, <4>3 DEF Tour, Once, Behind, Covers, Working
      <4> QED BY <4>2, <4>4
    <3>3. Places' /\ Trees'
      BY <3>1 DEF JInv, Places, Trees
    <3> QED BY <1>1, <3>2, <3>3 DEF JInv
  <2> QED BY <1>4, <2>1, <2>2, <2>3, <2>4, <2>5, <2>6 DEF Next
<1> QED BY <1>3, <1>4

-----------------------------------------------------------------------------
(* Theorems.                                                               *)

\* The service keeps its state well formed: a configuration names a provider
\* node that exists or none, and messages are in folders of the configuration.
THEOREM Typing == Spec => []TypeOK
<1>1. IInv => TypeOK
  BY DEF IInv
<1> QED BY <1>1, InitIInv, NextIInv, PTL DEF Spec

\* What fetchAllMessages stores of a folder never has a gap, whatever the
\* number of fetches at a time, and whichever of them fail.
THEOREM FetchesLeaveNoGap == Spec => []NoGap
<1>1. IInv => NoGap
  BY NoGapIs DEF IInv
<1> QED BY <1>1, InitIInv, NextIInv, PTL DEF Spec

\* onNewMessageReceived has put every stored message into the project, once for
\* each contact.
THEOREM ProjectIsComplete == Spec => []ProjectHasStored
<1>1. IInv => ProjectHasStored
  BY DEF IInv
<1> QED BY <1>1, InitIInv, NextIInv, PTL DEF Spec

\* newMessage is not called for a message that was stored when the folder was opened,
\* whatever the server answers to the range of getMessagesByUID, as long as the nodes of
\* the folder are in the order of their UIDs.
THEOREM OnlyNewIsFetched == Spec => []FetchesOnlyNew
<1>1. JInv => FetchesOnlyNew
  <2> SUFFICES ASSUME JInv, NEW c \in Client, NEW m \in tx[c].seen, InOrder(m[1]), NEW n \in Made(c, m) PROVE FALSE
    BY DEF FetchesOnlyNew
  <2>1. n \in store /\ n.folder = m[1] /\ n.uid = m[2] /\ n.owner = c
    BY DEF Made, Nodes
  <2>2. Valid(tx[c])
    BY <2>1 DEF JInv, IInv, Boxes, SameBox, Valid
  <2>3. ~Own(c, m)
    BY <2>2 DEF JInv, Tour, Behind
  <2> QED BY <2>1, <2>3 DEF Own
<1> QED BY <1>1, InitJInv, NextJInv, PTL DEF Spec

\* fetchAllMessages, when it succeeds, has been to every active folder below the
\* configuration, however deep, and has left out no message.
THEOREM CompleteFetch == Spec => FetchIsComplete
<1>1. JInv /\ [Next]_vars =>
        [\A c \in Client :
           CommitFetch(c) => \A m \in tx[c].had : m[2] \in server[m[1]] => m[2] \in Stored(m[1])']_vars
  <2> SUFFICES ASSUME JInv, NEW c \in Client, CommitFetch(c), NEW m \in tx[c].had, m[2] \in server[m[1]]
               PROVE  m[2] \in Stored(m[1])'
    OBVIOUS
  <2>1. store' = {Freed(n, c) : n \in store} /\ tx[c].cur = Top /\ tx[c].todo = {} /\ Valid(tx[c])
    BY DEF CommitFetch, Freed, SameBox, Valid
  <2>2. tx[c].left = {}
    BY <2>1 DEF JInv, IInv, Boxes
  <2>3. ~Ahead(tx[c], m)
    BY <2>1, <2>2 DEF Ahead
  <2>4. Has(m[1], c, m[2])
    BY <2>1, <2>3 DEF JInv, Tour, Covers
  <2>5. PICK n \in store : n.folder = m[1] /\ n.uid = m[2] /\ n.owner \in {Nobody, c}
    BY <2>4 DEF Has
  <2>6. Freed(n, c).folder = n.folder /\ Freed(n, c).uid = n.uid /\ Freed(n, c).owner = Nobody
    BY <2>5, FreedOK DEF JInv, IInv, TypeOK
  <2>7. Freed(n, c) \in store'
    BY <2>1
  <2> QED BY <2>5, <2>6, <2>7 DEF Stored, UIDs, Visible, Nodes
<1> QED BY <1>1, InitJInv, NextJInv, PTL DEF Spec, FetchIsComplete
=============================================================================
